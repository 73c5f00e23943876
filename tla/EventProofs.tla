----------------------------- MODULE EventProofs -----------------------------
(***************************************************************************)
(* Mounts, watched paths, socket activation, devices and the journal, for  *)
(* any units, listeners, paths and device nodes, any sizes of the buffers  *)
(* and the files and any number of events; and the D-Bus bridge, for any   *)
(* number of starts, calls and failed lookups.                             *)
(***************************************************************************)
EXTENDS EventSources, BusBridge, FoldLemmas, TLAPS

\* What every step does to the part of the state that one source has
LEMMA NextOfSource ==
  ASSUME [Next]_sourceVars
  PROVE  /\ MountsNext \/ UNCHANGED mountsVars
         /\ DevicesNext \/ UNCHANGED devicesVars
         /\ PathsNext \/ UNCHANGED pathsVars
         /\ SocketsNext \/ UNCHANGED socketsVars
         /\ JournalNext \/ UNCHANGED journalVars
  BY DEF Next, Only, sourceVars

-----------------------------------------------------------------------------
(* Mounts.                                                                 *)

\* A unit whose file is not complete never mounts anything
MountInv ==
  /\ layers \in Nat /\ over \in Nat
  /\ ~Complete => layers = 0
  /\ MountedOnce

LEMMA MountInit == ASSUME MountsInit PROVE MountInv
  BY DEF MountsInit, MountInv, MountedOnce

LEMMA MountStep == ASSUME MountInv, MountsNext \/ UNCHANGED mountsVars PROVE MountInv'
<1> USE DEF MountInv, MountedOnce, Complete
<1>1. CASE start_mount
  BY <1>1 DEF start_mount
<1>2. CASE ReplaceStop
  BY <1>2 DEF ReplaceStop
<1>3. CASE StartIgnoring
  BY <1>3 DEF StartIgnoring
<1>4. CASE stop_mount
  BY <1>4 DEF stop_mount, Unmountable
<1>5. CASE ResetFailedMount \/ FilesOpen
  BY <1>5 DEF ResetFailedMount, FilesOpen
<1>6. CASE SomebodyUnmounts
  BY <1>6 DEF SomebodyUnmounts, Unmountable
<1>7. CASE UNCHANGED mountsVars
  BY <1>7 DEF mountsVars
<1>8. QED
  BY <1>1, <1>2, <1>3, <1>4, <1>5, <1>6, <1>7 DEF MountsNext

\* However mounts, refused unmounts, starts over the job a refusal left and
\* unmounts by others follow each other, what the unit mounted is there once and
\* somebody is still to unmount it (start_mount, stop_mount).
THEOREM MountedOnceCorrect == Spec => []MountedOnce
<1>1. Init => MountInv
  BY MountInit DEF Init
<1>2. MountInv /\ [Next]_sourceVars => MountInv'
  BY MountStep, NextOfSource
<1>3. MountInv => MountedOnce
  BY DEF MountInv
<1>4. QED
  BY <1>1, <1>2, <1>3, PTL DEF Spec

-----------------------------------------------------------------------------
(* Watched paths.                                                          *)

\* A path that is about to fire has changed since it fired last: there is one
\* more change than it takes
PathInv ==
  /\ mtimes \in [Paths -> Nat] /\ stamp \in [Paths -> Nat] /\ fired \in [Changed -> Nat]
  /\ \A p \in Changed :
       /\ fired[p] < stamp[p]
       /\ path_changed_triggered(path_state.armed[p], mtimes[p]) => fired[p] + 1 < stamp[p]

LEMMA PathInit == ASSUME PathsInit PROVE PathInv
  BY PathsAssumption DEF PathsInit, PathInv, NewState, path_changed_triggered, Unseen, Changed

\* A change makes room for one more firing, and what has fired is recorded
LEMMA PathStep == ASSUME PathInv, PathsNext \/ UNCHANGED pathsVars PROVE PathInv'
<1> USE PathsAssumption DEF PathInv, path_changed_triggered, Unseen
<1>0. Changed \subseteq Paths
  BY DEF Changed
<1>1. ASSUME NEW p \in Paths, PathAppearsOrChanges(p) PROVE PathInv'
  BY <1>0, <1>1 DEF PathAppearsOrChanges
<1>2. ASSUME NEW p \in Paths, PathVanishes(p) PROVE PathInv'
  BY <1>0, <1>2 DEF PathVanishes
<1>3. CASE StartPath
  BY <1>0, <1>3 DEF StartPath
<1>4. CASE poll_paths
  BY <1>0, <1>4 DEF poll_paths, Armed
<1>5. CASE StopPath \/ TargetStarts \/ TargetEnds
  BY <1>5 DEF StopPath, TargetStarts, TargetEnds
<1>6. CASE ReloadPath
  BY <1>6 DEF ReloadPath, NewState
<1>7. CASE UNCHANGED pathsVars
  BY <1>7 DEF pathsVars
<1>8. QED
  BY <1>1, <1>2, <1>3, <1>4, <1>5, <1>6, <1>7 DEF PathsNext

\* Whatever happens to the files, to the target and to the unit, a path fires at
\* most once per change of it (path_changed_triggered).
THEOREM FiresOnceCorrect == Spec => []FiresOncePerChange
<1>1. Init => PathInv
  BY PathInit DEF Init
<1>2. PathInv /\ [Next]_sourceVars => PathInv'
  BY PathStep, NextOfSource
<1>3. PathInv => FiresOncePerChange
  BY DEF PathInv, FiresOncePerChange
<1>4. QED
  BY <1>1, <1>2, <1>3, PTL DEF Spec

-----------------------------------------------------------------------------
(* Socket activation.                                                      *)

LEMMA MinOfNats ==
  ASSUME NEW S \in SUBSET Nat, S # {}
  PROVE  Min(S) \in S
BY LeastNatural DEF Min

\* start_socket binds none of its specs, some or all of them
LEMMA BoundIsInt ==
  ASSUME NEW s \in Sockets, NEW ls, NEW refused
  PROVE  Bound(s, ls, refused) \in Int
<1> DEFINE fails == {i \in DOMAIN Listen[s] :
                       \/ ~Supported(Listen[s][i]) \/ ~Free(s, i, ls)
                       \/ Listen[s][i].addr \in refused}
<1>1. Len(Listen[s]) \in Nat /\ DOMAIN Listen[s] = 1 .. Len(Listen[s])
  BY SocketsAssumption
<1>2. fails \in SUBSET Nat
  BY <1>1
<1>3. Bound(s, ls, refused) = IF fails = {} THEN Len(Listen[s]) ELSE Min(fails) - 1
  BY DEF Bound
<1> HIDE DEF fails
<1>4. fails # {} => Min(fails) \in Nat
  BY <1>2, MinOfNats
<1>5. QED
  BY <1>1, <1>3, <1>4

IsListener(r) == r.unit \in Sockets /\ r = [unit |-> r.unit, spec |-> r.spec, waiting |-> r.waiting]

SocketInv ==
  /\ binds \in Int
  /\ socket_units \in [Sockets -> {"inactive", "active", "failed", "reset"}]
  /\ listeners = [l \in DOMAIN listeners |-> listeners[l]]
  /\ \A l \in DOMAIN listeners : IsListener(listeners[l])
  /\ ListenersServed

LEMMA SocketInit == ASSUME SocketsInit PROVE SocketInv
<1>1. DOMAIN listeners = {}
  BY DEF SocketsInit
<1>2. QED
  BY <1>1 DEF SocketsInit, SocketInv, ListenersServed, ListenersAccounted, NoDeafListener

\* A unit started while its service runs is late, and a restart takes the service
\* with it; so what the service does not have belongs to a late unit
LEMMA SocketStep == ASSUME SocketInv, SocketsNext \/ UNCHANGED socketsVars PROVE SocketInv'
<1> USE DEF SocketInv, ListenersServed, ListenersAccounted, NoDeafListener, IsListener
<1>1. ASSUME NEW s \in Sockets, StartSocket(s) PROVE SocketInv'
  <2>1. CASE StartDisabled(s)
    BY <1>1, <2>1 DEF StartSocket, StartDisabled
  <2>2. ASSUME NEW k \in Int, start_socket(s, k, listeners) PROVE SocketInv'
    BY <1>1, <2>2 DEF StartSocket, start_socket
  <2>3. QED
    BY <1>1, <2>1, <2>2, BoundIsInt DEF StartSocket
<1>2. ASSUME NEW s \in Sockets, StopSocket(s) PROVE SocketInv'
  BY <1>2 DEF StopSocket, stop_socket, Without, Of
<1>3. ASSUME NEW s \in Sockets, RestartSocket(s) PROVE SocketInv'
  <2> DEFINE ls == stop_socket(s, listeners)
  <2>1. PICK k \in Int : start_socket(s, k, ls)
    BY <1>3, BoundIsInt DEF RestartSocket
  <2>2. \A l \in DOMAIN ls : l \in DOMAIN listeners /\ ls[l] = listeners[l] /\ ls[l].unit # s
    BY DEF stop_socket, Without, Of
  <2>3. service' # "running"
    BY <1>3 DEF RestartSocket, ServiceToo
  <2> HIDE DEF ls
  <2>4. QED
    BY <2>1, <2>2, <2>3 DEF start_socket
<1>4. ASSUME NEW s \in Sockets, ResetFailedSocket(s) PROVE SocketInv'
  BY <1>4 DEF ResetFailedSocket
<1>5. ASSUME NEW l, ClientConnects(l) \/ ServiceAccepts(l) PROVE SocketInv'
  <2>1. DOMAIN listeners' = DOMAIN listeners
    BY <1>5 DEF ClientConnects, ServiceAccepts
  <2>2. \A k \in DOMAIN listeners : /\ listeners'[k].unit = listeners[k].unit
                                    /\ IsListener(listeners'[k])
    BY <1>5 DEF ClientConnects, ServiceAccepts
  <2>3. QED
    BY <1>5, <2>1, <2>2 DEF ClientConnects, ServiceAccepts
<1>6. ASSUME NEW l, Trigger(l) \/ ServiceStarts PROVE SocketInv'
  BY <1>6 DEF Trigger, ServiceStarts, Run
<1>7. CASE ServiceEnds
  BY <1>7 DEF ServiceEnds
<1>8. CASE UNCHANGED socketsVars
  BY <1>8 DEF socketsVars
<1>9. QED
  BY <1>1, <1>2, <1>3, <1>4, <1>5, <1>6, <1>7, <1>8 DEF SocketsNext

\* Through failed binds, restarts of either unit and resets, an open listener has
\* a unit to close it and a running service to accept from it, if its unit was not
\* started later than the service (start_socket, stop_socket, restart).
THEOREM ListenersServedCorrect == Spec => []ListenersServed
<1>1. Init => SocketInv
  BY SocketInit DEF Init
<1>2. SocketInv /\ [Next]_sourceVars => SocketInv'
  BY SocketStep, NextOfSource
<1>3. SocketInv => ListenersServed
  BY DEF SocketInv
<1>4. QED
  BY <1>1, <1>2, <1>3, PTL DEF Spec

-----------------------------------------------------------------------------
(* Devices.                                                                *)

UEvents == [action : {"add", "remove", "change", "bind", "move"}, dev : Devs]

\* Of the first k events those that say whether d is there, and what they leave
\* of the devices in base
About(q, k, d) == {i \in 1 .. k : q[i].dev = d /\ q[i].action # "bind"}
KnownAfter(base, q, k, d) ==
  IF About(q, k, d) = {} THEN d \in base
  ELSE \E i \in About(q, k, d) : q[i].action # "remove" /\ \A j \in About(q, k, d) : j <= i

\* The last of them decides.
LEMMA LastEventDecides ==
  ASSUME NEW q \in Seq(UEvents), NEW k \in 1 .. Len(q), NEW d, NEW base
  PROVE  KnownAfter(base, q, k, d) <=>
           IF q[k].dev = d /\ q[k].action # "bind" THEN q[k].action # "remove"
           ELSE KnownAfter(base, q, k - 1, d)
<1>1. k \in Nat /\ 1 .. k = (1 .. k - 1) \cup {k} /\ \A j \in 1 .. k - 1 : j \in Nat /\ j < k
  OBVIOUS
<1>2. CASE q[k].dev = d /\ q[k].action # "bind"
  <2>1. About(q, k, d) = About(q, k - 1, d) \cup {k}
    BY <1>1, <1>2 DEF About
  <2>2. \A j \in About(q, k - 1, d) : j \in Nat /\ j < k
    BY <1>1 DEF About
  <2> QED BY <1>1, <1>2, <2>1, <2>2 DEF KnownAfter
<1>3. CASE ~(q[k].dev = d /\ q[k].action # "bind")
  <2>1. About(q, k, d) = About(q, k - 1, d)
    BY <1>1, <1>3 DEF About
  <2> QED BY <1>3, <2>1 DEF KnownAfter
<1> QED BY <1>2, <1>3

\* Without events the devices are those of base; one more event changes what it
\* is about.
LEMMA KnownWithout ==
  ASSUME NEW q, NEW d, NEW base
  PROVE  KnownAfter(base, q, 0, d) <=> d \in base
<1>1. About(q, 0, d) = {}
  BY DEF About
<1> QED BY <1>1 DEF KnownAfter

LEMMA KnownWithOneMore ==
  ASSUME NEW q \in Seq(UEvents), NEW e \in UEvents, NEW d, NEW base
  PROVE  KnownAfter(base, Append(q, e), Len(Append(q, e)), d) <=>
           IF e.dev = d /\ e.action # "bind" THEN e.action # "remove"
           ELSE KnownAfter(base, q, Len(q), d)
<1> DEFINE r == Append(q, e)
<1>1. /\ r \in Seq(UEvents) /\ Len(q) \in Nat /\ Len(r) = Len(q) + 1 /\ r[Len(r)] = e
      /\ Len(r) \in 1 .. Len(r) /\ Len(r) - 1 = Len(q)
      /\ \A i \in 1 .. Len(q) : r[i] = q[i]
  OBVIOUS
<1> HIDE DEF r
<1>2. About(r, Len(q), d) = About(q, Len(q), d)
  BY <1>1 DEF About
<1>3. About(q, Len(q), d) \subseteq 1 .. Len(q)
  BY DEF About
<1>4. KnownAfter(base, r, Len(q), d) <=> KnownAfter(base, q, Len(q), d)
  BY <1>1, <1>2, <1>3 DEF KnownAfter
<1>5. KnownAfter(base, r, Len(r), d) <=>
        IF r[Len(r)].dev = d /\ r[Len(r)].action # "bind" THEN r[Len(r)].action # "remove"
        ELSE KnownAfter(base, r, Len(r) - 1, d)
  BY <1>1, LastEventDecides
<1> QED BY <1>1, <1>4, <1>5 DEF r

\* The table of units is that of the known devices
UnitTables == [devs : SUBSET Devs, units : [DeviceNames -> {"absent", "active", "inactive"}]]
Matching(t) ==
  /\ t \in UnitTables
  /\ \A n \in DeviceNames : t.units[n] # "absent" <=> \E d \in t.devs : n \in unit_names(d)

\* An event is about one device and its units.
LEMMA ApplyMatches ==
  ASSUME NEW t, Matching(t), NEW e \in UEvents
  PROVE  /\ Matching(Apply(t, e))
         /\ \A d \in Devs : d \in Apply(t, e).devs <=>
              IF e.dev = d /\ e.action # "bind" THEN e.action # "remove" ELSE d \in t.devs
<1>1. e.dev \in Devs /\ t \in UnitTables
  BY DEF UEvents, Matching
<1>2. \A c, d \in Devs : \A n : n \in unit_names(c) /\ n \in unit_names(d) => c = d
  BY DEF unit_names
<1>3. CASE e.action \in {"add", "change", "move"}
  <2>1. Apply(t, e) = udev_register(t, e.dev)
    BY <1>3 DEF Apply
  <2>2. udev_register(t, e.dev) \in UnitTables
    BY <1>1 DEF UnitTables, udev_register
  <2>3. udev_register(t, e.dev).devs = t.devs \cup {e.dev}
    BY DEF udev_register
  <2>4. \A n \in DeviceNames :
          udev_register(t, e.dev).units[n] =
            IF n \in unit_names(e.dev) /\ t.units[n] = "absent" THEN "active" ELSE t.units[n]
    BY DEF udev_register
  <2>5. Matching(udev_register(t, e.dev))
    BY <2>2, <2>3, <2>4 DEF Matching
  <2> QED BY <1>3, <2>1, <2>3, <2>5
<1>4. CASE e.action = "remove"
  <2>1. Apply(t, e) = udev_remove(t, e.dev)
    BY <1>4 DEF Apply
  <2>2. udev_remove(t, e.dev) \in UnitTables
    BY <1>1 DEF UnitTables, udev_remove
  <2>3. udev_remove(t, e.dev).devs = t.devs \ {e.dev}
    BY DEF udev_remove
  <2>4. \A n \in DeviceNames :
          udev_remove(t, e.dev).units[n] =
            IF n \in unit_names(e.dev) THEN "absent" ELSE t.units[n]
    BY DEF udev_remove
  <2>5. t.devs \subseteq Devs
    BY <1>1 DEF UnitTables
  <2>6. Matching(udev_remove(t, e.dev))
    BY <1>1, <1>2, <2>2, <2>3, <2>4, <2>5 DEF Matching
  <2> QED BY <1>4, <2>1, <2>3, <2>6
<1>5. CASE e.action = "bind"
  BY <1>5 DEF Apply
<1> QED BY <1>3, <1>4, <1>5 DEF UEvents

\* What udev_process and udev_init make of the events they drain.
LEMMA FoldMatches ==
  ASSUME NEW t, Matching(t), NEW q \in Seq(UEvents)
  PROVE  /\ Matching(FoldLeft(Apply, t, q))
         /\ \A d \in Devs : d \in FoldLeft(Apply, t, q).devs <=> KnownAfter(t.devs, q, Len(q), d)
<1> DEFINE n == Len(q)
           A == {r \in UnitTables : Matching(r)}
           F(g) == [s \in SUBSET DOMAIN q |->
                      IF s = {} THEN t ELSE Apply(g[s \ {Max(s)}], q[Max(s)])]
           iter == CHOOSE g : g = F(g)
           step == [x \in A \X (1 .. n) |-> Apply(x[1], q[x[2]])]
<1>1. FoldLeft(Apply, t, q) = iter[DOMAIN q]
  BY DEF FoldLeft, MapThenFoldSet
<1>2. n \in Nat /\ DOMAIN q = 1 .. n
  OBVIOUS
<1>3. \A i \in 1 .. n : q[i] \in UEvents
  OBVIOUS
<1> HIDE DEF n
<1>4. \A r : r \in A <=> Matching(r)
  BY DEF Matching
<1>5. step \in [A \X (1 .. n) -> A]
  <2>1. \A x \in A \X (1 .. n) : Apply(x[1], q[x[2]]) \in A
    <3> SUFFICES ASSUME NEW x \in A \X (1 .. n)
                 PROVE  Apply(x[1], q[x[2]]) \in A
      OBVIOUS
    <3>1. Matching(x[1]) /\ q[x[2]] \in UEvents
      BY <1>3, <1>4
    <3> HIDE DEF A
    <3>2. Matching(Apply(x[1], q[x[2]]))
      BY <3>1, ApplyMatches
    <3> QED BY <1>4, <3>2
  <2> QED BY <2>1
<1>6. \A a \in A, i \in 1 .. n : step[<<a, i>>] = Apply(a, q[i])
  OBVIOUS
<1> HIDE DEF A, step
<1>7. PICK h \in [SUBSET (1 .. n) -> A] : \A s \in SUBSET (1 .. n) :
        h[s] = IF s = {} THEN t ELSE step[<<h[s \ {Max(s)}], Max(s)>>]
  <2>1. \E h \in [SUBSET (1 .. n) -> A] : Folds(h, n, t, step)
    BY <1>2, <1>4, <1>5, FoldExists
  <2> QED BY <2>1 DEF Folds
<1>8. \A s \in SUBSET (1 .. n) :
        h[s] = IF s = {} THEN t ELSE Apply(h[s \ {Max(s)}], q[Max(s)])
  <2> SUFFICES ASSUME NEW s \in SUBSET (1 .. n), s # {}
               PROVE  h[s] = Apply(h[s \ {Max(s)}], q[Max(s)])
    BY <1>7
  <2>1. Max(s) \in 1 .. n /\ s \ {Max(s)} \in SUBSET (1 .. n)
    <3>1. Max(s) \in s
      BY <1>2, MaxUpTo
    <3> QED BY <3>1
  <2>2. h[s \ {Max(s)}] \in A
    BY <2>1
  <2> QED BY <1>6, <1>7, <2>1, <2>2
<1>9. h = F(h)
  BY <1>2, <1>8
<1>10. iter = F(iter)
  <2> HIDE DEF F
  <2> QED BY <1>9
<1> HIDE DEF iter
<1>11. \A s \in SUBSET (1 .. n) :
         iter[s] = IF s = {} THEN t ELSE Apply(iter[s \ {Max(s)}], q[Max(s)])
  BY <1>2, <1>10
<1> HIDE DEF F
<1> DEFINE Ok(k) == {r \in UnitTables : /\ Matching(r)
                                        /\ \A d \in Devs : d \in r.devs <=> KnownAfter(t.devs, q, k, d)}
           G == [k \in 0 .. n |-> Ok(k)]
<1>12. iter[{}] \in G[0]
  <2>1. iter[{}] = t /\ 0 \in 0 .. n
    <3>1. {} \in SUBSET (1 .. n) /\ 0 \in 0 .. n
      BY <1>2
    <3> QED BY <1>11, <3>1
  <2>2. t \in Ok(0)
    BY KnownWithout DEF Matching
  <2> QED BY <2>1, <2>2
<1>13. ASSUME NEW k \in 1 .. n, iter[1 .. k - 1] \in G[k - 1]
       PROVE  iter[1 .. k] \in G[k]
  <2>1. /\ k \in Nat /\ k # 0 /\ (1 .. k) \in SUBSET (1 .. n) /\ k \in 1 .. k
        /\ k - 1 \in 0 .. n /\ k \in 0 .. n
    BY <1>2
  <2>2. Max(1 .. k) = k /\ (1 .. k) \ {k} = 1 .. k - 1
    BY <2>1, LastUpTo
  <2> DEFINE r == iter[1 .. k - 1]
  <2>3. iter[1 .. k] = Apply(r, q[k])
    BY <1>11, <2>1, <2>2
  <2>4. Matching(r) /\ \A d \in Devs : d \in r.devs <=> KnownAfter(t.devs, q, k - 1, d)
    BY <1>13, <2>1
  <2> HIDE DEF r, G
  <2>5. /\ Matching(Apply(r, q[k]))
        /\ \A d \in Devs : d \in Apply(r, q[k]).devs <=>
             IF q[k].dev = d /\ q[k].action # "bind" THEN q[k].action # "remove" ELSE d \in r.devs
    BY <1>3, <2>4, ApplyMatches
  <2>6. \A d \in Devs : KnownAfter(t.devs, q, k, d) <=>
          IF q[k].dev = d /\ q[k].action # "bind" THEN q[k].action # "remove"
          ELSE KnownAfter(t.devs, q, k - 1, d)
    BY LastEventDecides DEF n
  <2>7. Apply(r, q[k]) \in Ok(k)
    <3>1. Apply(r, q[k]) \in UnitTables
      BY <2>5 DEF Matching
    <3> QED BY <2>4, <2>5, <2>6, <3>1
  <2> QED BY <2>1, <2>3, <2>7 DEF G
<1> HIDE DEF G
<1>14. iter[1 .. n] \in G[n]
  BY <1>2, <1>12, <1>13, FoldKeeps
<1>15. iter[1 .. n] \in Ok(n)
  BY <1>2, <1>14 DEF G
<1>16. FoldLeft(Apply, t, q) \in Ok(n)
  BY <1>1, <1>2, <1>15
<1> QED BY <1>16 DEF n

\* What the manager knows, or will when udev_init takes up what the walk found;
\* and the devices that the walk still has to look at
Taken == IF walk.phase = "done" THEN udev_devices ELSE walk.found
Unvisited == IF walk.phase = "before" THEN Devs ELSE walk.left

\* Draining the queue now would leave d followed; if the walk has not been at d,
\* whether it finds it or not
Followed(d) ==
  /\ d \in present =>
       KnownAfter(IF d \in Unvisited THEN Devs ELSE Taken, uevents, Len(uevents), d)
  /\ KnownAfter(IF d \in Unvisited THEN {} ELSE Taken, uevents, Len(uevents), d) =>
       d \in present \cup moved

DeviceInv ==
  /\ present \in SUBSET Devs
  /\ uevents \in Seq(UEvents)
  /\ walk \in [phase : {"before", "walking", "walked", "done"},
               left : SUBSET Devs, found : SUBSET Devs]
  /\ walk.left \cap walk.found = {}
  /\ walk.phase = "before" => walk.left = {} /\ walk.found = {}
  /\ walk.phase \in {"walked", "done"} => walk.left = {}
  /\ walk.phase = "done" => walk.found = {}
  /\ monitor = "closed" => walk.phase = "before" /\ uevents = <<>>
  /\ walk.phase # "done" => udev_devices = {}
  /\ Matching(Tables)
  /\ monitor = "open" /\ ~overrun => \A d \in Devs : Followed(d)

\* Whether d is known depends on d alone.
LEMMA OneDevice ==
  ASSUME NEW B, NEW C, NEW q, NEW k, NEW d, d \in B <=> d \in C
  PROVE  KnownAfter(B, q, k, d) <=> KnownAfter(C, q, k, d)
BY DEF KnownAfter

\* An empty queue changes nothing.
LEMMA NothingQueued ==
  ASSUME NEW B, NEW d
  PROVE  KnownAfter(B, <<>>, Len(<<>>), d) <=> d \in B
BY KnownWithout

LEMMA DevicesInitInv == ASSUME DevicesInit PROVE DeviceInv
<1>1. Matching(Tables)
  <2>1. Tables = [devs |-> {}, units |-> [n \in DeviceNames |-> "absent"]]
    BY DEF DevicesInit, Tables
  <2> QED BY <2>1 DEF Matching, UnitTables
<1>2. /\ present \in SUBSET Devs /\ uevents = <<>> /\ monitor = "closed" /\ udev_devices = {}
      /\ walk = [phase |-> "before", left |-> {}, found |-> {}]
  BY DEF DevicesInit
<1> QED BY <1>1, <1>2 DEF DeviceInv

\* A change of the tree, and the message about it.
LEMMA HotplugFollowed ==
  ASSUME DeviceInv, NEW action \in {"add", "remove", "change", "bind", "move"}, NEW c \in Devs,
         Uevent(action, c), present' \in SUBSET Devs,
         \A d \in Devs :
           /\ d # c \/ action = "bind" =>
                /\ d \in present' => d \in present
                /\ d \in present \cup moved => d \in present' \cup moved'
           /\ action = "remove" => c \notin present'
           /\ action \notin {"remove", "bind"} => c \in present' \cup moved'
  PROVE  DeviceInv'
<1> DEFINE e == [action |-> action, dev |-> c]
<1>1. e \in UEvents /\ e.dev = c /\ e.action = action
  BY DEF UEvents
<1>2. UNCHANGED <<monitor, walk, udev_devices, device_units>>
  BY DEF Uevent
<1>3. Tables' = Tables /\ Taken' = Taken /\ Unvisited' = Unvisited
  BY <1>2 DEF Tables, Taken, Unvisited
<1> HIDE DEF e
<1>4. Matching(Tables')
  BY <1>3 DEF DeviceInv
<1>5. uevents' \in {uevents, Append(uevents, e)} /\ (uevents' # uevents => monitor = "open")
  BY DEF Uevent, e
<1>6. uevents \in Seq(UEvents) /\ uevents' \in Seq(UEvents)
  BY <1>1, <1>5 DEF DeviceInv
<1>7. ASSUME monitor' = "open", ~overrun', NEW d \in Devs
      PROVE  Followed(d)'
  <2>1. monitor = "open" /\ ~overrun /\ uevents' = Append(uevents, e)
    BY <1>2, <1>7 DEF Uevent, e
  <2>2. Followed(d)
    BY <1>7, <2>1 DEF DeviceInv
  <2>3. \A B : KnownAfter(B, uevents', Len(uevents'), d) <=>
                 IF c = d /\ action # "bind" THEN action # "remove"
                 ELSE KnownAfter(B, uevents, Len(uevents), d)
    BY <1>1, <1>6, <2>1, KnownWithOneMore
  <2>4. CASE c = d /\ action # "bind"
    BY <1>3, <2>3, <2>4 DEF Followed
  <2>5. CASE ~(c = d /\ action # "bind")
    BY <1>3, <2>2, <2>3, <2>5 DEF Followed
  <2> QED BY <2>4, <2>5
<1> QED BY <1>2, <1>4, <1>5, <1>6, <1>7 DEF DeviceInv

LEMMA KernelStep ==
  ASSUME DeviceInv, NEW d \in Devs, NEW c \in Devs,
         PlugIn(d) \/ Unplug(d) \/ Report(d) \/ Rename(d, c)
  PROVE  DeviceInv'
<1> USE DEF DeviceInv
<1>1. CASE PlugIn(d)
  <2>1. Uevent("add", d) /\ present' = present \cup {d} /\ moved' = moved \ {d}
    BY <1>1 DEF PlugIn
  <2> HIDE DEF DeviceInv
  <2> QED BY <2>1, HotplugFollowed DEF DeviceInv
<1>2. CASE Unplug(d)
  <2>1. Uevent("remove", d) /\ present' = present \ {d} /\ moved' = moved
    BY <1>2 DEF Unplug
  <2> HIDE DEF DeviceInv
  <2> QED BY <2>1, HotplugFollowed DEF DeviceInv
<1>3. CASE Report(d)
  <2>1. d \in present /\ present' = present /\ moved' = moved
    BY <1>3 DEF Report
  <2>2. Uevent("change", d) \/ Uevent("bind", d)
    BY <1>3 DEF Report
  <2> HIDE DEF DeviceInv
  <2> QED BY <2>1, <2>2, HotplugFollowed DEF DeviceInv
<1>4. CASE Rename(d, c)
  <2>1. /\ Uevent("move", c) /\ d \in present /\ c \notin present
        /\ present' = (present \ {d}) \cup {c}
        /\ moved' = (moved \cup {d}) \ {c}
    BY <1>4 DEF Rename
  <2> HIDE DEF DeviceInv
  <2> QED BY <2>1, HotplugFollowed DEF DeviceInv
<1> QED BY <1>1, <1>2, <1>3, <1>4

\* Before the subscription nothing is queued, and the walk is still to see all.
LEMMA SubscribeStep == ASSUME DeviceInv, Subscribe PROVE DeviceInv'
<1>1. /\ monitor = "closed" /\ monitor' \in {"open", "unavailable"}
      /\ UNCHANGED <<present, moved, uevents, overrun, walk, udev_devices, device_units>>
  BY DEF Subscribe, kernel
<1>2. walk.phase = "before" /\ uevents = <<>>
  BY <1>1 DEF DeviceInv
<1>3. \A d \in Devs : Followed(d)'
  BY <1>1, <1>2, NothingQueued DEF Followed, Unvisited
<1>4. Matching(Tables)'
  BY <1>1 DEF DeviceInv, Tables, Matching, UnitTables
<1> QED BY <1>1, <1>3, <1>4 DEF DeviceInv

LEMMA StartWalkStep == ASSUME DeviceInv, StartWalk PROVE DeviceInv'
<1>1. /\ walk.phase = "before" /\ monitor # "closed"
      /\ walk' = [phase |-> "walking", left |-> Devs, found |-> {}]
      /\ UNCHANGED <<present, moved, monitor, uevents, overrun, udev_devices, device_units>>
  BY DEF StartWalk, WalkBegins, kernel
<1>2. Unvisited' = Unvisited /\ Taken' = Taken
  BY <1>1 DEF Unvisited, Taken, DeviceInv
<1>3. ASSUME NEW d \in Devs, Followed(d) PROVE Followed(d)'
  BY <1>1, <1>2, <1>3 DEF Followed
<1>4. Matching(Tables)'
  BY <1>1 DEF DeviceInv, Tables, Matching, UnitTables
<1> QED BY <1>1, <1>3, <1>4 DEF DeviceInv

\* What the walk sees of a device is what the events since the subscription need.
LEMMA VisitStep == ASSUME DeviceInv, NEW c \in Devs, Visit(c) PROVE DeviceInv'
<1>1. /\ c \in walk.left
      /\ walk' = [phase |-> IF walk.left = {c} THEN "walked" ELSE "walking",
                  left |-> walk.left \ {c}, found |-> walk.found \cup ({c} \cap present)]
      /\ UNCHANGED <<present, moved, monitor, uevents, overrun, udev_devices, device_units>>
  BY DEF Visit, kernel
<1>2. /\ walk.phase \notin {"before", "done"} /\ walk'.phase \in {"walking", "walked"}
      /\ walk'.left = walk.left \ {c} /\ walk'.found = walk.found \cup ({c} \cap present)
  BY <1>1 DEF DeviceInv
<1>3. /\ Unvisited = walk.left /\ Unvisited' = walk'.left
      /\ Taken = walk.found /\ Taken' = walk'.found
  BY <1>2 DEF Unvisited, Taken
<1>4. /\ c \in Unvisited /\ c \notin Unvisited' /\ (c \in Taken' <=> c \in present)
      /\ \A d \in Devs \ {c} : /\ d \in Taken' <=> d \in Taken
                               /\ d \in Unvisited' <=> d \in Unvisited
  BY <1>1, <1>2, <1>3 DEF DeviceInv
<1>5. ASSUME NEW d \in Devs, Followed(d) PROVE Followed(d)'
  <2>1. CASE d = c
    <3>1. d \in present =>
            (KnownAfter(Taken', uevents, Len(uevents), d)
               <=> KnownAfter(Devs, uevents, Len(uevents), d))
      BY <1>4, <2>1, OneDevice
    <3>2. d \notin present =>
            (KnownAfter(Taken', uevents, Len(uevents), d)
               <=> KnownAfter({}, uevents, Len(uevents), d))
      BY <1>4, <2>1, OneDevice
    <3> QED BY <1>1, <1>4, <1>5, <2>1, <3>1, <3>2 DEF Followed
  <2>2. CASE d # c
    <3>1. KnownAfter(Taken', uevents, Len(uevents), d)
            <=> KnownAfter(Taken, uevents, Len(uevents), d)
      BY <1>4, <2>2, OneDevice
    <3> QED BY <1>1, <1>4, <1>5, <2>2, <3>1 DEF Followed
  <2> QED BY <2>1, <2>2
<1>6. Matching(Tables)'
  BY <1>1 DEF DeviceInv, Tables, Matching, UnitTables
<1>7. /\ walk' \in [phase : {"before", "walking", "walked", "done"},
                    left : SUBSET Devs, found : SUBSET Devs]
      /\ walk'.left \cap walk'.found = {}
      /\ walk'.phase = "walked" => walk'.left = {}
  BY <1>1 DEF DeviceInv
<1> QED BY <1>1, <1>2, <1>5, <1>6, <1>7 DEF DeviceInv

\* Draining the queue.
LEMMA DrainStep ==
  ASSUME DeviceInv, NEW t, Matching(t), t.devs = Taken, Unvisited = {},
         Become(FoldLeft(Apply, t, uevents)),
         uevents' = <<>>, walk' = [walk EXCEPT !.phase = "done", !.found = {}],
         walk.phase \in {"walked", "done"}, monitor # "closed",
         UNCHANGED <<present, moved, monitor, overrun>>
  PROVE  DeviceInv'
<1> DEFINE r == FoldLeft(Apply, t, uevents)
<1>1. uevents \in Seq(UEvents)
  BY DEF DeviceInv
<1>2. /\ Matching(r)
      /\ \A d \in Devs : d \in r.devs <=> KnownAfter(Taken, uevents, Len(uevents), d)
  BY <1>1, FoldMatches
<1>3. udev_devices' = r.devs /\ device_units' = r.units
  BY DEF Become
<1> HIDE DEF r
<1>4. Matching(Tables)'
  <2>1. Tables' = [devs |-> r.devs, units |-> r.units]
    BY <1>3 DEF Tables
  <2>2. r \in UnitTables
    BY <1>2 DEF Matching
  <2>3. r = [devs |-> r.devs, units |-> r.units]
    BY <2>2 DEF UnitTables
  <2>4. Tables' = r
    BY <2>1, <2>3
  <2>5. Matching(Tables')
    BY <1>2, <2>4
  <2> QED BY <2>5 DEF Matching
<1>5. /\ walk' \in [phase : {"before", "walking", "walked", "done"},
                    left : SUBSET Devs, found : SUBSET Devs]
      /\ walk'.phase = "done" /\ walk'.left = {} /\ walk'.found = {}
  BY DEF DeviceInv
<1>6. Taken' = r.devs /\ Unvisited' = {}
  BY <1>3, <1>5 DEF Taken, Unvisited
<1>7. ASSUME NEW d \in Devs, Followed(d) PROVE Followed(d)'
  <2>1. KnownAfter(Taken', uevents', Len(uevents'), d) <=> d \in r.devs
    BY <1>6, NothingQueued
  <2> QED BY <1>2, <1>6, <1>7, <2>1 DEF Followed
<1> QED BY <1>4, <1>5, <1>7 DEF DeviceInv

LEMMA UdevStep == ASSUME DeviceInv, udev_init \/ udev_process PROVE DeviceInv'
<1>1. CASE udev_init
  <2> DEFINE t == [devs |-> walk.found,
                   units |-> [n \in DeviceNames |->
                                IF \E d \in walk.found : n \in unit_names(d) THEN "active"
                                ELSE device_units[n]]]
  <2>1. /\ walk.phase = "walked" /\ monitor # "closed" /\ uevents' = <<>>
        /\ walk' = [walk EXCEPT !.phase = "done", !.found = {}]
        /\ Become(FoldLeft(Apply, t, uevents))
        /\ UNCHANGED <<present, moved, monitor, overrun>>
    BY <1>1 DEF udev_init, kernel
  <2>2. /\ Taken = walk.found /\ Unvisited = {} /\ udev_devices = {}
        /\ walk.found \in SUBSET Devs
    BY <2>1 DEF DeviceInv, Taken, Unvisited
  <2>3. /\ device_units \in [DeviceNames -> {"absent", "active", "inactive"}]
        /\ \A n \in DeviceNames : device_units[n] = "absent"
    BY <2>2 DEF DeviceInv, Matching, UnitTables, Tables
  <2>4. Matching(t) /\ t.devs = Taken
    BY <2>2, <2>3 DEF Matching, UnitTables
  <2> HIDE DEF t
  <2> QED BY <2>1, <2>2, <2>4, DrainStep
<1>2. CASE udev_process
  <2>1. /\ walk.phase = "done" /\ uevents # <<>> /\ uevents' = <<>>
        /\ Become(FoldLeft(Apply, Tables, uevents))
        /\ UNCHANGED <<present, moved, monitor, overrun, walk>>
    BY <1>2 DEF udev_process, kernel
  <2>2. /\ Taken = udev_devices /\ Unvisited = {} /\ monitor # "closed" /\ Matching(Tables)
    BY <2>1 DEF DeviceInv, Taken, Unvisited
  <2>3. walk' = [walk EXCEPT !.phase = "done", !.found = {}]
    BY <2>1 DEF DeviceInv
  <2>4. Tables.devs = Taken
    BY <2>2 DEF Tables
  <2> QED BY <2>1, <2>2, <2>3, <2>4, DrainStep
<1> QED BY <1>1, <1>2

\* A reload, a stop and a start of device units leave what is known alone.
LEMMA UnitsStep ==
  ASSUME DeviceInv,
         ReloadDevices \/ \E n \in DeviceNames : StopDevice(n) \/ StartDevice(n)
  PROVE  DeviceInv'
<1>1. UNCHANGED <<present, moved, monitor, uevents, overrun, walk, udev_devices>>
  BY DEF ReloadDevices, StopDevice, StartDevice, kernel
<1>2. /\ device_units \in [DeviceNames -> {"absent", "active", "inactive"}]
      /\ udev_devices \in SUBSET Devs
      /\ \A m \in DeviceNames : device_units[m] # "absent" <=> \E d \in udev_devices : m \in unit_names(d)
  BY DEF DeviceInv, Matching, UnitTables, Tables
<1>3. /\ device_units' \in [DeviceNames -> {"absent", "active", "inactive"}]
      /\ \A m \in DeviceNames : device_units'[m] # "absent" <=> \E d \in udev_devices : m \in unit_names(d)
  BY <1>2 DEF ReloadDevices, Reloaded, StopDevice, StartDevice
<1>4. Matching(Tables)'
  BY <1>1, <1>2, <1>3 DEF Matching, UnitTables, Tables
<1>5. Taken' = Taken /\ Unvisited' = Unvisited
  BY <1>1 DEF Taken, Unvisited
<1>6. ASSUME NEW d \in Devs, Followed(d) PROVE Followed(d)'
  BY <1>1, <1>5, <1>6 DEF Followed
<1> QED BY <1>1, <1>4, <1>6 DEF DeviceInv

LEMMA DevicesStep == ASSUME DeviceInv, DevicesNext \/ UNCHANGED devicesVars PROVE DeviceInv'
<1>1. CASE UNCHANGED devicesVars
  <2>1. UNCHANGED <<present, moved, monitor, uevents, overrun, walk, udev_devices, device_units>>
    BY <1>1 DEF devicesVars
  <2>2. Taken' = Taken /\ Unvisited' = Unvisited
    BY <2>1 DEF Taken, Unvisited
  <2>3. ASSUME NEW d \in Devs, Followed(d) PROVE Followed(d)'
    BY <2>1, <2>2, <2>3 DEF Followed
  <2>4. Matching(Tables)'
    BY <2>1 DEF DeviceInv, Tables, Matching, UnitTables
  <2> QED BY <2>1, <2>3, <2>4 DEF DeviceInv
<1>2. CASE DevicesNext
  <2>1. ASSUME NEW d \in Devs, NEW c \in Devs,
               PlugIn(d) \/ Unplug(d) \/ Report(d) \/ Rename(d, c)
        PROVE  DeviceInv'
    BY <2>1, KernelStep
  <2>2. ASSUME NEW d \in Devs, Visit(d) PROVE DeviceInv'
    BY <2>2, VisitStep
  <2>3. CASE Subscribe \/ StartWalk \/ udev_init \/ udev_process
    BY <2>3, SubscribeStep, StartWalkStep, UdevStep
  <2>4. CASE ReloadDevices \/ \E n \in DeviceNames : StopDevice(n) \/ StartDevice(n)
    BY <2>4, UnitsStep
  <2> QED BY <1>2, <2>1, <2>2, <2>3, <2>4 DEF DevicesNext
<1> QED BY <1>1, <1>2

\* However arrivals, removals and renames fall between the subscription, the
\* walk and the drains, and whatever reloads do to the unit table, the manager
\* that has drained its queue knows the devices there are, and its units are
\* theirs (udev_init, udev_process, load_all).
THEOREM DevicesFollowedCorrect == Spec => []DevicesFollowed
<1>1. Init => DeviceInv
  BY DevicesInitInv DEF Init
<1>2. DeviceInv /\ [Next]_sourceVars => DeviceInv'
  BY DevicesStep, NextOfSource
<1>3. DeviceInv => DevicesFollowed
  <2> SUFFICES ASSUME DeviceInv PROVE DevicesFollowed
    OBVIOUS
  <2>1. udev_devices \in SUBSET Devs
    BY DEF DeviceInv, Matching, UnitTables, Tables
  <2>2. DeviceUnitsMatch
    <3>1. \A n \in DeviceNames : device_units[n] # "absent" <=> \E d \in udev_devices : n \in unit_names(d)
      BY DEF DeviceInv, Matching, Tables
    <3>2. UNION {unit_names(d) : d \in udev_devices} \subseteq DeviceNames
      BY <2>1 DEF DeviceNames
    <3> QED BY <3>1, <3>2 DEF DeviceUnitsMatch
  <2>3. DevicesTracked
    <3> SUFFICES ASSUME walk.phase = "done", monitor = "open", uevents = <<>>, ~overrun
                 PROVE  present \subseteq udev_devices /\ udev_devices \subseteq present \cup moved
      BY DEF DevicesTracked
    <3>1. Taken = udev_devices /\ Unvisited = {} /\ present \in SUBSET Devs
      BY DEF Taken, Unvisited, DeviceInv
    <3>2. ASSUME NEW d \in Devs
          PROVE  (d \in present => d \in udev_devices) /\ (d \in udev_devices => d \in present \cup moved)
      <4>1. Followed(d)
        BY DEF DeviceInv
      <4>2. KnownAfter(udev_devices, uevents, Len(uevents), d) <=> d \in udev_devices
        BY NothingQueued
      <4> QED BY <3>1, <4>1, <4>2 DEF Followed
    <3> QED BY <2>1, <3>1, <3>2
  <2> QED BY <2>2, <2>3 DEF DevicesFollowed
<1>4. QED
  BY <1>1, <1>2, <1>3, PTL DEF Spec

-----------------------------------------------------------------------------
(* The journal and the ring of lines.                                      *)

USE JournalAssumption

\* A record, and the files of a unit.
Rec   == [secs : Nat, text : SUBSET Nat]
Files == [0 .. MaxSegments -> Seq(Rec)]
Piece == [n : Nat, eol : BOOLEAN]

\* r was written before s.
Before(r, s) == r.secs <= s.secs /\ Newer(r, s)
InOrder(q)   == \A i, j \in DOMAIN q : i < j => Before(q[i], q[j])

\* r is what has been read after recs when the first k records of file were looked at.
ReadUpTo(r, recs, file, k, since) ==
  /\ r \in Seq(Rec)
  /\ \A x \in Range(r) : x \in Range(recs) \/ \E i \in 1 .. k : x = file[i] /\ x.secs >= since
  /\ \A x \in Range(recs) : x \in Range(r)
  /\ \A i \in 1 .. k : file[i].secs >= since => file[i] \in Range(r)
  /\ since = 0 => Len(r) = Len(recs) + k
  /\ (InOrder(recs \o file)) => InOrder(r)

LEMMA Appended ==
  ASSUME NEW S, NEW q \in Seq(S), NEW x \in S
  PROVE  /\ Append(q, x) \in Seq(S) /\ Len(Append(q, x)) = Len(q) + 1
         /\ Range(Append(q, x)) = Range(q) \cup {x}
         /\ DOMAIN Append(q, x) = 1 .. Len(q) + 1
         /\ \A i \in 1 .. Len(q) : Append(q, x)[i] = q[i]
         /\ Append(q, x)[Len(q) + 1] = x
<1>1. /\ Append(q, x) \in Seq(S) /\ Len(Append(q, x)) = Len(q) + 1
      /\ DOMAIN Append(q, x) = 1 .. Len(q) + 1
      /\ \A i \in 1 .. Len(q) : Append(q, x)[i] = q[i]
      /\ Append(q, x)[Len(q) + 1] = x
  OBVIOUS
<1>2. Range(Append(q, x)) = Range(q) \cup {x}
  <2> DEFINE r == Append(q, x)
             n == Len(q)
  <2>1. n \in Nat /\ DOMAIN q = 1 .. n
    OBVIOUS
  <2>2. DOMAIN r = 1 .. n + 1 /\ (\A i \in 1 .. n : r[i] = q[i]) /\ r[n + 1] = x
    BY <1>1
  <2> HIDE DEF r, n
  <2> QED BY <2>1, <2>2 DEF Range
<1> QED BY <1>1, <1>2

\* One record more of the file.
LEMMA ReadOneMore ==
  ASSUME NEW recs \in Seq(Rec), NEW file \in Seq(Rec), NEW since \in Nat,
         NEW k \in 1 .. Len(file), NEW r, ReadUpTo(r, recs, file, k - 1, since)
  PROVE  ReadUpTo(IF file[k].secs >= since THEN Append(r, file[k]) ELSE r, recs, file, k, since)
<1> DEFINE x == file[k]
           t == IF x.secs >= since THEN Append(r, x) ELSE r
<1>1. x \in Rec /\ x.secs \in Nat /\ k \in Nat /\ k - 1 \in Nat
  <2>1. x \in Rec /\ k \in Nat /\ k - 1 \in Nat
    OBVIOUS
  <2> HIDE DEF x
  <2> QED BY <2>1 DEF Rec
<1>2. \A i \in 1 .. k : i \in 1 .. k - 1 \/ i = k
  BY <1>1
<1>3. r \in Seq(Rec)
  BY DEF ReadUpTo
<1>4. CASE x.secs < since
  <2>1. t = r /\ since # 0
    BY <1>1, <1>4
  <2> QED BY <1>1, <1>2, <1>4, <2>1 DEF ReadUpTo
<1>5. CASE x.secs >= since
  <2>1. t = Append(r, x)
    BY <1>5
  <2>2. t \in Seq(Rec) /\ Range(t) = Range(r) \cup {x} /\ Len(t) = Len(r) + 1
    BY <1>1, <1>3, <2>1, Appended
  <2>3. ASSUME InOrder(recs \o file)
        PROVE  InOrder(t)
    <3>1. InOrder(r)
      BY <2>3 DEF ReadUpTo
    <3>2. \A y \in Range(r) : Before(y, x)
      <4> SUFFICES ASSUME NEW y \in Range(r)
                   PROVE  Before(y, x)
        OBVIOUS
      <4>1. (recs \o file)[Len(recs) + k] = x /\ Len(recs) + k \in DOMAIN (recs \o file)
        OBVIOUS
      <4>2. CASE y \in Range(recs)
        <5>1. PICK i \in 1 .. Len(recs) : y = recs[i]
          BY <4>2, SMTT(30) DEF Range
        <5>2. (recs \o file)[i] = y /\ i \in DOMAIN (recs \o file) /\ i < Len(recs) + k
          BY <5>1
        <5> QED BY <2>3, <4>1, <5>2 DEF InOrder
      <4>3. CASE \E i \in 1 .. k - 1 : y = file[i]
        <5>1. PICK i \in 1 .. k - 1 : y = file[i]
          BY <4>3
        <5>2. i \in 1 .. Len(file) /\ i < k
          OBVIOUS
        <5>3. /\ (recs \o file)[Len(recs) + i] = y /\ Len(recs) + i \in DOMAIN (recs \o file)
              /\ Len(recs) + i < Len(recs) + k
          BY <5>1, <5>2
        <5> QED BY <2>3, <4>1, <5>3 DEF InOrder
      <4> QED BY <4>2, <4>3 DEF ReadUpTo
    <3>3. DOMAIN r = 1 .. Len(r) /\ Len(r) \in Nat
      BY <1>3
    <3>4. \A i \in DOMAIN r : r[i] \in Range(r)
      BY DEF Range
    <3>5. /\ DOMAIN t = 1 .. Len(r) + 1 /\ t[Len(r) + 1] = x
          /\ \A i \in 1 .. Len(r) : t[i] = r[i]
      BY <1>1, <1>3, <2>1, Appended
    <3> HIDE DEF t, x
    <3>6. ASSUME NEW i \in DOMAIN t, NEW j \in DOMAIN t, i < j
          PROVE  Before(t[i], t[j])
      <4>1. i \in 1 .. Len(r)
        BY <3>3, <3>5, <3>6
      <4>2. CASE j \in 1 .. Len(r)
        BY <3>1, <3>3, <3>5, <3>6, <4>1, <4>2 DEF InOrder
      <4>3. CASE j = Len(r) + 1
        BY <3>2, <3>3, <3>4, <3>5, <4>1, <4>3
      <4> QED BY <3>3, <3>5, <4>2, <4>3
    <3> QED BY <3>6 DEF InOrder
  <2> HIDE DEF t
  <2>4. \A y \in Range(t) : y \in Range(recs) \/ \E i \in 1 .. k : y = file[i] /\ y.secs >= since
    BY <1>1, <1>5, <2>2 DEF ReadUpTo
  <2>5. \A y \in Range(recs) : y \in Range(t)
    BY <2>2 DEF ReadUpTo
  <2>6. \A i \in 1 .. k : file[i].secs >= since => file[i] \in Range(t)
    BY <1>2, <2>2 DEF ReadUpTo
  <2>7. since = 0 => Len(t) = Len(recs) + k
    <3>1. since = 0 => Len(r) = Len(recs) + (k - 1)
      BY DEF ReadUpTo
    <3> QED BY <1>1, <2>2, <3>1, SMTT(30)
  <2> QED BY <2>2, <2>3, <2>4, <2>5, <2>6, <2>7 DEF ReadUpTo, t
<1> QED BY <1>1, <1>4, <1>5

\* What one file adds.
LEMMA ReadFile ==
  ASSUME NEW recs \in Seq(Rec), NEW file \in Seq(Rec), NEW since \in Nat
  PROVE  ReadUpTo(read_file(recs, file, since), recs, file, Len(file), since)
<1> DEFINE n == Len(file)
           A == Seq(Rec)
           F(g) == [s \in SUBSET DOMAIN file |->
                      IF s = {} THEN recs
                      ELSE IF file[Max(s)].secs >= since THEN Append(g[s \ {Max(s)}], file[Max(s)])
                           ELSE g[s \ {Max(s)}]]
           iter == CHOOSE g : g = F(g)
           step == [x \in A \X (1 .. n) |->
                      IF file[x[2]].secs >= since THEN Append(x[1], file[x[2]]) ELSE x[1]]
<1>1. read_file(recs, file, since) = iter[DOMAIN file]
  BY DEF read_file, FoldLeft, MapThenFoldSet
<1>2. n \in Nat /\ DOMAIN file = 1 .. n
  OBVIOUS
<1>3. \A i \in 1 .. n : file[i] \in Rec
  OBVIOUS
<1> HIDE DEF n
<1>5. step \in [A \X (1 .. n) -> A]
  BY <1>3
<1>6. \A a \in A, i \in 1 .. n :
        step[<<a, i>>] = IF file[i].secs >= since THEN Append(a, file[i]) ELSE a
  OBVIOUS
<1>a. recs \in A
  OBVIOUS
<1> HIDE DEF A, step
<1>7. PICK h \in [SUBSET (1 .. n) -> A] : \A s \in SUBSET (1 .. n) :
        h[s] = IF s = {} THEN recs ELSE step[<<h[s \ {Max(s)}], Max(s)>>]
  <2>1. \E h \in [SUBSET (1 .. n) -> A] : Folds(h, n, recs, step)
    BY <1>2, <1>5, <1>a, FoldExists
  <2> QED BY <2>1 DEF Folds
<1>8. \A s \in SUBSET (1 .. n) :
        h[s] = IF s = {} THEN recs
               ELSE IF file[Max(s)].secs >= since THEN Append(h[s \ {Max(s)}], file[Max(s)])
                    ELSE h[s \ {Max(s)}]
  <2> SUFFICES ASSUME NEW s \in SUBSET (1 .. n), s # {}
               PROVE  h[s] = IF file[Max(s)].secs >= since THEN Append(h[s \ {Max(s)}], file[Max(s)])
                             ELSE h[s \ {Max(s)}]
    BY <1>7
  <2>1. Max(s) \in 1 .. n /\ s \ {Max(s)} \in SUBSET (1 .. n)
    <3>1. Max(s) \in s
      BY <1>2, MaxUpTo
    <3> QED BY <3>1
  <2>2. h[s \ {Max(s)}] \in A
    BY <2>1
  <2> QED BY <1>6, <1>7, <2>1, <2>2
<1>9. h = F(h)
  BY <1>2, <1>8
<1>10. iter = F(iter)
  <2> HIDE DEF F
  <2> QED BY <1>9
<1> HIDE DEF iter
<1>11. \A s \in SUBSET (1 .. n) :
         iter[s] = IF s = {} THEN recs
                   ELSE IF file[Max(s)].secs >= since THEN Append(iter[s \ {Max(s)}], file[Max(s)])
                        ELSE iter[s \ {Max(s)}]
  BY <1>2, <1>10
<1> HIDE DEF F
<1> DEFINE Ok(k) == {r \in Seq(Rec) : ReadUpTo(r, recs, file, k, since)}
           G == [k \in 0 .. n |-> Ok(k)]
<1>12. iter[{}] \in G[0]
  <2>1. iter[{}] = recs /\ 0 \in 0 .. n
    <3>1. {} \in SUBSET (1 .. n) /\ 0 \in 0 .. n
      BY <1>2
    <3> QED BY <1>11, <3>1
  <2>2. InOrder(recs \o file) => InOrder(recs)
    <3>1. \A i \in DOMAIN recs : i \in DOMAIN (recs \o file) /\ (recs \o file)[i] = recs[i]
      OBVIOUS
    <3> QED BY <3>1 DEF InOrder
  <2>3. ReadUpTo(recs, recs, file, 0, since)
    BY <2>2 DEF ReadUpTo
  <2> QED BY <2>1, <2>3
<1>13. ASSUME NEW k \in 1 .. n, iter[1 .. k - 1] \in G[k - 1]
       PROVE  iter[1 .. k] \in G[k]
  <2>1. /\ k \in Nat /\ k # 0 /\ (1 .. k) \in SUBSET (1 .. n) /\ k \in 1 .. k
        /\ k - 1 \in 0 .. n /\ k \in 0 .. n
    BY <1>2
  <2>2. Max(1 .. k) = k /\ (1 .. k) \ {k} = 1 .. k - 1
    BY <2>1, LastUpTo
  <2> DEFINE r == iter[1 .. k - 1]
             t == IF file[k].secs >= since THEN Append(r, file[k]) ELSE r
  <2>3. iter[1 .. k] = t
    BY <1>11, <2>1, <2>2
  <2>4. r \in Ok(k - 1)
    BY <1>13, <2>1
  <2>5. ReadUpTo(r, recs, file, k - 1, since)
    BY <2>4
  <2> HIDE DEF r, G
  <2>6. ReadUpTo(t, recs, file, k, since)
    BY <2>5, ReadOneMore DEF n
  <2> HIDE DEF t
  <2>7. t \in Ok(k)
    BY <2>6 DEF ReadUpTo
  <2> QED BY <2>1, <2>3, <2>7 DEF G
<1> HIDE DEF G
<1>14. iter[1 .. n] \in G[n]
  BY <1>2, <1>12, <1>13, FoldKeeps
<1>15. iter[1 .. n] \in Ok(n)
  BY <1>2, <1>14 DEF G
<1> QED BY <1>1, <1>2, <1>15 DEF n

\* Only .1 and the active file ever have records: rotate moves .i+1 to .i.
TwoFiles(s) == s \in Files /\ \A i \in 2 .. MaxSegments : s[i] = <<>>

\* So what is read is the one after the other.
LEMMA ReadTwo ==
  ASSUME NEW s, TwoFiles(s), NEW since \in Nat
  PROVE  \E m \in Seq(Rec) : /\ ReadUpTo(m, <<>>, s[1], Len(s[1]), since)
                             /\ ReadUpTo(read(s, since), m, s[0], Len(s[0]), since)
<1> DEFINE n == MaxSegments + 1
           A == Seq(Rec)
           file(k) == s[segment_paths[k]]
           F(g) == [v \in SUBSET DOMAIN segment_paths |->
                      IF v = {} THEN <<>> ELSE read_file(g[v \ {Max(v)}], file(Max(v)), since)]
           iter == CHOOSE g : g = F(g)
           step == [x \in A \X (1 .. n) |-> read_file(x[1], file(x[2]), since)]
<1>1. read(s, since) = iter[DOMAIN segment_paths]
  BY DEF read, FoldLeft, MapThenFoldSet
<1>2. /\ n \in Nat /\ MaxSegments \in Nat /\ MaxSegments > 0 /\ DOMAIN segment_paths = 1 .. n
      /\ \A k \in 1 .. n : segment_paths[k] = n - k
  BY DEF segment_paths
<1>3. \A k \in 1 .. n : file(k) = s[n - k] /\ file(k) \in A
  <2> SUFFICES ASSUME NEW k \in 1 .. n
               PROVE  file(k) = s[n - k] /\ file(k) \in A
    OBVIOUS
  <2>1. n - k \in 0 .. MaxSegments
    BY <1>2
  <2>2. s \in [0 .. MaxSegments -> A]
    BY DEF TwoFiles, Files
  <2> HIDE DEF A
  <2> QED BY <1>2, <2>1, <2>2
<1> HIDE DEF n, file
<1>4. \A a \in A, k \in 1 .. n : read_file(a, file(k), since) \in A
  BY <1>3, ReadFile DEF ReadUpTo
<1>5. step \in [A \X (1 .. n) -> A]
  BY <1>4
<1>6. \A a \in A, k \in 1 .. n : step[<<a, k>>] = read_file(a, file(k), since)
  OBVIOUS
<1>a. <<>> \in A
  OBVIOUS
<1> HIDE DEF A, step
<1>7. PICK h \in [SUBSET (1 .. n) -> A] : \A v \in SUBSET (1 .. n) :
        h[v] = IF v = {} THEN <<>> ELSE step[<<h[v \ {Max(v)}], Max(v)>>]
  <2>1. \E h \in [SUBSET (1 .. n) -> A] : Folds(h, n, <<>>, step)
    BY <1>2, <1>5, <1>a, FoldExists
  <2> QED BY <2>1 DEF Folds
<1>8. \A v \in SUBSET (1 .. n) :
        h[v] = IF v = {} THEN <<>> ELSE read_file(h[v \ {Max(v)}], file(Max(v)), since)
  <2> SUFFICES ASSUME NEW v \in SUBSET (1 .. n), v # {}
               PROVE  h[v] = read_file(h[v \ {Max(v)}], file(Max(v)), since)
    BY <1>7
  <2>1. Max(v) \in 1 .. n /\ v \ {Max(v)} \in SUBSET (1 .. n)
    <3>1. Max(v) \in v
      BY <1>2, MaxUpTo
    <3> QED BY <3>1
  <2>2. h[v \ {Max(v)}] \in A
    BY <2>1
  <2> QED BY <1>6, <1>7, <2>1, <2>2
<1>9. h = F(h)
  BY <1>2, <1>8
<1>10. iter = F(iter)
  <2> HIDE DEF F
  <2> QED BY <1>9
<1> HIDE DEF iter
<1>11. \A v \in SUBSET (1 .. n) :
         iter[v] = IF v = {} THEN <<>> ELSE read_file(iter[v \ {Max(v)}], file(Max(v)), since)
  BY <1>2, <1>10
<1> HIDE DEF F
<1> DEFINE First(r) == ReadUpTo(r, <<>>, s[1], Len(s[1]), since)
           Second(r) == \E m \in A : First(m) /\ ReadUpTo(r, m, s[0], Len(s[0]), since)
           Ok(k) == {r \in A : /\ k + 1 < n => r = <<>>
                               /\ k + 1 = n => First(r)
                               /\ k = n => Second(r)}
           G == [k \in 0 .. n |-> Ok(k)]
<1>b. \A a \in A : ReadUpTo(read_file(a, <<>>, since), a, <<>>, 0, since)
  <2>1. <<>> \in Seq(Rec) /\ Len(<<>>) = 0
    OBVIOUS
  <2> QED BY <2>1, ReadFile DEF A
<1>c. read_file(<<>>, <<>>, since) = <<>>
  <2> DEFINE r == read_file(<<>>, <<>>, since)
  <2>1. ReadUpTo(r, <<>>, <<>>, 0, since)
    BY <1>a, <1>b
  <2> HIDE DEF r
  <2>2. r \in Seq(Rec) /\ \A x \in Range(r) : x \in Range(<<>>)
    BY <2>1 DEF ReadUpTo
  <2>3. \A i \in DOMAIN r : FALSE
    BY <2>2 DEF Range
  <2>4. r = <<>>
    <3>1. Len(r) \in Nat /\ DOMAIN r = 1 .. Len(r)
      BY <2>2
    <3>2. Len(r) = 0
      BY <2>3, <3>1
    <3> QED BY <2>2, <3>2
  <2> QED BY <2>4 DEF r
<1> HIDE DEF First
<1>12. iter[{}] \in G[0]
  <2>1. iter[{}] = <<>> /\ 0 \in 0 .. n
    <3>1. {} \in SUBSET (1 .. n) /\ 0 \in 0 .. n
      BY <1>2
    <3> QED BY <1>11, <3>1
  <2>2. 0 + 1 < n
    BY <1>2 DEF n
  <2>3. <<>> \in Ok(0)
    BY <1>a, <2>2
  <2> QED BY <2>1, <2>3
<1>13. ASSUME NEW k \in 1 .. n, iter[1 .. k - 1] \in G[k - 1]
       PROVE  iter[1 .. k] \in G[k]
  <2>1. /\ k \in Nat /\ k # 0 /\ (1 .. k) \in SUBSET (1 .. n) /\ k \in 1 .. k
        /\ k - 1 \in 0 .. n /\ k \in 0 .. n
    BY <1>2
  <2>2. Max(1 .. k) = k /\ (1 .. k) \ {k} = 1 .. k - 1
    BY <2>1, LastUpTo
  <2> DEFINE r == iter[1 .. k - 1]
             t == read_file(r, file(k), since)
  <2>3. iter[1 .. k] = t
    BY <1>11, <2>1, <2>2
  <2>4. r \in Ok(k - 1)
    BY <1>13, <2>1
  <2> HIDE DEF r, G
  <2>5. r \in A /\ t \in A
    BY <1>4, <2>4
  <2>6. CASE k + 1 < n
    <3>1. r = <<>>
      BY <2>1, <2>4, <2>6, <1>2
    <3>2. n - k \in 2 .. MaxSegments
      BY <2>1, <2>6, <1>2 DEF n
    <3>3. file(k) = <<>>
      BY <1>3, <3>2 DEF TwoFiles
    <3>4. t = <<>>
      BY <1>c, <3>1, <3>3
    <3>5. t \in Ok(k)
      BY <2>1, <2>5, <2>6, <3>4, <1>2
    <3> QED BY <2>1, <2>3, <3>5 DEF G
  <2>7. CASE k + 1 = n
    <3>1. r = <<>>
      BY <2>1, <2>4, <2>7, <1>2
    <3>2. n - k = 1
      BY <2>1, <2>7, <1>2
    <3>3. file(k) = s[1]
      BY <1>3, <3>2
    <3>4. First(t)
      BY <1>3, <2>5, <3>1, <3>3, ReadFile DEF First, A
    <3> HIDE DEF t
    <3>5. t \in Ok(k)
      BY <2>1, <2>5, <2>7, <3>4, <1>2
    <3> QED BY <2>1, <2>3, <3>5 DEF G
  <2>8. CASE k = n
    <3>1. First(r)
      BY <2>1, <2>4, <2>8, <1>2
    <3>2. file(k) = s[0]
      BY <1>2, <1>3, <2>8
    <3>3. ReadUpTo(t, r, s[0], Len(s[0]), since)
      BY <1>3, <2>5, <3>2, ReadFile DEF A
    <3> HIDE DEF t
    <3>4. Second(t)
      BY <2>5, <3>1, <3>3
    <3>5. t \in Ok(k)
      BY <2>1, <2>5, <2>8, <3>4, <1>2
    <3> QED BY <2>1, <2>3, <3>5 DEF G
  <2> QED BY <2>1, <2>6, <2>7, <2>8, <1>2
<1> HIDE DEF G
<1>14. iter[1 .. n] \in G[n]
  BY <1>2, <1>12, <1>13, FoldKeeps
<1>15. iter[1 .. n] \in Ok(n)
  BY <1>2, <1>14 DEF G
<1>16. Second(read(s, since))
  BY <1>1, <1>2, <1>15
<1> QED BY <1>16 DEF First, A

\* The records of the files, and that they are in order.
Records(s)      == Range(s[0]) \cup Range(s[1])
FilesInOrder(s) ==
  /\ InOrder(s[0]) /\ InOrder(s[1])
  /\ \A x \in Range(s[1]), y \in Range(s[0]) : Before(x, y)

\* So a reader gets the records since the second that it asks for, in order.
LEMMA ReadIs ==
  ASSUME NEW s, TwoFiles(s), FilesInOrder(s), NEW since \in Nat
  PROVE  /\ read(s, since) \in Seq(Rec)
         /\ Range(read(s, since)) = {x \in Records(s) : x.secs >= since}
         /\ InOrder(read(s, since))
         /\ since = 0 => Len(read(s, since)) = Len(s[1]) + Len(s[0])
<1> DEFINE r == read(s, since)
<1>1. PICK m \in Seq(Rec) : /\ ReadUpTo(m, <<>>, s[1], Len(s[1]), since)
                            /\ ReadUpTo(r, m, s[0], Len(s[0]), since)
  BY ReadTwo
<1> HIDE DEF r
<1>2. s[0] \in Seq(Rec) /\ s[1] \in Seq(Rec)
  <2>1. MaxSegments \in Nat \ {0}
    BY JournalAssumption
  <2>2. 0 \in 0 .. MaxSegments /\ 1 \in 0 .. MaxSegments
    BY <2>1
  <2> QED BY <2>2 DEF TwoFiles, Files
<1>3. Range(<<>>) = {} /\ Len(<<>>) = 0 /\ <<>> \o s[1] = s[1]
  BY <1>2 DEF Range
<1>4. \A x \in Range(m) : x \in Range(s[1]) /\ x.secs >= since
  <2>1. \A x \in Range(m) : \E i \in 1 .. Len(s[1]) : x = s[1][i] /\ x.secs >= since
    BY <1>1, <1>3 DEF ReadUpTo
  <2> QED BY <1>2, <2>1 DEF Range
<1>5. \A x \in Range(s[1]) : x.secs >= since => x \in Range(m)
  <2>1. \A i \in 1 .. Len(s[1]) : s[1][i].secs >= since => s[1][i] \in Range(m)
    BY <1>1 DEF ReadUpTo
  <2>2. \A x \in Range(s[1]) : \E i \in 1 .. Len(s[1]) : x = s[1][i]
    BY <1>2 DEF Range
  <2> QED BY <2>1, <2>2
<1>6. \A x \in Range(r) : x \in Range(m) \/ (x \in Range(s[0]) /\ x.secs >= since)
  <2>1. \A x \in Range(r) : x \in Range(m) \/ \E i \in 1 .. Len(s[0]) : x = s[0][i] /\ x.secs >= since
    BY <1>1 DEF ReadUpTo
  <2> QED BY <1>2, <2>1, SMTT(30) DEF Range
<1>7. \A x \in Range(s[0]) : x.secs >= since => x \in Range(r)
  <2>1. \A i \in 1 .. Len(s[0]) : s[0][i].secs >= since => s[0][i] \in Range(r)
    BY <1>1 DEF ReadUpTo
  <2>2. \A x \in Range(s[0]) : \E i \in 1 .. Len(s[0]) : x = s[0][i]
    BY <1>2 DEF Range
  <2> QED BY <2>1, <2>2
<1>8. Range(r) = {x \in Records(s) : x.secs >= since}
  <2>1. \A x \in Range(m) : x \in Range(r)
    BY <1>1 DEF ReadUpTo
  <2> QED BY <1>4, <1>5, <1>6, <1>7, <2>1 DEF Records
<1>9. InOrder(r)
  <2>1. InOrder(m)
    BY <1>1, <1>3 DEF ReadUpTo, FilesInOrder
  <2>2. ASSUME NEW i \in DOMAIN (m \o s[0]), NEW j \in DOMAIN (m \o s[0]), i < j
        PROVE  Before((m \o s[0])[i], (m \o s[0])[j])
    <3> DEFINE q == m \o s[0]
               k == Len(m)
    <3>1. /\ k \in Nat /\ DOMAIN m = 1 .. k /\ DOMAIN s[0] = 1 .. Len(s[0]) /\ Len(s[0]) \in Nat
          /\ DOMAIN q = 1 .. k + Len(s[0])
          /\ \A x \in DOMAIN q : q[x] = IF x <= k THEN m[x] ELSE s[0][x - k]
      BY <1>2
    <3> HIDE DEF q, k
    <3>5. i \in DOMAIN q /\ j \in DOMAIN q /\ i \in Nat /\ j \in Nat
      BY <3>1 DEF q
    <3>2. CASE j <= k
      <4>1. i \in DOMAIN m /\ j \in DOMAIN m /\ q[i] = m[i] /\ q[j] = m[j]
        BY <2>2, <3>1, <3>2, <3>5
      <4> QED BY <2>1, <2>2, <4>1 DEF InOrder, q
    <3>3. CASE i > k
      <4>a. i - k \in DOMAIN s[0] /\ j - k \in DOMAIN s[0] /\ i - k < j - k
        <5>1. i \in 1 .. k + Len(s[0]) /\ j \in 1 .. k + Len(s[0])
          BY <3>1, <3>5
        <5>2. i - k \in 1 .. Len(s[0]) /\ j - k \in 1 .. Len(s[0])
          BY <2>2, <3>1, <3>3, <5>1, SMTT(30)
        <5> QED BY <2>2, <3>1, <3>5, <5>2
      <4>b. q[i] = s[0][i - k] /\ q[j] = s[0][j - k]
        <5>1. ~(i <= k) /\ ~(j <= k)
          BY <2>2, <3>1, <3>3, <3>5
        <5> QED BY <3>1, <3>5, <5>1
      <4>1. /\ i - k \in DOMAIN s[0] /\ j - k \in DOMAIN s[0] /\ i - k < j - k
            /\ q[i] = s[0][i - k] /\ q[j] = s[0][j - k]
        BY <4>a, <4>b
      <4> QED BY <4>1 DEF InOrder, q, FilesInOrder
    <3>4. CASE i <= k /\ j > k
      <4>1. /\ i \in DOMAIN m /\ j - k \in DOMAIN s[0]
            /\ q[i] = m[i] /\ q[j] = s[0][j - k]
        BY <2>2, <3>1, <3>4, <3>5, SMTT(30)
      <4>2. m[i] \in Range(m) /\ s[0][j - k] \in Range(s[0])
        BY <4>1 DEF Range
      <4> QED BY <1>4, <4>1, <4>2 DEF q, FilesInOrder
    <3> QED BY <3>1, <3>2, <3>3, <3>4, <3>5, SMTT(30)
  <2>3. InOrder(m \o s[0])
    BY <2>2 DEF InOrder
  <2> QED BY <1>1, <2>3 DEF ReadUpTo
<1>10. since = 0 => Len(r) = Len(s[1]) + Len(s[0])
  <2>1. since = 0 => Len(m) = 0 + Len(s[1]) /\ Len(r) = Len(m) + Len(s[0])
    BY <1>1, <1>3 DEF ReadUpTo
  <2>2. Len(s[1]) \in Nat /\ Len(s[0]) \in Nat
    BY <1>2
  <2>3. ASSUME since = 0
        PROVE  Len(r) = Len(s[1]) + Len(s[0])
    <3>1. Len(m) = 0 + Len(s[1]) /\ Len(r) = Len(m) + Len(s[0])
      BY <2>1, <2>3
    <3>2. Len(m) = Len(s[1])
      BY <2>2, <3>1
    <3> QED BY <3>1, <3>2
  <2> QED BY <2>3
<1> QED BY <1>1, <1>8, <1>9, <1>10 DEF r, ReadUpTo

\* Of two records of the files one was written first.
LEMMA OneWasFirst ==
  ASSUME NEW s, TwoFiles(s), FilesInOrder(s), NEW x \in Records(s), NEW y \in Records(s)
  PROVE  x = y \/ Before(x, y) \/ Before(y, x)
<1>1. s[0] \in Seq(Rec) /\ s[1] \in Seq(Rec)
  <2>1. MaxSegments \in Nat \ {0}
    BY JournalAssumption
  <2>2. 0 \in 0 .. MaxSegments /\ 1 \in 0 .. MaxSegments
    BY <2>1
  <2> QED BY <2>2 DEF TwoFiles, Files
<1>2. \A q \in Seq(Rec) : InOrder(q) => \A u, v \in Range(q) : u = v \/ Before(u, v) \/ Before(v, u)
  <2> SUFFICES ASSUME NEW q \in Seq(Rec), InOrder(q), NEW u \in Range(q), NEW v \in Range(q)
               PROVE  u = v \/ Before(u, v) \/ Before(v, u)
    OBVIOUS
  <2>1. PICK i \in DOMAIN q, j \in DOMAIN q : u = q[i] /\ v = q[j]
    BY DEF Range
  <2>2. i \in Nat /\ j \in Nat
    OBVIOUS
  <2> QED BY <2>1, <2>2 DEF InOrder
<1> QED BY <1>1, <1>2 DEF Records, FilesInOrder

-----------------------------------------------------------------------------
(* Appending to the files.                                                 *)

\* Nothing is above .1, so a rotation replaces it by the active file.
LEMMA RotateReplaces ==
  ASSUME NEW s, TwoFiles(s)
  PROVE  rotate(s) = [s EXCEPT ![1] = s[0], ![0] = <<>>]
<1> DEFINE n == MaxSegments - 1
           removed == [s EXCEPT ![MaxSegments] = NoFile]
           place == [k \in 1 .. n |-> MaxSegments - k]
           shift(t, i) == IF t[i + 1] = NoFile THEN t
                          ELSE [t EXCEPT ![i] = t[i + 1], ![i + 1] = NoFile]
           F(g) == [v \in SUBSET DOMAIN place |->
                      IF v = {} THEN removed ELSE shift(g[v \ {Max(v)}], place[Max(v)])]
           iter == CHOOSE g : g = F(g)
<1>1. rotate(s) = [iter[DOMAIN place] EXCEPT ![1] = s[0], ![0] = NoFile]
  BY DEF rotate, FoldLeft, MapThenFoldSet
<1>2. n \in Nat /\ DOMAIN place = 1 .. n /\ \A k \in 1 .. n : place[k] + 1 \in 2 .. MaxSegments
  OBVIOUS
<1>3. s \in [0 .. MaxSegments -> Seq(Rec)]
  BY DEF TwoFiles, Files
<1>4. \A i \in 2 .. MaxSegments : removed[i] = NoFile
  BY <1>3 DEF TwoFiles, NoFile
<1>5. \A k \in 1 .. n : shift(removed, place[k]) = removed
  BY <1>2, <1>4
<1> HIDE DEF n, removed, shift, place
<1>6. \A v \in SUBSET (1 .. n) : v # {} => Max(v) \in 1 .. n /\ v \ {Max(v)} \in SUBSET (1 .. n)
  <2> SUFFICES ASSUME NEW v \in SUBSET (1 .. n), v # {}
               PROVE  Max(v) \in 1 .. n /\ v \ {Max(v)} \in SUBSET (1 .. n)
    OBVIOUS
  <2>1. Max(v) \in v
    BY <1>2, MaxUpTo
  <2> QED BY <2>1
<1>7. iter = F(iter)
  <2> DEFINE h == [v \in SUBSET (1 .. n) |-> removed]
  <2>1. h = F(h)
    BY <1>2, <1>5, <1>6
  <2> HIDE DEF F
  <2> QED BY <2>1
<1> HIDE DEF iter
<1>8. \A v \in SUBSET (1 .. n) :
        iter[v] = IF v = {} THEN removed ELSE shift(iter[v \ {Max(v)}], place[Max(v)])
  BY <1>2, <1>7
<1> HIDE DEF F
<1> DEFINE G == [k \in 0 .. n |-> {removed}]
<1>9. iter[{}] \in G[0]
  <2>1. {} \in SUBSET (1 .. n) /\ 0 \in 0 .. n
    BY <1>2
  <2> QED BY <1>8, <2>1
<1>10. ASSUME NEW k \in 1 .. n, iter[1 .. k - 1] \in G[k - 1]
       PROVE  iter[1 .. k] \in G[k]
  <2>1. /\ k \in Nat /\ k # 0 /\ (1 .. k) \in SUBSET (1 .. n) /\ k \in 1 .. k
        /\ k - 1 \in 0 .. n /\ k \in 0 .. n
    BY <1>2
  <2>2. Max(1 .. k) = k /\ (1 .. k) \ {k} = 1 .. k - 1
    BY <2>1, LastUpTo
  <2>3. iter[1 .. k] = shift(iter[1 .. k - 1], place[k])
    BY <1>8, <2>1, <2>2
  <2>4. iter[1 .. k - 1] = removed
    BY <1>10, <2>1
  <2> QED BY <1>5, <2>1, <2>3, <2>4
<1> HIDE DEF G
<1>11. iter[1 .. n] \in G[n]
  BY <1>2, <1>9, <1>10, FoldKeeps
<1>12. iter[DOMAIN place] = removed
  BY <1>2, <1>11 DEF G
<1>13. [removed EXCEPT ![1] = s[0], ![0] = <<>>] = [s EXCEPT ![1] = s[0], ![0] = <<>>]
  <2>1. MaxSegments = 1 \/ s[MaxSegments] = <<>>
    BY DEF TwoFiles
  <2> QED BY <1>3, <2>1 DEF removed, NoFile
<1> QED BY <1>1, <1>12, <1>13 DEF NoFile

Pieces(s) == UNION {x.text : x \in Records(s)}
Latest(s) == UNION {x.text : x \in Range(s[0])}
\* P has what was read up to the piece top, from its oldest piece on.
NoGap(P, top) == P \subseteq 1 .. top /\ \A i \in P : i .. top \subseteq P

\* The files have the output up to the piece top, but for its old end.
FilesTo(s, top, now) ==
  /\ TwoFiles(s) /\ FilesInOrder(s)
  /\ \A x \in Records(s) : x.secs <= now
  /\ NoGap(Pieces(s), top) /\ NoGap(Latest(s), top)
  /\ s[1] # <<>> => Len(s[1]) >= SegmentRecords /\ s[0] # <<>>

\* chunk is the pieces after base.
ChunkAt(chunk, base) ==
  /\ chunk \in Seq(Piece) /\ chunk # <<>>
  /\ \A i \in DOMAIN chunk : chunk[i].n = base + i

\* x was read now, after the piece top.
Later(x, top, now) == x.secs = now /\ \A i \in x.text : i \in Nat /\ i > top

LEMMA AppendKeeps ==
  ASSUME NEW s, NEW lo \in Nat, NEW now \in Nat, FilesTo(s, lo, now),
         NEW chunk, ChunkAt(chunk, lo)
  PROVE  /\ FilesTo(append(s, now, chunk), lo + Len(chunk), now)
         /\ \A x \in Records(append(s, now, chunk)) : x \in Records(s) \/ Later(x, lo, now)
<1> DEFINE hi == lo + Len(chunk)
           text == {chunk[i].n : i \in DOMAIN chunk}
           rec == [secs |-> now, text |-> text]
           t == IF Len(s[0]) >= SegmentRecords THEN rotate(s) ELSE s
           u == [t EXCEPT ![0] = Append(@, rec)]
<1>1. append(s, now, chunk) = u
  BY DEF append
<1>2. hi \in Nat /\ lo < hi /\ text = lo + 1 .. hi
  <2>1. Len(chunk) \in Nat /\ Len(chunk) > 0 /\ DOMAIN chunk = 1 .. Len(chunk)
    BY DEF ChunkAt
  <2>2. text \subseteq lo + 1 .. hi
    BY <2>1 DEF ChunkAt
  <2>3. \A x \in lo + 1 .. hi : x \in text
    <3> SUFFICES ASSUME NEW x \in lo + 1 .. hi
                 PROVE  x \in text
      OBVIOUS
    <3>1. x - lo \in DOMAIN chunk /\ lo + (x - lo) = x
      BY <2>1
    <3>2. chunk[x - lo].n = x
      BY <3>1 DEF ChunkAt
    <3> QED BY <3>1, <3>2
  <2> QED BY <2>1, <2>2, <2>3, SMTT(30)
<1> HIDE DEF hi, text
<1>3. rec \in Rec /\ rec.secs = now /\ rec.text = text
  <2>1. text \in SUBSET Nat
    BY <1>2
  <2> QED BY <2>1 DEF Rec
<1> HIDE DEF rec
<1>a. /\ 0 \in 0 .. MaxSegments /\ 1 \in 0 .. MaxSegments
      /\ \A i \in 2 .. MaxSegments : i \in 0 .. MaxSegments /\ i # 0 /\ i # 1
  OBVIOUS
<1>4. s \in [0 .. MaxSegments -> Seq(Rec)] /\ s[0] \in Seq(Rec) /\ s[1] \in Seq(Rec)
  BY SMTT(30) DEF FilesTo, TwoFiles, Files
<1>b. \A i \in 2 .. MaxSegments : s[i] = <<>>
  BY DEF FilesTo, TwoFiles
<1>5. /\ t \in [0 .. MaxSegments -> Seq(Rec)]
      /\ \A i \in 2 .. MaxSegments : t[i] = <<>>
      /\ Len(s[0]) >= SegmentRecords => t[1] = s[0] /\ t[0] = <<>>
      /\ ~(Len(s[0]) >= SegmentRecords) => t = s
  <2>1. CASE Len(s[0]) >= SegmentRecords
    <3>1. t = [s EXCEPT ![1] = s[0], ![0] = <<>>]
      BY <2>1, RotateReplaces DEF FilesTo
    <3>2. <<>> \in Seq(Rec)
      OBVIOUS
    <3> HIDE DEF t
    <3> QED BY <1>a, <1>b, <1>4, <2>1, <3>1, <3>2
  <2>2. CASE ~(Len(s[0]) >= SegmentRecords)
    BY <1>b, <1>4, <2>2
  <2> QED BY <2>1, <2>2
<1> HIDE DEF t
<1>6. /\ u \in [0 .. MaxSegments -> Seq(Rec)] /\ u[0] = Append(t[0], rec) /\ u[1] = t[1]
      /\ \A i \in 2 .. MaxSegments : u[i] = <<>>
      /\ t[0] \in Seq(Rec) /\ t[1] \in Seq(Rec)
  <2>1. t[0] \in Seq(Rec) /\ t[1] \in Seq(Rec)
    BY <1>a, <1>5
  <2>2. Append(t[0], rec) \in Seq(Rec)
    BY <1>3, <2>1
  <2> QED BY <1>a, <1>5, <2>1, <2>2
<1> HIDE DEF u
<1>7. /\ Range(u[0]) = Range(t[0]) \cup {rec} /\ DOMAIN u[0] = 1 .. Len(t[0]) + 1
      /\ \A i \in 1 .. Len(t[0]) : u[0][i] = t[0][i]
      /\ u[0][Len(t[0]) + 1] = rec /\ u[0] # <<>>
  <2>1. Len(u[0]) = Len(t[0]) + 1 /\ Len(t[0]) \in Nat
    BY <1>3, <1>6, Appended
  <2>2. u[0] # <<>>
    BY <2>1
  <2> QED BY <1>3, <1>6, <2>2, Appended
<1>8. TwoFiles(u)
  BY <1>6 DEF TwoFiles, Files
<1>9. Range(<<>>) = {}
  BY DEF Range
<1>10. /\ FilesInOrder(t) /\ Records(t) \subseteq Records(s)
       /\ \A x \in Records(t) : x.secs <= now /\ x.text \subseteq 1 .. lo
  <2>1. FilesInOrder(t) /\ Records(t) \subseteq Records(s)
    <3>1. CASE Len(s[0]) >= SegmentRecords
      <4>1. InOrder(<<>>)
        BY DEF InOrder
      <4> QED BY <1>5, <1>9, <3>1, <4>1 DEF FilesTo, FilesInOrder, Records
    <3>2. CASE ~(Len(s[0]) >= SegmentRecords)
      BY <1>5, <3>2 DEF FilesTo
    <3> QED BY <3>1, <3>2
  <2>2. \A x \in Records(s) : x.secs <= now /\ x.text \subseteq 1 .. lo
    BY DEF FilesTo, NoGap, Pieces
  <2> QED BY <2>1, <2>2
<1>11. \A x \in Records(t) : Before(x, rec)
  <2> SUFFICES ASSUME NEW x \in Records(t), NEW i \in x.text, NEW j \in rec.text
               PROVE  i < j
    BY <1>3, <1>10 DEF Before, Newer
  <2>1. i \in 1 .. lo /\ j \in lo + 1 .. hi
    BY <1>2, <1>3, <1>10
  <2> QED BY <2>1
<1>12. FilesInOrder(u)
  <2>1. InOrder(u[0])
    <3> SUFFICES ASSUME NEW i \in DOMAIN u[0], NEW j \in DOMAIN u[0], i < j
                 PROVE  Before(u[0][i], u[0][j])
      BY DEF InOrder
    <3>1. DOMAIN t[0] = 1 .. Len(t[0]) /\ Len(t[0]) \in Nat
      BY <1>6
    <3>2. i \in 1 .. Len(t[0]) /\ u[0][i] = t[0][i] /\ t[0][i] \in Records(t)
      <4>1. i \in 1 .. Len(t[0]) /\ u[0][i] = t[0][i]
        BY <1>7, <3>1, SMTT(30)
      <4>2. t[0][i] \in Range(t[0])
        BY <3>1, <4>1 DEF Range
      <4> QED BY <4>1, <4>2 DEF Records
    <3>3. CASE j \in 1 .. Len(t[0])
      BY <1>7, <1>10, <3>1, <3>2, <3>3 DEF FilesInOrder, InOrder
    <3>4. CASE j = Len(t[0]) + 1
      BY <1>7, <1>11, <3>2, <3>4
    <3> QED BY <1>7, <3>1, <3>3, <3>4
  <2>2. InOrder(u[1])
    BY <1>6, <1>10 DEF FilesInOrder
  <2>3. ASSUME NEW x \in Range(u[1]), NEW y \in Range(u[0])
        PROVE  Before(x, y)
    BY <1>6, <1>7, <1>10, <1>11 DEF FilesInOrder, Records
  <2> QED BY <2>1, <2>2, <2>3 DEF FilesInOrder
<1>13. Records(u) = Records(t) \cup {rec}
  BY <1>6, <1>7 DEF Records
<1>14. \A x \in Records(u) : x.secs <= now
  BY <1>3, <1>10, <1>13
<1>15. NoGap(Pieces(t), lo) /\ NoGap(Latest(t), lo)
  <2>1. CASE Len(s[0]) >= SegmentRecords
    <3>1. Pieces(t) = Latest(s) /\ Latest(t) = {}
      BY <1>5, <1>9, <2>1 DEF Pieces, Latest, Records
    <3> QED BY <3>1 DEF FilesTo, NoGap
  <2>2. CASE ~(Len(s[0]) >= SegmentRecords)
    BY <1>5, <2>2 DEF FilesTo
  <2> QED BY <2>1, <2>2
<1>16. \A P : NoGap(P, lo) => NoGap(P \cup text, hi)
  <2> SUFFICES ASSUME NEW P, NoGap(P, lo)
               PROVE  NoGap(P \cup text, hi)
    OBVIOUS
  <2>1. P \cup text \subseteq 1 .. hi
    BY <1>2 DEF NoGap
  <2>2. ASSUME NEW i \in P \cup text, NEW j \in i .. hi
        PROVE  j \in P \cup text
    <3>1. i \in 1 .. hi /\ j \in Nat
      BY <2>1
    <3>2. CASE j > lo
      BY <1>2, <3>1, <3>2
    <3>3. CASE j <= lo
      <4>1. i \in P /\ j \in i .. lo
        BY <1>2, <3>1, <3>3
      <4> QED BY <4>1 DEF NoGap
    <3> QED BY <3>1, <3>2, <3>3
  <2> QED BY <2>1, <2>2 DEF NoGap
<1>17. Pieces(u) = Pieces(t) \cup text /\ Latest(u) = Latest(t) \cup text
  BY <1>3, <1>7, <1>13 DEF Pieces, Latest
<1>18. u[1] # <<>> => Len(u[1]) >= SegmentRecords /\ u[0] # <<>>
  BY <1>5, <1>6, <1>7 DEF FilesTo
<1>19. FilesTo(u, hi, now)
  BY <1>8, <1>12, <1>14, <1>15, <1>16, <1>17, <1>18 DEF FilesTo
<1>20. Later(rec, lo, now)
  BY <1>2, <1>3 DEF Later
<1> QED BY <1>1, <1>10, <1>13, <1>19, <1>20 DEF hi

-----------------------------------------------------------------------------
(* Pushing a chunk to the ring.                                            *)

Lines    == Seq(SUBSET Nat)
Lined(r) == UNION Range(r)

\* The ring has the newest of the output up to the piece top.
RingTo(r, top) ==
  /\ r \in Lines /\ Len(r) <= MaxLines
  /\ \A i, j \in DOMAIN r : i < j => \A m \in r[i], n \in r[j] : m < n
  /\ NoGap(Lined(r), top)
  /\ top > 0 => top \in Lined(r)

\* The next pieces after those of P leave no gap.
LEMMA NextPieces ==
  ASSUME NEW lo \in Nat, NEW hi \in Nat, lo < hi, NEW P, NoGap(P, lo)
  PROVE  NoGap(P \cup (lo + 1 .. hi), hi) /\ hi \in P \cup (lo + 1 .. hi)
<1>1. P \cup (lo + 1 .. hi) \subseteq 1 .. hi
  BY DEF NoGap
<1>2. ASSUME NEW i \in P \cup (lo + 1 .. hi), NEW j \in i .. hi
      PROVE  j \in P \cup (lo + 1 .. hi)
  <2>1. i \in 1 .. hi /\ j \in Nat
    BY <1>1
  <2>2. CASE j > lo
    BY <2>1, <2>2
  <2>3. CASE j <= lo
    <3>1. i \in P /\ j \in i .. lo
      BY <2>1, <2>3
    <3> QED BY <3>1 DEF NoGap
  <2> QED BY <2>1, <2>2, <2>3
<1> QED BY <1>1, <1>2 DEF NoGap

\* Dropping the oldest line.
LEMMA TailKeeps ==
  ASSUME NEW lo \in Nat, NEW r, RingTo(r, lo), r # <<>>
  PROVE  /\ Tail(r) \in Lines /\ Len(Tail(r)) = Len(r) - 1
         /\ \A i, j \in DOMAIN Tail(r) : i < j => \A m \in Tail(r)[i], n \in Tail(r)[j] : m < n
         /\ NoGap(Lined(Tail(r)), lo)
<1> DEFINE t == Tail(r)
           k == Len(r)
<1>1. /\ r \in Lines /\ t \in Lines /\ k \in Nat /\ k > 0 /\ Len(t) = k - 1
      /\ DOMAIN r = 1 .. k /\ DOMAIN t = 1 .. k - 1
      /\ \A i \in 1 .. k - 1 : t[i] = r[i + 1]
  BY DEF RingTo, Lines
<1> HIDE DEF t, k
<1>2. \A i, j \in DOMAIN r : i < j => \A m \in r[i], n \in r[j] : m < n
  BY DEF RingTo
<1>3. \A i \in DOMAIN t : i + 1 \in DOMAIN r /\ t[i] = r[i + 1]
  BY <1>1
<1>4. \A i, j \in DOMAIN t : i < j => \A m \in t[i], n \in t[j] : m < n
  <2> SUFFICES ASSUME NEW i \in DOMAIN t, NEW j \in DOMAIN t, i < j
               PROVE  \A m \in t[i], n \in t[j] : m < n
    OBVIOUS
  <2>1. i + 1 < j + 1
    BY <1>1
  <2> QED BY <1>2, <1>3, <2>1
<1>5. \A x \in Lined(t) : \E i \in DOMAIN t : x \in t[i]
  BY DEF Lined, Range
<1>6. \A i \in DOMAIN t : t[i] \subseteq Lined(t)
  BY DEF Lined, Range
<1>7. \A x \in Lined(r) : \E i \in DOMAIN r : x \in r[i]
  BY DEF Lined, Range
<1>8. \A i \in DOMAIN r : r[i] \subseteq Lined(r)
  BY DEF Lined, Range
<1>9. Lined(t) \subseteq Lined(r)
  BY <1>3, <1>5, <1>8
<1>10. NoGap(Lined(r), lo)
  BY DEF RingTo
<1>11. ASSUME NEW x \in Lined(t), NEW y \in x .. lo
       PROVE  y \in Lined(t)
  <2>1. y \in Lined(r) /\ x \in 1 .. lo
    BY <1>9, <1>10 DEF NoGap
  <2>2. PICK i \in DOMAIN t : x \in t[i]
    BY <1>5
  <2>3. PICK j \in DOMAIN r : y \in r[j]
    BY <1>7, <2>1
  <2>4. j # 1
    <3> SUFFICES ASSUME j = 1
                 PROVE  FALSE
      OBVIOUS
    <3>1. 1 < i + 1 /\ i + 1 \in DOMAIN r /\ x \in r[i + 1]
      BY <1>1, <1>3, <2>2
    <3>2. y < x
      BY <1>2, <2>3, <3>1
    <3> QED BY <2>1, <3>2
  <2>5. j - 1 \in DOMAIN t /\ t[j - 1] = r[j]
    <3>1. j - 1 \in 1 .. k - 1 /\ (j - 1) + 1 = j
      BY <1>1, <2>4
    <3> QED BY <1>1, <3>1
  <2> QED BY <1>6, <2>3, <2>5
<1>12. NoGap(Lined(t), lo)
  BY <1>9, <1>10, <1>11 DEF NoGap
<1> QED BY <1>1, <1>4, <1>12 DEF t, k

LEMMA PushKeeps ==
  ASSUME NEW lo \in Nat, NEW hi \in Nat, lo < hi, NEW r, RingTo(r, lo)
  PROVE  RingTo(push(r, lo + 1 .. hi), hi)
<1> DEFINE q == IF Len(r) >= MaxLines THEN Tail(r) ELSE r
           line == lo + 1 .. hi
           u == Append(q, line)
<1>1. push(r, lo + 1 .. hi) = u
  BY DEF push
<1>2. r \in Lines /\ Len(r) \in Nat /\ Len(r) <= MaxLines
  BY DEF RingTo, Lines
<1>3. /\ q \in Lines /\ Len(q) + 1 <= MaxLines
      /\ \A i, j \in DOMAIN q : i < j => \A m \in q[i], n \in q[j] : m < n
      /\ NoGap(Lined(q), lo)
  <2>1. CASE Len(r) >= MaxLines
    <3>1. r # <<>>
      BY <2>1
    <3>2. q = Tail(r)
      BY <2>1
    <3>3. Len(q) = Len(r) - 1
      BY <3>1, <3>2, TailKeeps
    <3> HIDE DEF q
    <3> QED BY <1>2, <3>1, <3>2, <3>3, TailKeeps, SMTT(30)
  <2>2. CASE ~(Len(r) >= MaxLines)
    <3>1. q = r
      BY <2>2
    <3> HIDE DEF q
    <3> QED BY <1>2, <2>2, <3>1 DEF RingTo
  <2> QED BY <2>1, <2>2
<1> HIDE DEF q
<1>4. line \in SUBSET Nat
  OBVIOUS
<1>5. q \in Seq(SUBSET Nat) /\ Len(q) \in Nat /\ DOMAIN q = 1 .. Len(q)
  BY <1>3 DEF Lines
<1>6. /\ u \in Lines /\ Len(u) = Len(q) + 1 /\ Range(u) = Range(q) \cup {line}
      /\ DOMAIN u = 1 .. Len(q) + 1
      /\ \A i \in 1 .. Len(q) : u[i] = q[i]
      /\ u[Len(q) + 1] = line
  <2> DEFINE S == SUBSET Nat
  <2>1. q \in Seq(S) /\ line \in S
    BY <1>4, <1>5
  <2> HIDE DEF line, S
  <2>2. /\ u \in Seq(S) /\ Len(u) = Len(q) + 1 /\ Range(u) = Range(q) \cup {line}
        /\ DOMAIN u = 1 .. Len(q) + 1
        /\ \A i \in 1 .. Len(q) : u[i] = q[i]
        /\ u[Len(q) + 1] = line
    BY <2>1, Appended
  <2> HIDE DEF u
  <2> QED BY <2>2 DEF Lines, S
<1>a. line = lo + 1 .. hi
  OBVIOUS
<1> HIDE DEF u, line
<1>7. Lined(u) = Lined(q) \cup line
  BY <1>6 DEF Lined
<1>8. \A i \in DOMAIN q : q[i] \subseteq 1 .. lo
  <2>1. \A i \in DOMAIN q : q[i] \subseteq Lined(q)
    BY DEF Lined, Range
  <2> QED BY <1>3, <2>1 DEF NoGap
<1>9. ASSUME NEW i \in DOMAIN u, NEW j \in DOMAIN u, i < j
      PROVE  \A m \in u[i], n \in u[j] : m < n
  <2>1. i \in DOMAIN q /\ u[i] = q[i]
    BY <1>5, <1>6, <1>9
  <2>2. CASE j \in DOMAIN q
    BY <1>3, <1>5, <1>6, <1>9, <2>1, <2>2
  <2>3. CASE j = Len(q) + 1
    <3>1. u[j] = lo + 1 .. hi /\ u[i] \subseteq 1 .. lo
      BY <1>6, <1>8, <1>a, <2>1, <2>3
    <3> QED BY <3>1
  <2> QED BY <1>5, <1>6, <2>2, <2>3
<1>10. NoGap(Lined(u), hi) /\ hi \in Lined(u)
  <2> DEFINE P == Lined(q)
  <2>1. NoGap(P, lo)
    BY <1>3
  <2> HIDE DEF P
  <2>2. NoGap(P \cup (lo + 1 .. hi), hi) /\ hi \in P \cup (lo + 1 .. hi)
    BY <2>1, NextPieces
  <2>3. Lined(u) = P \cup (lo + 1 .. hi)
    BY <1>7, <1>a DEF P
  <2> QED BY <2>2, <2>3
<1>11. Len(u) <= MaxLines
  BY <1>3, <1>6
<1> QED BY <1>1, <1>6, <1>9, <1>10, <1>11 DEF RingTo

\* A line of a chunk is what comes after the line before it.
LEMMA LineAfter ==
  ASSUME NEW base \in Nat, NEW chunk, ChunkAt(chunk, base),
         NEW i \in LineEnds(chunk), NEW e \in 0 .. i - 1, e = 0 \/ e \in LineEnds(chunk),
         \A x \in LineEnds(chunk) : x < i => x <= e
  PROVE  LineOf(chunk, i) = base + e + 1 .. base + i
<1> DEFINE L == LineEnds(chunk)
           J == {k \in 1 .. i : \A x \in L : x < k \/ i <= x}
<1>1. LineOf(chunk, i) = {chunk[j].n : j \in J}
  BY DEF LineOf
<1>2. L \subseteq DOMAIN chunk /\ DOMAIN chunk = 1 .. Len(chunk) /\ Len(chunk) \in Nat
  BY DEF LineEnds, ChunkAt
<1>3. i \in 1 .. Len(chunk)
  BY <1>2
<1> HIDE DEF L
<1>a. i \in L /\ (e = 0 \/ e \in L) /\ \A x \in L : x < i => x <= e
  BY DEF L
<1>b. \A x \in L : x \in Nat
  BY <1>2
<1>4. J = e + 1 .. i
  <2>1. ASSUME NEW k \in 1 .. i, k > e, NEW x \in L
        PROVE  x < k \/ i <= x
    <3>1. x < i => x <= e
      BY <1>a
    <3> QED BY <1>3, <1>b, <2>1, <3>1
  <2>2. ASSUME NEW k \in 1 .. i, \A x \in L : x < k \/ i <= x
        PROVE  k > e
    <3>1. CASE e = 0
      BY <3>1, <1>3
    <3>2. CASE e \in L
      <4>1. e < k \/ i <= e
        BY <2>2, <3>2
      <4> QED BY <1>3, <4>1
    <3> QED BY <1>a, <3>1, <3>2
  <2>3. \A k \in 1 .. i : k \in J <=> k > e
    BY <2>1, <2>2
  <2>4. J \subseteq 1 .. i
    OBVIOUS
  <2>5. \A k \in e + 1 .. i : k \in 1 .. i /\ k > e
    BY <1>3
  <2>6. \A k \in 1 .. i : k > e => k \in e + 1 .. i
    BY <1>3
  <2> HIDE DEF J
  <2> QED BY <2>3, <2>4, <2>5, <2>6
<1> HIDE DEF J
<1>5. \A j \in e + 1 .. i : chunk[j].n = base + j
  <2>1. \A j \in e + 1 .. i : j \in DOMAIN chunk
    BY <1>2, <1>3
  <2> QED BY <2>1 DEF ChunkAt
<1>6. \A x \in base + e + 1 .. base + i : x - base \in e + 1 .. i /\ base + (x - base) = x
  BY <1>3
<1>7. {chunk[j].n : j \in e + 1 .. i} = base + e + 1 .. base + i
  <2>1. \A j \in e + 1 .. i : base + j \in base + e + 1 .. base + i
    BY <1>3
  <2> QED BY <1>5, <1>6, <2>1
<1> QED BY <1>1, <1>4, <1>7

\* What the fold of push_chunk computes: a line is pushed where one ends ...
PushIterates(iter, lines, chunk) ==
  /\ push_chunk(lines, chunk) = iter[1 .. Len(chunk)]
  /\ \A s \in SUBSET (1 .. Len(chunk)) :
       iter[s] = IF s = {} THEN lines
                 ELSE IF Max(s) \in LineEnds(chunk)
                   THEN push(iter[s \ {Max(s)}], LineOf(chunk, Max(s)))
                   ELSE iter[s \ {Max(s)}]

\* ... from a ring and to a ring.
LEMMA PushChunkIs ==
  ASSUME NEW base \in Nat, NEW lines \in Lines, NEW chunk, ChunkAt(chunk, base)
  PROVE  /\ \A a \in Lines, i \in 1 .. Len(chunk) : push(a, LineOf(chunk, i)) \in Lines
         /\ \E iter : PushIterates(iter, lines, chunk)
<1> DEFINE n == Len(chunk)
           A == Lines
           L == LineEnds(chunk)
           line(i) == LineOf(chunk, i)
           place == [i \in DOMAIN chunk |-> i]
           F(g) == [s \in SUBSET DOMAIN place |->
                      IF s = {} THEN lines
                      ELSE IF place[Max(s)] \in L THEN push(g[s \ {Max(s)}], line(place[Max(s)]))
                           ELSE g[s \ {Max(s)}]]
           iter == CHOOSE g : g = F(g)
           step == [x \in A \X (1 .. n) |-> IF x[2] \in L THEN push(x[1], line(x[2])) ELSE x[1]]
<1>1. push_chunk(lines, chunk) = iter[DOMAIN place]
  BY DEF push_chunk, FoldLeft, MapThenFoldSet
<1>2. n \in Nat /\ n > 0 /\ DOMAIN chunk = 1 .. n
  BY DEF ChunkAt
<1>3. DOMAIN place = 1 .. n /\ \A i \in 1 .. n : place[i] = i
  BY <1>2
<1>4. L \subseteq 1 .. n /\ n \in L
  BY <1>2 DEF LineEnds
<1>5. \A i \in 1 .. n : line(i) \in SUBSET Nat
  <2> SUFFICES ASSUME NEW i \in 1 .. n, NEW x \in line(i)
               PROVE  x \in Nat
    OBVIOUS
  <2>1. PICK j \in 1 .. i : x = chunk[j].n
    BY DEF LineOf
  <2>2. j \in DOMAIN chunk
    BY <1>2
  <2>3. chunk[j].n = base + j /\ j \in Nat
    BY <2>2 DEF ChunkAt
  <2> QED BY <2>1, <2>3
<1>6. lines \in A
  OBVIOUS
<1>7. \A a \in A, i \in 1 .. n : push(a, line(i)) \in A
  <2> SUFFICES ASSUME NEW a \in A, NEW i \in 1 .. n
               PROVE  push(a, line(i)) \in A
    OBVIOUS
  <2> DEFINE S == SUBSET Nat
             q == IF Len(a) >= MaxLines THEN Tail(a) ELSE a
             z == line(i)
  <2>1. z \in S /\ a \in Seq(S)
    BY <1>5 DEF Lines
  <2>2. push(a, z) = Append(q, z)
    BY DEF push
  <2> HIDE DEF S, z
  <2>3. q \in Seq(S)
    <3>1. CASE Len(a) >= MaxLines
      <4>1. a # <<>>
        BY <3>1
      <4> QED BY <2>1, <4>1
    <3> QED BY <2>1, <3>1
  <2> HIDE DEF q
  <2>4. Append(q, z) \in Seq(S)
    BY <2>1, <2>3
  <2> QED BY <2>2, <2>4 DEF S, z, Lines
<1> HIDE DEF n, place, line, L
<1>8. step \in [A \X (1 .. n) -> A]
  BY <1>7
<1>9. \A a \in A, i \in 1 .. n : step[<<a, i>>] = IF i \in L THEN push(a, line(i)) ELSE a
  OBVIOUS
<1> HIDE DEF A, step
<1>10. PICK h \in [SUBSET (1 .. n) -> A] : \A s \in SUBSET (1 .. n) :
         h[s] = IF s = {} THEN lines ELSE step[<<h[s \ {Max(s)}], Max(s)>>]
  <2>1. \E h \in [SUBSET (1 .. n) -> A] : Folds(h, n, lines, step)
    BY <1>2, <1>6, <1>8, FoldExists
  <2> QED BY <2>1 DEF Folds
<1>a. \A s \in SUBSET (1 .. n) : s # {} => Max(s) \in 1 .. n /\ s \ {Max(s)} \in SUBSET (1 .. n)
  <2> SUFFICES ASSUME NEW s \in SUBSET (1 .. n), s # {}
               PROVE  Max(s) \in 1 .. n /\ s \ {Max(s)} \in SUBSET (1 .. n)
    OBVIOUS
  <2>1. Max(s) \in s
    BY <1>2, MaxUpTo
  <2> QED BY <2>1
<1>11. \A s \in SUBSET (1 .. n) :
         h[s] = IF s = {} THEN lines
                ELSE IF Max(s) \in L THEN push(h[s \ {Max(s)}], line(Max(s)))
                     ELSE h[s \ {Max(s)}]
  <2> SUFFICES ASSUME NEW s \in SUBSET (1 .. n), s # {}
               PROVE  h[s] = IF Max(s) \in L THEN push(h[s \ {Max(s)}], line(Max(s)))
                             ELSE h[s \ {Max(s)}]
    BY <1>10
  <2>1. Max(s) \in 1 .. n /\ s \ {Max(s)} \in SUBSET (1 .. n)
    BY <1>a
  <2>2. h[s \ {Max(s)}] \in A
    BY <2>1
  <2> QED BY <1>9, <1>10, <2>1, <2>2
<1>b. \A s \in SUBSET (1 .. n) : s # {} => place[Max(s)] = Max(s)
  BY <1>3, <1>a
<1>c. \A s \in SUBSET (1 .. n) :
         h[s] = IF s = {} THEN lines
                ELSE IF place[Max(s)] \in L THEN push(h[s \ {Max(s)}], line(place[Max(s)]))
                     ELSE h[s \ {Max(s)}]
  BY <1>11, <1>b
<1>12. h = F(h)
  BY <1>3, <1>c
<1>13. iter = F(iter)
  <2> HIDE DEF F
  <2> QED BY <1>12
<1> HIDE DEF iter
<1>14. \A s \in SUBSET (1 .. n) :
         iter[s] = IF s = {} THEN lines
                   ELSE IF Max(s) \in L THEN push(iter[s \ {Max(s)}], line(Max(s)))
                        ELSE iter[s \ {Max(s)}]
  <2>1. \A s \in SUBSET (1 .. n) :
          iter[s] = IF s = {} THEN lines
                    ELSE IF place[Max(s)] \in L THEN push(iter[s \ {Max(s)}], line(place[Max(s)]))
                         ELSE iter[s \ {Max(s)}]
    BY <1>3, <1>13
  <2> QED BY <1>b, <2>1
<1> HIDE DEF F
<1>15. \A a \in Lines, i \in 1 .. n : push(a, line(i)) \in Lines
  BY <1>7 DEF A
<1>16. push_chunk(lines, chunk) = iter[1 .. n]
  BY <1>1, <1>3
<1> QED BY <1>14, <1>15, <1>16 DEF n, L, line, PushIterates

\* It is a ring again.
LEMMA PushChunkTyped ==
  ASSUME NEW base \in Nat, NEW lines \in Lines, NEW chunk, ChunkAt(chunk, base)
  PROVE  push_chunk(lines, chunk) \in Lines
<1> DEFINE n == Len(chunk)
           L == LineEnds(chunk)
           line(i) == LineOf(chunk, i)
<1>1. n \in Nat
  BY DEF ChunkAt
<1>2. \A a \in Lines, i \in 1 .. n : push(a, line(i)) \in Lines
  BY PushChunkIs
<1>b. PICK iter : PushIterates(iter, lines, chunk)
  BY PushChunkIs
<1>3. /\ push_chunk(lines, chunk) = iter[1 .. n]
      /\ \A s \in SUBSET (1 .. n) :
           iter[s] = IF s = {} THEN lines
                     ELSE IF Max(s) \in L THEN push(iter[s \ {Max(s)}], line(Max(s)))
                          ELSE iter[s \ {Max(s)}]
  BY <1>b DEF PushIterates
<1> HIDE DEF n, L, line
<1> DEFINE G == [k \in 0 .. n |-> Lines]
<1>4. iter[{}] \in G[0]
  <2>1. {} \in SUBSET (1 .. n) /\ 0 \in 0 .. n
    BY <1>1
  <2> QED BY <1>3, <2>1
<1>5. ASSUME NEW k \in 1 .. n, iter[1 .. k - 1] \in G[k - 1]
      PROVE  iter[1 .. k] \in G[k]
  <2>1. /\ k \in Nat /\ k # 0 /\ (1 .. k) \in SUBSET (1 .. n) /\ k \in 1 .. k
        /\ k - 1 \in 0 .. n /\ k \in 0 .. n
    BY <1>1
  <2>2. Max(1 .. k) = k /\ (1 .. k) \ {k} = 1 .. k - 1
    BY <2>1, LastUpTo
  <2>3. iter[1 .. k] = IF k \in L THEN push(iter[1 .. k - 1], line(k)) ELSE iter[1 .. k - 1]
    BY <1>3, <2>1, <2>2
  <2>4. iter[1 .. k - 1] \in Lines
    BY <1>5, <2>1
  <2> QED BY <1>2, <2>1, <2>3, <2>4
<1> HIDE DEF G
<1>6. iter[1 .. n] \in G[n]
  BY <1>1, <1>4, <1>5, FoldKeeps
<1> QED BY <1>1, <1>3, <1>6 DEF G

\* What push_chunk makes of the ring.
LEMMA PushChunkKeeps ==
  ASSUME NEW base \in Nat, NEW lines, RingTo(lines, base), NEW chunk, ChunkAt(chunk, base)
  PROVE  RingTo(push_chunk(lines, chunk), base + Len(chunk))
<1> DEFINE n == Len(chunk)
           L == LineEnds(chunk)
           line(i) == LineOf(chunk, i)
<1>2. n \in Nat /\ n > 0 /\ DOMAIN chunk = 1 .. n
  BY DEF ChunkAt
<1>4. L \subseteq 1 .. n /\ n \in L
  BY <1>2 DEF LineEnds
<1>6. lines \in Lines
  BY DEF RingTo
<1>13. PICK iter : PushIterates(iter, lines, chunk)
  BY <1>6, PushChunkIs
<1>14. /\ push_chunk(lines, chunk) = iter[1 .. n]
      /\ \A s \in SUBSET (1 .. n) :
           iter[s] = IF s = {} THEN lines
                     ELSE IF Max(s) \in L THEN push(iter[s \ {Max(s)}], line(Max(s)))
                          ELSE iter[s \ {Max(s)}]
  BY <1>13 DEF PushIterates
<1> HIDE DEF n, line, L
<1> DEFINE Ended(k, e) == /\ e \in 0 .. k /\ (e = 0 \/ e \in L)
                         /\ \A x \in L : x <= k => x <= e
           Ok(k) == {r \in Lines : \E e \in 0 .. k : Ended(k, e) /\ RingTo(r, base + e)}
           G == [k \in 0 .. n |-> Ok(k)]
<1>15. iter[{}] \in G[0]
  <2>1. iter[{}] = lines /\ 0 \in 0 .. n
    <3>1. {} \in SUBSET (1 .. n) /\ 0 \in 0 .. n
      BY <1>2
    <3> QED BY <1>14, <3>1
  <2>2. Ended(0, 0) /\ base + 0 = base
    BY <1>4
  <2>3. lines \in Ok(0)
    BY <2>2 DEF RingTo
  <2> QED BY <2>1, <2>3
<1>16. ASSUME NEW k \in 1 .. n, iter[1 .. k - 1] \in G[k - 1]
       PROVE  iter[1 .. k] \in G[k]
  <2>1. /\ k \in Nat /\ k # 0 /\ (1 .. k) \in SUBSET (1 .. n) /\ k \in 1 .. k
        /\ k - 1 \in 0 .. n /\ k \in 0 .. n
    BY <1>2
  <2>2. Max(1 .. k) = k /\ (1 .. k) \ {k} = 1 .. k - 1
    BY <2>1, LastUpTo
  <2> DEFINE r == iter[1 .. k - 1]
             t == IF k \in L THEN push(r, line(k)) ELSE r
  <2>3. iter[1 .. k] = t
    BY <1>14, <2>1, <2>2
  <2>4. r \in Ok(k - 1)
    BY <1>16, <2>1
  <2> HIDE DEF r, G
  <2>5. PICK e \in 0 .. k - 1 : Ended(k - 1, e) /\ RingTo(r, base + e)
    BY <2>4
  <2>6. CASE k \in L
    <3>1. t = push(r, line(k))
      BY <2>6
    <3>2. \A x \in L : x < k => x <= e
      <4> SUFFICES ASSUME NEW x \in L, x < k
                   PROVE  x <= e
        OBVIOUS
      <4>1. x \in Nat /\ x <= k - 1
        BY <1>4, <2>1
      <4> QED BY <2>5, <4>1
    <3>3. line(k) = base + e + 1 .. base + k
      BY <2>5, <2>6, <3>2, LineAfter DEF L, line
    <3>4. base + e \in Nat /\ base + k \in Nat /\ base + e < base + k
      BY <2>1
    <3>5. RingTo(t, base + k)
      BY <2>5, <3>1, <3>3, <3>4, PushKeeps
    <3>6. Ended(k, k)
      BY <2>1, <2>6
    <3> HIDE DEF t, Ended
    <3>7. t \in Ok(k)
      BY <2>1, <3>5, <3>6 DEF RingTo
    <3> QED BY <2>1, <2>3, <3>7 DEF G
  <2>7. CASE k \notin L
    <3>1. t = r
      BY <2>7
    <3>2. Ended(k, e)
      <4> SUFFICES ASSUME NEW x \in L, x <= k
                   PROVE  x <= e
        BY <2>1, <2>5
      <4>1. x \in Nat /\ x # k
        BY <1>4, <2>7
      <4>2. x <= k - 1
        BY <2>1, <4>1
      <4> QED BY <2>5, <4>2
    <3>3. e \in 0 .. k
      BY <2>1
    <3> HIDE DEF t, Ended
    <3>4. t \in Ok(k)
      BY <2>5, <3>1, <3>2, <3>3 DEF RingTo
    <3> QED BY <2>1, <2>3, <3>4 DEF G
  <2> QED BY <2>6, <2>7
<1> HIDE DEF G
<1>17. iter[1 .. n] \in G[n]
  BY <1>2, <1>15, <1>16, FoldKeeps
<1>18. iter[1 .. n] \in Ok(n)
  BY <1>2, <1>17, SMTT(30) DEF G
<1>19. PICK e \in 0 .. n : Ended(n, e) /\ RingTo(iter[1 .. n], base + e)
  BY <1>18
<1>20. e = n
  BY <1>2, <1>4, <1>19
<1> QED BY <1>14, <1>19, <1>20 DEF n

-----------------------------------------------------------------------------
(* One call of read_stdout: the pipe in buffers.                           *)

\* How much of a pipe of L pieces the first k buffers take
Upto(L, k) == IF k * BufferPieces > L THEN L ELSE k * BufferPieces

\* Where the buffers end, the last one at the end of the pipe.
LEMMA BufferEnds ==
  ASSUME NEW L \in Nat, L > 0
  PROVE  LET m == (L + BufferPieces - 1) \div BufferPieces IN
         /\ m \in Nat /\ m > 0
         /\ Upto(L, 0) = 0 /\ Upto(L, m) = L
         /\ \A k \in 1 .. m : /\ Upto(L, k - 1) = (k - 1) * BufferPieces
                              /\ Upto(L, k - 1) \in Nat /\ Upto(L, k) \in 0 .. L
                              /\ Upto(L, k - 1) < Upto(L, k)
<1> DEFINE B == BufferPieces
           m == (L + B - 1) \div B
<1>1. B \in Nat /\ B > 0
  OBVIOUS
<1> HIDE DEF B
<1>2. m \in Nat /\ m * B <= L + B - 1 /\ L + B - 1 < (m + 1) * B
  <2> DEFINE x == L + B - 1
  <2>1. x \in Nat
    BY <1>1
  <2> HIDE DEF x
  <2>2. x \div B \in Nat /\ (x \div B) * B <= x /\ x < (x \div B + 1) * B
    BY <1>1, <2>1
  <2> QED BY <2>2 DEF x
<1> HIDE DEF m
<1>3. (m + 1) * B = m * B + B /\ m * B \in Nat
  BY <1>1, <1>2
<1>4. m * B >= L
  BY <1>1, <1>2, <1>3
<1>5. m > 0
  <2>1. m # 0
    BY <1>1, <1>4
  <2> QED BY <1>2, <2>1
<1>6. ASSUME NEW k \in 1 .. m
      PROVE  /\ (k - 1) * B \in Nat /\ (k - 1) * B < L /\ k * B = (k - 1) * B + B
  <2>1. k * B = (k - 1) * B + B /\ (k - 1) * B \in Nat
    BY <1>1
  <2>2. k * B <= m * B
    <3>1. m = k + (m - k) /\ m - k \in Nat
      BY <1>2
    <3> DEFINE d == m - k
    <3>2. d \in Nat /\ m = k + d /\ k \in Nat
      BY <3>1
    <3> HIDE DEF d
    <3>3. m * B = k * B + d * B /\ d * B \in Nat /\ k * B \in Nat
      BY <1>1, <3>2
    <3> QED BY <3>3
  <2>3. k * B \in Nat
    BY <1>1
  <2> QED BY <1>1, <1>2, <1>3, <2>1, <2>2, <2>3
<1>7. Upto(L, 0) = 0 /\ Upto(L, m) = L
  <2>1. 0 * B = 0
    BY <1>1
  <2> QED BY <1>2, <1>3, <1>4, <2>1 DEF Upto, B
<1>8. ASSUME NEW k \in 1 .. m
      PROVE  /\ Upto(L, k - 1) = (k - 1) * B
             /\ Upto(L, k - 1) \in Nat /\ Upto(L, k) \in 0 .. L
             /\ Upto(L, k - 1) < Upto(L, k)
  <2>1. /\ (k - 1) * B \in Nat /\ (k - 1) * B < L /\ k * B = (k - 1) * B + B
    BY <1>6
  <2>2. Upto(L, k - 1) = (k - 1) * B
    BY <2>1 DEF Upto, B
  <2>3. Upto(L, k) = IF k * B > L THEN L ELSE k * B
    BY DEF Upto, B
  <2> DEFINE x == (k - 1) * B
             y == k * B
  <2>4. x \in Nat /\ x < L /\ y = x + B
    BY <2>1
  <2>5. Upto(L, k - 1) = x /\ Upto(L, k) = IF y > L THEN L ELSE y
    BY <2>2, <2>3
  <2> HIDE DEF x, y
  <2>6. /\ Upto(L, k - 1) \in Nat /\ Upto(L, k) \in 0 .. L
        /\ Upto(L, k - 1) < Upto(L, k)
    BY <1>1, <2>4, <2>5
  <2> QED BY <2>2, <2>6
<1> QED BY <1>2, <1>5, <1>7, <1>8 DEF m, B

\* Each buffer has the pieces that come after those of the buffers before it.
LEMMA ChunksAt ==
  ASSUME NEW p \in Seq(Piece), p # <<>>, NEW base \in Nat,
         \A j \in DOMAIN p : p[j].n = base + j
  PROVE  LET m == (Len(p) + BufferPieces - 1) \div BufferPieces IN
         /\ DOMAIN Chunks(p) = 1 .. m
         /\ \A k \in 1 .. m :
              /\ ChunkAt(Chunks(p)[k], base + Upto(Len(p), k - 1))
              /\ base + Upto(Len(p), k - 1) + Len(Chunks(p)[k]) = base + Upto(Len(p), k)
<1> DEFINE L == Len(p)
           m == (L + BufferPieces - 1) \div BufferPieces
<1>1. L \in Nat /\ L > 0 /\ DOMAIN p = 1 .. L
  OBVIOUS
<1>2. /\ DOMAIN Chunks(p) = 1 .. m
      /\ \A k \in 1 .. m : Chunks(p)[k] = SubSeq(p, (k - 1) * BufferPieces + 1, Upto(L, k))
  BY DEF Chunks, Upto
<1> HIDE DEF L
<1>3. \A k \in 1 .. m : /\ Upto(L, k - 1) = (k - 1) * BufferPieces
                        /\ Upto(L, k - 1) \in Nat /\ Upto(L, k) \in 0 .. L
                        /\ Upto(L, k - 1) < Upto(L, k)
  BY <1>1, BufferEnds
<1> HIDE DEF m
<1>4. ASSUME NEW k \in 1 .. m
      PROVE  /\ ChunkAt(Chunks(p)[k], base + Upto(L, k - 1))
             /\ base + Upto(L, k - 1) + Len(Chunks(p)[k]) = base + Upto(L, k)
  <2> DEFINE a == Upto(L, k - 1)
             b == Upto(L, k)
             c == Chunks(p)[k]
  <2>1. a \in Nat /\ b \in Nat /\ a < b /\ b <= L
    BY <1>1, <1>3
  <2>2. c = SubSeq(p, a + 1, b)
    BY <1>2, <1>3
  <2> HIDE DEF a, b, c
  <2>a. \A i \in a + 1 .. b : p[i] \in Piece
    BY <1>1, <2>1
  <2>3. c \in Seq(Piece) /\ Len(c) = b - a /\ \A i \in 1 .. b - a : c[i] = p[a + i]
    <3>1. Len(c) = b - a
      BY <1>1, <2>1, <2>2
    <3>2. \A i \in 1 .. b - a : c[i] = p[a + i]
      BY <1>1, <2>1, <2>2
    <3>3. c \in Seq(Piece)
      BY <1>1, <2>1, <2>2, <2>a
    <3> QED BY <3>1, <3>2, <3>3
  <2>4. DOMAIN c = 1 .. b - a /\ c # <<>>
    BY <2>1, <2>3
  <2>5. \A i \in DOMAIN c : c[i].n = (base + a) + i
    <3> SUFFICES ASSUME NEW i \in 1 .. b - a
                 PROVE  c[i].n = (base + a) + i
      BY <2>4
    <3>1. a + i \in DOMAIN p
      BY <1>1, <2>1
    <3>2. c[i].n = base + (a + i)
      BY <2>3, <3>1
    <3> QED BY <2>1, <3>2
  <2>6. ChunkAt(c, base + a)
    BY <2>3, <2>4, <2>5 DEF ChunkAt
  <2>7. base + a + Len(c) = base + b
    BY <2>1, <2>3
  <2> QED BY <2>6, <2>7 DEF a, b, c
<1> QED BY <1>2, <1>4 DEF L, m

\* A record more leaves only .1 and the active file.
LEMMA AppendTwo ==
  ASSUME NEW s, TwoFiles(s), NEW now \in Nat, NEW base \in Nat, NEW chunk, ChunkAt(chunk, base)
  PROVE  TwoFiles(append(s, now, chunk))
<1> DEFINE text == {chunk[i].n : i \in DOMAIN chunk}
           rec == [secs |-> now, text |-> text]
           t == IF Len(s[0]) >= SegmentRecords THEN rotate(s) ELSE s
           u == [t EXCEPT ![0] = Append(@, rec)]
<1>1. append(s, now, chunk) = u
  BY DEF append
<1>2. rec \in Rec
  <2>1. \A i \in DOMAIN chunk : chunk[i].n \in Nat
    BY DEF ChunkAt, Piece
  <2>2. text \in SUBSET Nat
    BY <2>1
  <2> HIDE DEF text
  <2> QED BY <2>2 DEF Rec
<1> HIDE DEF rec
<1>a. /\ 0 \in 0 .. MaxSegments /\ 1 \in 0 .. MaxSegments
      /\ \A i \in 2 .. MaxSegments : i \in 0 .. MaxSegments /\ i # 0 /\ i # 1
  OBVIOUS
<1>3. s \in [0 .. MaxSegments -> Seq(Rec)] /\ \A i \in 2 .. MaxSegments : s[i] = <<>>
  BY DEF TwoFiles, Files
<1>4. t \in [0 .. MaxSegments -> Seq(Rec)] /\ \A i \in 2 .. MaxSegments : t[i] = <<>>
  <2>1. CASE Len(s[0]) >= SegmentRecords
    <3>1. t = [s EXCEPT ![1] = s[0], ![0] = <<>>]
      BY <2>1, RotateReplaces
    <3>2. <<>> \in Seq(Rec)
      OBVIOUS
    <3> HIDE DEF t
    <3> QED BY <1>a, <1>3, <3>1, <3>2
  <2>2. CASE ~(Len(s[0]) >= SegmentRecords)
    BY <1>3, <2>2
  <2> QED BY <2>1, <2>2
<1> HIDE DEF t
<1>5. Append(t[0], rec) \in Seq(Rec)
  <2>1. t[0] \in Seq(Rec)
    BY <1>a, <1>4
  <2> QED BY <1>2, <2>1
<1>6. u \in [0 .. MaxSegments -> Seq(Rec)] /\ \A i \in 2 .. MaxSegments : u[i] = <<>>
  BY <1>a, <1>4, <1>5
<1> QED BY <1>1, <1>6 DEF TwoFiles, Files

\* One call of read_stdout keeps the ring the newest of the output ...
LEMMA ReadKeepsRing ==
  ASSUME NEW p \in Seq(Piece), p # <<>>, NEW base \in Nat,
         \A j \in DOMAIN p : p[j].n = base + j,
         NEW start, RingTo(start, base)
  PROVE  RingTo(FoldLeft(push_chunk, start, Chunks(p)), base + Len(p))
<1> DEFINE c == Chunks(p)
           n == (Len(p) + BufferPieces - 1) \div BufferPieces
           at(k) == base + Upto(Len(p), k)
           A == Lines
           F(g) == [v \in SUBSET DOMAIN c |->
                      IF v = {} THEN start ELSE push_chunk(g[v \ {Max(v)}], c[Max(v)])]
           iter == CHOOSE g : g = F(g)
           step == [x \in A \X (1 .. n) |-> push_chunk(x[1], c[x[2]])]
<1>1. FoldLeft(push_chunk, start, c) = iter[DOMAIN c]
  BY DEF FoldLeft, MapThenFoldSet
<1>a. Len(p) \in Nat /\ Len(p) > 0
  OBVIOUS
<1>2. n \in Nat /\ n > 0 /\ at(0) = base /\ at(n) = base + Len(p)
  <2> DEFINE m == n
             l == Len(p)
  <2>1. m \in Nat /\ m > 0 /\ Upto(l, 0) = 0 /\ Upto(l, m) = l
    BY <1>a, BufferEnds
  <2>2. l \in Nat
    OBVIOUS
  <2> HIDE DEF m, l
  <2>3. base + Upto(l, 0) = base /\ base + Upto(l, m) = base + l
    BY <2>1, <2>2
  <2> QED BY <2>1, <2>3 DEF l, m
<1>3. \A k \in 1 .. n : at(k - 1) \in Nat /\ ChunkAt(c[k], at(k - 1)) /\ at(k - 1) + Len(c[k]) = at(k)
  <2>1. \A k \in 1 .. n : Upto(Len(p), k - 1) \in Nat
    BY <1>a, BufferEnds
  <2>2. \A k \in 1 .. n : ChunkAt(c[k], at(k - 1)) /\ at(k - 1) + Len(c[k]) = at(k)
    BY ChunksAt
  <2> QED BY <2>1, <2>2
<1>b. DOMAIN c = 1 .. n
  BY ChunksAt
<1> HIDE DEF c, n, at
<1>4. start \in A
  BY DEF RingTo
<1>5. \A a \in A, k \in 1 .. n : push_chunk(a, c[k]) \in A
  BY <1>3, PushChunkTyped
<1>6. step \in [A \X (1 .. n) -> A]
  BY <1>5
<1>7. \A a \in A, k \in 1 .. n : step[<<a, k>>] = push_chunk(a, c[k])
  OBVIOUS
<1> HIDE DEF A, step
<1>8. PICK h \in [SUBSET (1 .. n) -> A] : \A v \in SUBSET (1 .. n) :
        h[v] = IF v = {} THEN start ELSE step[<<h[v \ {Max(v)}], Max(v)>>]
  <2>1. \E h \in [SUBSET (1 .. n) -> A] : Folds(h, n, start, step)
    BY <1>2, <1>4, <1>6, FoldExists
  <2> QED BY <2>1 DEF Folds
<1>9. \A v \in SUBSET (1 .. n) :
        h[v] = IF v = {} THEN start ELSE push_chunk(h[v \ {Max(v)}], c[Max(v)])
  <2> SUFFICES ASSUME NEW v \in SUBSET (1 .. n), v # {}
               PROVE  h[v] = push_chunk(h[v \ {Max(v)}], c[Max(v)])
    BY <1>8
  <2>1. Max(v) \in 1 .. n /\ v \ {Max(v)} \in SUBSET (1 .. n)
    <3>1. Max(v) \in v
      BY <1>2, MaxUpTo
    <3> QED BY <3>1
  <2>2. h[v \ {Max(v)}] \in A
    BY <2>1
  <2> QED BY <1>7, <1>8, <2>1, <2>2
<1>10. h = F(h)
  BY <1>b, <1>9
<1>11. iter = F(iter)
  <2> HIDE DEF F
  <2> QED BY <1>10
<1> HIDE DEF iter
<1>12. \A v \in SUBSET (1 .. n) :
         iter[v] = IF v = {} THEN start ELSE push_chunk(iter[v \ {Max(v)}], c[Max(v)])
  BY <1>b, <1>11
<1> HIDE DEF F
<1> DEFINE Ok(k) == {r \in A : RingTo(r, at(k))}
           G == [k \in 0 .. n |-> Ok(k)]
<1>13. iter[{}] \in G[0]
  <2>1. iter[{}] = start /\ 0 \in 0 .. n
    <3>1. {} \in SUBSET (1 .. n) /\ 0 \in 0 .. n
      BY <1>2
    <3> QED BY <1>12, <3>1
  <2> QED BY <1>2, <1>4, <2>1
<1>14. ASSUME NEW k \in 1 .. n, iter[1 .. k - 1] \in G[k - 1]
       PROVE  iter[1 .. k] \in G[k]
  <2>1. /\ k \in Nat /\ k # 0 /\ (1 .. k) \in SUBSET (1 .. n) /\ k \in 1 .. k
        /\ k - 1 \in 0 .. n /\ k \in 0 .. n
    BY <1>2
  <2>2. Max(1 .. k) = k /\ (1 .. k) \ {k} = 1 .. k - 1
    BY <2>1, LastUpTo
  <2> DEFINE r == iter[1 .. k - 1]
             t == push_chunk(r, c[k])
  <2>3. iter[1 .. k] = t
    BY <1>12, <2>1, <2>2
  <2>4. r \in A /\ RingTo(r, at(k - 1))
    BY <1>14, <2>1
  <2> HIDE DEF r, G
  <2>5. RingTo(t, at(k))
    BY <1>3, <2>4, PushChunkKeeps
  <2>6. t \in A
    BY <1>5, <2>4
  <2> HIDE DEF t
  <2> QED BY <2>1, <2>3, <2>5, <2>6 DEF G
<1> HIDE DEF G
<1>15. iter[1 .. n] \in G[n]
  BY <1>2, <1>13, <1>14, FoldKeeps
<1>16. RingTo(iter[1 .. n], at(n))
  BY <1>2, <1>15 DEF G
<1> QED BY <1>1, <1>2, <1>b, <1>16 DEF c

\* ... and the files.
LEMMA ReadKeepsFiles ==
  ASSUME NEW p \in Seq(Piece), p # <<>>, NEW base \in Nat,
         \A j \in DOMAIN p : p[j].n = base + j,
         NEW now \in Nat, NEW start, FilesTo(start, base, now)
  PROVE  LET end == FoldLeft(LAMBDA s, chunk : append(s, now, chunk), start, Chunks(p)) IN
         /\ FilesTo(end, base + Len(p), now)
         /\ \A x \in Records(end) : x \in Records(start) \/ Later(x, base, now)
<1> DEFINE c == Chunks(p)
           n == (Len(p) + BufferPieces - 1) \div BufferPieces
           at(k) == base + Upto(Len(p), k)
           A == {s \in Files : TwoFiles(s)}
           F(g) == [v \in SUBSET DOMAIN c |->
                      IF v = {} THEN start ELSE append(g[v \ {Max(v)}], now, c[Max(v)])]
           iter == CHOOSE g : g = F(g)
           step == [x \in A \X (1 .. n) |-> append(x[1], now, c[x[2]])]
<1>1. FoldLeft(LAMBDA s, chunk : append(s, now, chunk), start, c) = iter[DOMAIN c]
  BY DEF FoldLeft, MapThenFoldSet
<1>a. Len(p) \in Nat /\ Len(p) > 0
  OBVIOUS
<1>2. n \in Nat /\ n > 0 /\ at(0) = base /\ at(n) = base + Len(p)
  <2> DEFINE m == n
             l == Len(p)
  <2>1. m \in Nat /\ m > 0 /\ Upto(l, 0) = 0 /\ Upto(l, m) = l
    BY <1>a, BufferEnds
  <2>2. l \in Nat
    OBVIOUS
  <2> HIDE DEF m, l
  <2>3. base + Upto(l, 0) = base /\ base + Upto(l, m) = base + l
    BY <2>1, <2>2
  <2> QED BY <2>1, <2>3 DEF l, m
<1>3. \A k \in 1 .. n : /\ at(k - 1) \in Nat /\ at(k - 1) >= base
                        /\ ChunkAt(c[k], at(k - 1)) /\ at(k - 1) + Len(c[k]) = at(k)
  <2>1. \A k \in 1 .. n : Upto(Len(p), k - 1) \in Nat
    BY <1>a, BufferEnds
  <2>2. \A k \in 1 .. n : ChunkAt(c[k], at(k - 1)) /\ at(k - 1) + Len(c[k]) = at(k)
    BY ChunksAt
  <2> QED BY <2>1, <2>2
<1>b. DOMAIN c = 1 .. n
  BY ChunksAt
<1> HIDE DEF c, n, at
<1>4. start \in A
  BY DEF FilesTo, TwoFiles
<1>5. \A a \in A, k \in 1 .. n : append(a, now, c[k]) \in A
  <2>1. \A s \in A : TwoFiles(s)
    OBVIOUS
  <2>2. \A s : TwoFiles(s) => s \in A
    BY DEF TwoFiles
  <2> HIDE DEF A
  <2> QED BY <1>3, <2>1, <2>2, AppendTwo
<1>6. step \in [A \X (1 .. n) -> A]
  BY <1>5
<1>7. \A a \in A, k \in 1 .. n : step[<<a, k>>] = append(a, now, c[k])
  OBVIOUS
<1> HIDE DEF A, step
<1>8. PICK h \in [SUBSET (1 .. n) -> A] : \A v \in SUBSET (1 .. n) :
        h[v] = IF v = {} THEN start ELSE step[<<h[v \ {Max(v)}], Max(v)>>]
  <2>1. \E h \in [SUBSET (1 .. n) -> A] : Folds(h, n, start, step)
    BY <1>2, <1>4, <1>6, FoldExists
  <2> QED BY <2>1 DEF Folds
<1>9. \A v \in SUBSET (1 .. n) :
        h[v] = IF v = {} THEN start ELSE append(h[v \ {Max(v)}], now, c[Max(v)])
  <2> SUFFICES ASSUME NEW v \in SUBSET (1 .. n), v # {}
               PROVE  h[v] = append(h[v \ {Max(v)}], now, c[Max(v)])
    BY <1>8
  <2>1. Max(v) \in 1 .. n /\ v \ {Max(v)} \in SUBSET (1 .. n)
    <3>1. Max(v) \in v
      BY <1>2, MaxUpTo
    <3> QED BY <3>1
  <2>2. h[v \ {Max(v)}] \in A
    BY <2>1
  <2> QED BY <1>7, <1>8, <2>1, <2>2
<1>10. h = F(h)
  BY <1>b, <1>9
<1>11. iter = F(iter)
  <2> HIDE DEF F
  <2> QED BY <1>10
<1> HIDE DEF iter
<1>12. \A v \in SUBSET (1 .. n) :
         iter[v] = IF v = {} THEN start ELSE append(iter[v \ {Max(v)}], now, c[Max(v)])
  BY <1>b, <1>11
<1> HIDE DEF F
<1> DEFINE Grown(r) == \A x \in Records(r) : x \in Records(start) \/ Later(x, base, now)
           Ok(k) == {r \in A : FilesTo(r, at(k), now) /\ Grown(r)}
           G == [k \in 0 .. n |-> Ok(k)]
<1>13. iter[{}] \in G[0]
  <2>1. iter[{}] = start /\ 0 \in 0 .. n
    <3>1. {} \in SUBSET (1 .. n) /\ 0 \in 0 .. n
      BY <1>2
    <3> QED BY <1>12, <3>1
  <2>2. Grown(start)
    OBVIOUS
  <2> QED BY <1>2, <1>4, <2>1, <2>2
<1>14. ASSUME NEW k \in 1 .. n, iter[1 .. k - 1] \in G[k - 1]
       PROVE  iter[1 .. k] \in G[k]
  <2>1. /\ k \in Nat /\ k # 0 /\ (1 .. k) \in SUBSET (1 .. n) /\ k \in 1 .. k
        /\ k - 1 \in 0 .. n /\ k \in 0 .. n
    BY <1>2
  <2>2. Max(1 .. k) = k /\ (1 .. k) \ {k} = 1 .. k - 1
    BY <2>1, LastUpTo
  <2> DEFINE r == iter[1 .. k - 1]
             t == append(r, now, c[k])
  <2>3. iter[1 .. k] = t
    BY <1>12, <2>1, <2>2
  <2>4. r \in A /\ FilesTo(r, at(k - 1), now) /\ Grown(r)
    BY <1>14, <2>1
  <2>a. at(k - 1) >= base /\ at(k - 1) \in Nat
    BY <1>3
  <2> HIDE DEF r, G
  <2>5. FilesTo(t, at(k), now)
    <3>1. FilesTo(t, at(k - 1) + Len(c[k]), now)
      BY <1>3, <2>4, AppendKeeps
    <3> HIDE DEF t
    <3> QED BY <1>3, <3>1
  <2>b. \A x \in Records(t) : x \in Records(r) \/ Later(x, at(k - 1), now)
    BY <1>3, <2>4, AppendKeeps
  <2>c. \A x : Later(x, at(k - 1), now) => Later(x, base, now)
    BY <2>a DEF Later
  <2>6. t \in A
    BY <1>5, <2>4
  <2> HIDE DEF t
  <2>7. Grown(t)
    BY <2>4, <2>b, <2>c
  <2> HIDE DEF Grown
  <2> QED BY <2>1, <2>3, <2>5, <2>6, <2>7 DEF G
<1> HIDE DEF G
<1>15. iter[1 .. n] \in G[n]
  BY <1>2, <1>13, <1>14, FoldKeeps
<1>16. FilesTo(iter[1 .. n], at(n), now) /\ Grown(iter[1 .. n])
  BY <1>2, <1>15 DEF G
<1>17. FilesTo(iter[DOMAIN c], base + Len(p), now) /\ Grown(iter[DOMAIN c])
  BY <1>2, <1>b, <1>16
<1> QED BY <1>1, <1>17 DEF c

-----------------------------------------------------------------------------
(* Following.                                                              *)

\* What a follower showed is in order and older than what it asks for next.
FollowTo(shown, since, s, top, now) ==
  /\ shown \in Seq(Rec) /\ since \in Nat
  /\ InOrder(shown)
  /\ \A x \in Range(shown) : x.secs < since /\ x.secs <= now /\ x.text \subseteq 1 .. top
  /\ \A x \in Range(shown), y \in Records(s) : y.secs >= since => Before(x, y)

\* In records in order the last one has the largest second.
LEMMA LastIsLatest ==
  ASSUME NEW recs \in Seq(Rec), InOrder(recs), recs # <<>>
  PROVE  /\ Last(recs) \in Range(recs)
         /\ \A x \in Range(recs) : x.secs <= Last(recs).secs
<1>1. Len(recs) \in Nat /\ Len(recs) > 0 /\ DOMAIN recs = 1 .. Len(recs)
  OBVIOUS
<1>2. Last(recs) = recs[Len(recs)] /\ Len(recs) \in DOMAIN recs
  BY <1>1 DEF Last
<1>3. Last(recs) \in Range(recs)
  BY <1>2 DEF Range
<1>4. \A i \in DOMAIN recs : recs[i].secs <= Last(recs).secs
  <2> SUFFICES ASSUME NEW i \in DOMAIN recs
               PROVE  recs[i].secs <= Last(recs).secs
    OBVIOUS
  <2>1. CASE i = Len(recs)
    <3>1. recs[i] \in Rec
      OBVIOUS
    <3> QED BY <1>2, <2>1, <3>1 DEF Rec
  <2>2. CASE i # Len(recs)
    <3>1. i < Len(recs)
      BY <1>1, <2>2
    <3> QED BY <1>2, <3>1 DEF InOrder, Before
  <2> QED BY <2>1, <2>2
<1> QED BY <1>3, <1>4 DEF Range

\* Showing records that are newer than what was asked for.
LEMMA ShowMore ==
  ASSUME NEW shown, NEW since, NEW s, NEW top \in Nat, NEW now \in Nat,
         FollowTo(shown, since, s, top, now), FilesTo(s, top, now),
         NEW recs \in Seq(Rec), InOrder(recs),
         \A x \in Range(recs) : x \in Records(s) /\ x.secs >= since
  PROVE  FollowTo(shown \o recs, Since(since, recs), s, top, now)
<1> DEFINE q == shown \o recs
           k == Len(shown)
           next == Since(since, recs)
<1>1. /\ k \in Nat /\ DOMAIN shown = 1 .. k /\ DOMAIN recs = 1 .. Len(recs) /\ Len(recs) \in Nat
      /\ DOMAIN q = 1 .. k + Len(recs) /\ q \in Seq(Rec)
      /\ \A i \in DOMAIN q : q[i] = IF i <= k THEN shown[i] ELSE recs[i - k]
  BY DEF FollowTo
<1>2. \A i \in DOMAIN q : i <= k => i \in DOMAIN shown
  BY <1>1
<1>3. \A i \in DOMAIN q : ~(i <= k) => i - k \in DOMAIN recs
  BY <1>1
<1> HIDE DEF q, k
<1>4. \A x \in Range(q) : x \in Range(shown) \/ x \in Range(recs)
  BY <1>1, <1>2, <1>3 DEF Range
<1>5. \A x \in Range(recs) : x.secs \in Nat /\ x.secs <= now /\ x.text \subseteq 1 .. top
  <2>1. \A x \in Range(recs) : x \in Rec
    BY DEF Range
  <2>2. \A x \in Range(recs) : x.secs \in Nat
    BY <2>1 DEF Rec
  <2>3. \A x \in Records(s) : x.secs <= now /\ x.text \subseteq 1 .. top
    BY DEF FilesTo, NoGap, Pieces
  <2> QED BY <2>2, <2>3
<1>6. \A x \in Range(shown) : x.secs \in Nat /\ x.secs < since /\ since \in Nat
  <2>1. \A x \in Range(shown) : x \in Rec
    BY DEF Range, FollowTo
  <2> QED BY <2>1 DEF Rec, FollowTo
<1>7. /\ next \in Nat /\ next >= since
      /\ \A x \in Range(recs) : x.secs < next
      /\ \/ next = since
         \/ recs # <<>> /\ Last(recs) \in Range(recs) /\ next = Last(recs).secs + 1
  <2>1. CASE recs = <<>>
    <3>1. next = since /\ Range(recs) = {}
      BY <2>1 DEF Since, Range
    <3>2. since \in Nat
      BY DEF FollowTo
    <3> HIDE DEF next
    <3> QED BY <3>1, <3>2
  <2>2. CASE recs # <<>>
    <3>1. next = Last(recs).secs + 1
      BY <2>2 DEF Since
    <3>2. Last(recs) \in Range(recs) /\ \A x \in Range(recs) : x.secs <= Last(recs).secs
      BY <2>2, LastIsLatest
    <3>3. Last(recs).secs \in Nat /\ Last(recs).secs >= since /\ since \in Nat
      BY <1>5, <3>2 DEF FollowTo
    <3> HIDE DEF next
    <3> QED BY <1>5, <2>2, <3>1, <3>2, <3>3
  <2> QED BY <2>1, <2>2
<1> HIDE DEF next
<1>8. InOrder(q)
  <2> SUFFICES ASSUME NEW i \in DOMAIN q, NEW j \in DOMAIN q, i < j
               PROVE  Before(q[i], q[j])
    BY DEF InOrder
  <2>1. CASE j <= k
    <3>1. i <= k /\ i \in DOMAIN shown /\ j \in DOMAIN shown /\ q[i] = shown[i] /\ q[j] = shown[j]
      BY <1>1, <1>2, <2>1
    <3> QED BY <3>1 DEF FollowTo, InOrder
  <2>2. CASE ~(i <= k)
    <3>1. ~(j <= k) /\ i - k < j - k
      BY <1>1, <2>2
    <3>2. i - k \in DOMAIN recs /\ j - k \in DOMAIN recs /\ q[i] = recs[i - k] /\ q[j] = recs[j - k]
      BY <1>1, <1>3, <2>2, <3>1
    <3> QED BY <3>1, <3>2 DEF InOrder
  <2>3. CASE i <= k /\ ~(j <= k)
    <3>1. /\ i \in DOMAIN shown /\ j - k \in DOMAIN recs
          /\ q[i] = shown[i] /\ q[j] = recs[j - k]
      BY <1>1, <1>2, <1>3, <2>3
    <3>2. q[i] \in Range(shown) /\ q[j] \in Range(recs)
      BY <3>1 DEF Range
    <3> QED BY <3>2 DEF FollowTo
  <2> QED BY <2>1, <2>2, <2>3
<1>9. \A x \in Range(q) : x.secs < next /\ x.secs <= now /\ x.text \subseteq 1 .. top
  <2> SUFFICES ASSUME NEW x \in Range(q)
               PROVE  x.secs < next /\ x.secs <= now /\ x.text \subseteq 1 .. top
    OBVIOUS
  <2>1. CASE x \in Range(shown)
    <3>1. x.secs <= now /\ x.text \subseteq 1 .. top
      BY <2>1 DEF FollowTo
    <3>2. x.secs < next
      BY <1>6, <1>7, <2>1
    <3> QED BY <3>1, <3>2
  <2>2. CASE x \in Range(recs)
    BY <1>5, <1>7, <2>2
  <2> QED BY <1>4, <2>1, <2>2
<1>10. ASSUME NEW x \in Range(q), NEW y \in Records(s), y.secs >= next
       PROVE  Before(x, y)
  <2>1. y.secs \in Nat
    <3>a. 0 \in 0 .. MaxSegments /\ 1 \in 0 .. MaxSegments
      OBVIOUS
    <3>1. s[0] \in Seq(Rec) /\ s[1] \in Seq(Rec)
      BY <3>a DEF FilesTo, TwoFiles, Files
    <3>2. y \in Rec
      BY <3>1 DEF Records, Range
    <3> QED BY <3>2 DEF Rec
  <2>2. CASE x \in Range(shown)
    <3>1. y.secs >= since
      BY <1>6, <1>7, <1>10, <2>1, <2>2
    <3> QED BY <2>2, <3>1 DEF FollowTo
  <2>3. CASE x \in Range(recs)
    <3>1. x.secs < y.secs /\ x.secs \in Nat
      BY <1>5, <1>7, <1>10, <2>1, <2>3
    <3>2. x # y /\ ~Before(y, x)
      BY <2>1, <3>1 DEF Before
    <3>3. x \in Records(s)
      BY <2>3
    <3> QED BY <3>2, <3>3, OneWasFirst DEF FilesTo
  <2> QED BY <1>4, <2>2, <2>3
<1>11. FollowTo(q, next, s, top, now)
  BY <1>1, <1>7, <1>8, <1>9, <1>10 DEF FollowTo
<1> QED BY <1>11 DEF q, next

\* The records that journal -n asks for are the newest ones.
LEMMA TailIs ==
  ASSUME NEW recs \in Seq(Rec), InOrder(recs), NEW n \in Nat, n > 0
  PROVE  /\ tail(recs, n) \in Seq(Rec) /\ InOrder(tail(recs, n))
         /\ \A x \in Range(tail(recs, n)) : x \in Range(recs)
<1> DEFINE L == Len(recs)
           a == IF L > n THEN L - n + 1 ELSE 1
           t == tail(recs, n)
<1>1. L \in Nat /\ DOMAIN recs = 1 .. L
  OBVIOUS
<1>2. t = SubSeq(recs, a, L)
  BY DEF tail
<1> HIDE DEF L
<1>3. a \in Nat /\ a > 0 /\ a <= L + 1
  BY <1>1
<1> HIDE DEF a, t
<1>4. t \in Seq(Rec)
  <2>1. \A i \in a .. L : recs[i] \in Rec
    BY <1>1, <1>3
  <2> QED BY <1>1, <1>2, <1>3, <2>1 DEF L
<1>5. DOMAIN t = 1 .. L - a + 1 /\ \A i \in 1 .. L - a + 1 : t[i] = recs[a + i - 1]
  BY <1>1, <1>2, <1>3 DEF L
<1>6. \A i \in DOMAIN t : a + i - 1 \in DOMAIN recs /\ i \in Nat
  BY <1>1, <1>3, <1>5
<1>7. \A x \in Range(t) : x \in Range(recs)
  BY <1>5, <1>6 DEF Range
<1>8. InOrder(t)
  <2> SUFFICES ASSUME NEW i \in DOMAIN t, NEW j \in DOMAIN t, i < j
               PROVE  Before(t[i], t[j])
    BY DEF InOrder
  <2>1. a + i - 1 < a + j - 1
    BY <1>3, <1>6
  <2> QED BY <1>5, <1>6, <2>1 DEF InOrder
<1> QED BY <1>4, <1>7, <1>8 DEF t

-----------------------------------------------------------------------------
(* The invariant.                                                          *)

PipeHas(p, top) == p \in Seq(Piece) /\ \A j \in DOMAIN p : p[j].n = top + j

JournalInv ==
  /\ written \in Nat /\ dropped \in Nat /\ secs \in Nat /\ Seen \in Nat
  /\ open \in [service : BOOLEAN, manager : BOOLEAN]
  /\ PipeHas(pipe, Seen)
  /\ open.manager => dropped = 0
  /\ ~open.manager => pipe = <<>>
  /\ RingTo(ring, Seen)
  /\ FilesTo(segments, Seen, secs)
  /\ follow \in [running : BOOLEAN, since : Nat, shown : Seq(Rec)]
  /\ FollowTo(follow.shown, follow.since, segments, Seen, secs)

\* Files that have nothing.
LEMMA NoFiles ==
  ASSUME NEW s, s = [i \in 0 .. MaxSegments |-> NoFile], NEW top \in Nat, NEW now \in Nat
  PROVE  FilesTo(s, top, now) /\ Records(s) = {}
<1>1. 0 \in 0 .. MaxSegments /\ 1 \in 0 .. MaxSegments /\ 2 .. MaxSegments \subseteq 0 .. MaxSegments
  OBVIOUS
<1>2. s[0] = <<>> /\ s[1] = <<>> /\ \A i \in 2 .. MaxSegments : s[i] = <<>>
  BY <1>1 DEF NoFile
<1>3. Range(<<>>) = {} /\ InOrder(<<>>)
  BY DEF Range, InOrder
<1>4. Records(s) = {} /\ Pieces(s) = {} /\ Latest(s) = {}
  BY <1>2, <1>3 DEF Records, Pieces, Latest
<1>5. s \in [0 .. MaxSegments -> Seq(Rec)]
  <2>1. <<>> \in Seq(Rec)
    OBVIOUS
  <2> QED BY <2>1 DEF NoFile
<1>6. NoGap({}, top)
  BY DEF NoGap
<1>7. TwoFiles(s) /\ FilesInOrder(s)
  BY <1>2, <1>3, <1>5 DEF TwoFiles, Files, FilesInOrder
<1> QED BY <1>2, <1>4, <1>6, <1>7 DEF FilesTo

LEMMA NothingShown ==
  ASSUME NEW s, NEW top \in Nat, NEW now \in Nat
  PROVE  FollowTo(<<>>, 0, s, top, now)
<1>1. Range(<<>>) = {} /\ InOrder(<<>>) /\ <<>> \in Seq(Rec)
  BY DEF Range, InOrder
<1> QED BY <1>1 DEF FollowTo

LEMMA JournalStarts == ASSUME JournalInit PROVE JournalInv
<1>1. Seen = 0
  <2>1. Len(pipe) = 0 /\ written = 0 /\ dropped = 0
    BY DEF JournalInit
  <2> QED BY <2>1 DEF Seen
<1>2. RingTo(<<>>, 0)
  <2>1. <<>> \in Seq(SUBSET Nat) /\ Len(<<>>) = 0 /\ DOMAIN <<>> = {}
    OBVIOUS
  <2>2. Lined(<<>>) = {}
    BY DEF Lined, Range
  <2>3. NoGap({}, 0)
    BY DEF NoGap
  <2> QED BY <2>1, <2>2, <2>3 DEF RingTo, Lines
<1>3. FilesTo(segments, 0, secs)
  BY NoFiles DEF JournalInit
<1>4. FollowTo(<<>>, 0, segments, 0, secs)
  BY NothingShown DEF JournalInit
<1>5. PipeHas(<<>>, 0)
  <2>1. <<>> \in Seq(Piece) /\ DOMAIN <<>> = {}
    OBVIOUS
  <2> QED BY <2>1 DEF PipeHas
<1>6. follow \in [running : BOOLEAN, since : Nat, shown : Seq(Rec)] /\ follow.shown = <<>> /\ follow.since = 0
  <2>1. <<>> \in Seq(Rec)
    OBVIOUS
  <2> QED BY <2>1 DEF JournalInit
<1> QED BY <1>1, <1>2, <1>3, <1>4, <1>5, <1>6 DEF JournalInit, JournalInv

\* What the service writes next follows what is in the pipe.
LEMMA WriteKeeps == ASSUME JournalInv, ServiceWrites PROVE JournalInv'
<1>1. PICK eol \in BOOLEAN : pipe' = Append(pipe, [n |-> written + 1, eol |-> eol])
  BY DEF ServiceWrites
<1> DEFINE x == [n |-> written + 1, eol |-> eol]
<1>2. pipe \in Seq(Piece) /\ Len(pipe) \in Nat /\ written \in Nat /\ dropped = 0 /\ Seen \in Nat
  BY DEF JournalInv, PipeHas, ServiceWrites
<1>3. x \in Piece /\ x.n = written + 1
  BY <1>2 DEF Piece
<1> HIDE DEF x
<1>4. /\ pipe' \in Seq(Piece) /\ Len(pipe') = Len(pipe) + 1 /\ DOMAIN pipe' = 1 .. Len(pipe) + 1
      /\ \A i \in 1 .. Len(pipe) : pipe'[i] = pipe[i]
      /\ pipe'[Len(pipe) + 1] = x
  BY <1>1, <1>2, <1>3, Appended DEF x
<1>5. Seen' = Seen /\ written = Seen + Len(pipe)
  BY <1>2, <1>4 DEF ServiceWrites, Seen
<1>6. \A j \in DOMAIN pipe' : pipe'[j].n = Seen + j
  <2> SUFFICES ASSUME NEW j \in DOMAIN pipe'
               PROVE  pipe'[j].n = Seen + j
    OBVIOUS
  <2>1. DOMAIN pipe = 1 .. Len(pipe)
    BY <1>2
  <2>2. CASE j \in DOMAIN pipe
    BY <1>4, <2>1, <2>2 DEF JournalInv, PipeHas
  <2>3. CASE j = Len(pipe) + 1
    BY <1>2, <1>3, <1>4, <1>5, <2>3
  <2> QED BY <1>2, <1>4, <2>1, <2>2, <2>3
<1>7. PipeHas(pipe', Seen')
  BY <1>4, <1>5, <1>6 DEF PipeHas
<1> QED BY <1>2, <1>5, <1>7 DEF JournalInv, ServiceWrites

\* A call of read_stdout takes the whole pipe.
LEMMA StdoutKeeps == ASSUME JournalInv, read_stdout PROVE JournalInv'
<1> DEFINE p == pipe
           n == Len(pipe)
           base == Seen
           now == secs
           end == FoldLeft(LAMBDA s, chunk : append(s, now, chunk), segments, Chunks(p))
<1>1. /\ p \in Seq(Piece) /\ p # <<>> /\ n \in Nat /\ base \in Nat /\ now \in Nat
      /\ \A j \in DOMAIN p : p[j].n = base + j
  <2>1. PipeHas(pipe, Seen) /\ Seen \in Nat /\ secs \in Nat
    BY DEF JournalInv
  <2>2. pipe # <<>>
    BY DEF read_stdout
  <2> QED BY <2>1, <2>2 DEF PipeHas
<1>2. RingTo(ring, base) /\ FilesTo(segments, base, now)
  BY DEF JournalInv
<1>3. ring' = FoldLeft(push_chunk, ring, Chunks(p)) /\ segments' = end
  BY DEF read_stdout
<1>4. Seen' = base + n /\ written \in Nat /\ dropped = 0
  <2>1. written \in Nat /\ dropped = 0
    BY DEF JournalInv, read_stdout
  <2>2. written' = written /\ dropped' = dropped /\ Len(pipe') = 0
    BY DEF read_stdout
  <2> QED BY <1>1, <2>1, <2>2 DEF Seen
<1> HIDE DEF base, n, now
<1>5. RingTo(ring', base + n)
  BY <1>1, <1>2, <1>3, ReadKeepsRing DEF n
<1>6. FilesTo(segments', base + n, now) /\ \A x \in Records(segments') : x \in Records(segments) \/ Later(x, base, now)
  <2>1. /\ FilesTo(end, base + Len(p), now)
        /\ \A x \in Records(end) : x \in Records(segments) \/ Later(x, base, now)
    BY <1>1, <1>2, ReadKeepsFiles
  <2> HIDE DEF end
  <2> QED BY <1>3, <2>1 DEF n
<1>7. base + n \in Nat /\ base + n >= base
  BY <1>1
<1>8. FollowTo(follow.shown, follow.since, segments', base + n, now)
  <2> DEFINE shown == follow.shown
             since == follow.since
  <2>1. FollowTo(shown, since, segments, base, now)
    BY DEF JournalInv, base, now
  <2> HIDE DEF shown, since
  <2>2. \A y : \A x \in Range(shown) : Later(y, base, now) => Before(x, y)
    <3> SUFFICES ASSUME NEW x \in Range(shown), NEW y, Later(y, base, now)
                 PROVE  Before(x, y)
      OBVIOUS
    <3>1. x.secs <= now /\ x.text \subseteq 1 .. base
      BY <2>1 DEF FollowTo
    <3> QED BY <1>1, <3>1 DEF Before, Newer, Later
  <2>3. \A x \in Range(shown), y \in Records(segments') : y.secs >= since => Before(x, y)
    BY <1>6, <2>1, <2>2 DEF FollowTo
  <2>4. \A x \in Range(shown) : x.text \subseteq 1 .. base + n
    <3>1. \A x \in Range(shown) : x.text \subseteq 1 .. base
      BY <2>1 DEF FollowTo
    <3>2. 1 .. base \subseteq 1 .. base + n
      BY <1>1
    <3> QED BY <3>1, <3>2
  <2> QED BY <2>1, <2>3, <2>4 DEF FollowTo, shown, since
<1>9. PipeHas(<<>>, base + n)
  <2>1. <<>> \in Seq(Piece) /\ DOMAIN <<>> = {}
    OBVIOUS
  <2> QED BY <2>1 DEF PipeHas
<1>10. /\ open' \in [service : BOOLEAN, manager : BOOLEAN]
       /\ pipe' = <<>> /\ dropped' = 0 /\ written' = written /\ secs' = secs /\ follow' = follow
  BY <1>4 DEF JournalInv, read_stdout
<1>11. now = secs
  BY DEF now
<1>12. /\ written' \in Nat /\ dropped' \in Nat /\ secs' \in Nat /\ Seen' \in Nat
       /\ PipeHas(pipe', Seen')
       /\ RingTo(ring', Seen') /\ FilesTo(segments', Seen', secs')
       /\ follow' \in [running : BOOLEAN, since : Nat, shown : Seq(Rec)]
       /\ FollowTo(follow.shown', follow.since', segments', Seen', secs')
  <2>1. secs \in Nat /\ follow \in [running : BOOLEAN, since : Nat, shown : Seq(Rec)]
    BY DEF JournalInv
  <2> QED BY <1>4, <1>5, <1>6, <1>7, <1>8, <1>9, <1>10, <1>11, <2>1
<1> QED BY <1>10, <1>12 DEF JournalInv

LEMMA StopKeeps == ASSUME JournalInv, StopFinishes PROVE JournalInv'
<1>1. pipe \in Seq(Piece) /\ Len(pipe) \in Nat /\ written \in Nat /\ dropped = 0 /\ Seen \in Nat
  BY DEF JournalInv, PipeHas, StopFinishes
<1>2. Len(pipe') = 0 /\ dropped' = Len(pipe) /\ written' = written
  BY DEF StopFinishes
<1>3. Seen' = Seen
  BY <1>1, <1>2 DEF Seen
<1>4. PipeHas(pipe', Seen')
  <2>1. pipe' = <<>> /\ <<>> \in Seq(Piece) /\ DOMAIN <<>> = {}
    BY DEF StopFinishes
  <2> QED BY <2>1 DEF PipeHas
<1> QED BY <1>1, <1>3, <1>4 DEF JournalInv, StopFinishes

LEMMA SecondKeeps == ASSUME JournalInv, SecondPasses PROVE JournalInv'
<1> DEFINE now == secs
           top == Seen
<1>1. now \in Nat /\ secs' = now + 1 /\ secs' \in Nat /\ Seen' = top
  BY DEF JournalInv, SecondPasses, Seen
<1>2. FilesTo(segments, top, now) /\ FollowTo(follow.shown, follow.since, segments, top, now)
  BY DEF JournalInv
<1> HIDE DEF now, top
<1>a. \A x \in Rec : x.secs <= now => x.secs <= now + 1
  BY <1>1 DEF Rec
<1>3. FilesTo(segments, top, now + 1)
  <2>a. 0 \in 0 .. MaxSegments /\ 1 \in 0 .. MaxSegments
    OBVIOUS
  <2>1. segments[0] \in Seq(Rec) /\ segments[1] \in Seq(Rec)
    BY <1>2, <2>a DEF FilesTo, TwoFiles, Files
  <2>2. \A x \in Records(segments) : x \in Rec
    BY <2>1 DEF Records, Range
  <2>3. \A x \in Records(segments) : x.secs <= now + 1
    BY <1>2, <1>a, <2>2 DEF FilesTo
  <2> QED BY <1>2, <2>3 DEF FilesTo
<1>4. FollowTo(follow.shown, follow.since, segments, top, now + 1)
  <2> DEFINE shown == follow.shown
  <2>1. FollowTo(shown, follow.since, segments, top, now)
    BY <1>2
  <2> HIDE DEF shown
  <2>2. \A x \in Range(shown) : x \in Rec
    BY <2>1 DEF FollowTo, Range
  <2>3. \A x \in Range(shown) : x.secs <= now + 1
    BY <1>a, <2>1, <2>2 DEF FollowTo
  <2>4. FollowTo(shown, follow.since, segments, top, now + 1)
    BY <2>1, <2>3 DEF FollowTo
  <2> QED BY <2>4 DEF shown
<1>5. UNCHANGED <<pipe, written, open, dropped, ring, segments, follow>>
  BY DEF SecondPasses
<1>6. FilesTo(segments', Seen', secs') /\ FollowTo(follow.shown', follow.since', segments', Seen', secs')
  BY <1>1, <1>3, <1>4, <1>5
<1>7. PipeHas(pipe', Seen') /\ RingTo(ring', Seen') /\ Seen' \in Nat
  BY <1>1, <1>5 DEF JournalInv, top
<1> QED BY <1>1, <1>5, <1>6, <1>7 DEF JournalInv

LEMMA CleanKeeps == ASSUME JournalInv, clean PROVE JournalInv'
<1>1. segments' = [i \in 0 .. MaxSegments |-> NoFile] /\ secs \in Nat /\ Seen \in Nat
  BY DEF JournalInv, clean
<1>2. FilesTo(segments', Seen, secs) /\ Records(segments') = {}
  BY <1>1, NoFiles
<1>3. FollowTo(follow.shown, follow.since, segments', Seen, secs)
  BY <1>2 DEF JournalInv, FollowTo
<1>4. UNCHANGED <<pipe, written, open, dropped, ring, secs, follow>>
  BY DEF clean
<1>5. Seen' = Seen
  BY <1>4 DEF Seen
<1> QED BY <1>2, <1>3, <1>4, <1>5 DEF JournalInv

\* What a reader gets from the files.
LEMMA ReadsFiles ==
  ASSUME JournalInv, NEW since \in Nat
  PROVE  /\ read(segments, since) \in Seq(Rec) /\ InOrder(read(segments, since))
         /\ \A x \in Range(read(segments, since)) : x \in Records(segments) /\ x.secs >= since
<1>1. TwoFiles(segments) /\ FilesInOrder(segments)
  BY DEF JournalInv, FilesTo
<1> DEFINE q == read(segments, since)
<1>2. q \in Seq(Rec) /\ InOrder(q) /\ Range(q) = {x \in Records(segments) : x.secs >= since}
  BY <1>1, ReadIs
<1> HIDE DEF q
<1>3. \A x \in Range(q) : x \in Records(segments) /\ x.secs >= since
  BY <1>2
<1> QED BY <1>2, <1>3 DEF q

LEMMA StartFollowKeeps == ASSUME JournalInv, StartFollow PROVE JournalInv'
<1>1. PICK n \in {1, MaxPieces} :
        follow' = [running |-> TRUE, since |-> Since(0, tail(read(segments, 0), n)),
                   shown |-> tail(read(segments, 0), n)]
  BY DEF StartFollow
<1> DEFINE all == read(segments, 0)
           recs == tail(all, n)
<1>2. n \in Nat /\ n > 0
  OBVIOUS
<1>3. all \in Seq(Rec) /\ InOrder(all) /\ \A x \in Range(all) : x \in Records(segments) /\ x.secs >= 0
  BY ReadsFiles
<1> HIDE DEF all
<1>4. recs \in Seq(Rec) /\ InOrder(recs) /\ \A x \in Range(recs) : x \in Range(all)
  BY <1>2, <1>3, TailIs
<1>5. \A x \in Range(recs) : x \in Records(segments) /\ x.secs >= 0
  BY <1>3, <1>4
<1>6. follow' = [running |-> TRUE, since |-> Since(0, recs), shown |-> recs]
  BY <1>1 DEF all
<1> HIDE DEF recs
<1>7. Seen \in Nat /\ secs \in Nat /\ FilesTo(segments, Seen, secs)
  BY DEF JournalInv
<1>8. FollowTo(<<>>, 0, segments, Seen, secs)
  BY <1>7, NothingShown
<1>9. FollowTo(<<>> \o recs, Since(0, recs), segments, Seen, secs)
  BY <1>4, <1>5, <1>7, <1>8, ShowMore
<1>10. <<>> \o recs = recs
  BY <1>4
<1>11. /\ FollowTo(follow'.shown, follow'.since, segments, Seen, secs)
       /\ follow' \in [running : BOOLEAN, since : Nat, shown : Seq(Rec)]
  <2>1. FollowTo(recs, Since(0, recs), segments, Seen, secs)
    BY <1>9, <1>10
  <2>2. recs \in Seq(Rec) /\ Since(0, recs) \in Nat
    BY <2>1 DEF FollowTo
  <2>3. follow'.shown = recs /\ follow'.since = Since(0, recs)
    BY <1>6
  <2> QED BY <1>6, <2>1, <2>2, <2>3
<1>12. UNCHANGED <<pipe, written, open, dropped, ring, segments, secs>>
  BY DEF StartFollow
<1>13. Seen' = Seen
  BY <1>12 DEF Seen
<1> QED BY <1>11, <1>12, <1>13 DEF JournalInv

LEMMA PollFollowKeeps == ASSUME JournalInv, PollFollow PROVE JournalInv'
<1> DEFINE shown == follow.shown
           since == follow.since
           recs == read(segments, since)
<1>1. follow \in [running : BOOLEAN, since : Nat, shown : Seq(Rec)]
  BY DEF JournalInv
<1>2. follow' = [follow EXCEPT !.since = Since(since, recs), !.shown = shown \o recs]
  BY DEF PollFollow
<1>3. since \in Nat /\ shown \in Seq(Rec)
  BY <1>1
<1>4. FollowTo(shown, since, segments, Seen, secs) /\ Seen \in Nat /\ secs \in Nat /\ FilesTo(segments, Seen, secs)
  BY DEF JournalInv
<1> HIDE DEF since, shown
<1>5. recs \in Seq(Rec) /\ InOrder(recs) /\ \A x \in Range(recs) : x \in Records(segments) /\ x.secs >= since
  BY <1>3, ReadsFiles
<1> HIDE DEF recs
<1>6. FollowTo(shown \o recs, Since(since, recs), segments, Seen, secs)
  BY <1>4, <1>5, ShowMore
<1>7. shown \o recs \in Seq(Rec) /\ Since(since, recs) \in Nat
  BY <1>6 DEF FollowTo
<1>8. /\ follow'.shown = shown \o recs /\ follow'.since = Since(since, recs)
      /\ follow' \in [running : BOOLEAN, since : Nat, shown : Seq(Rec)]
  BY <1>1, <1>2, <1>7
<1>9. UNCHANGED <<pipe, written, open, dropped, ring, segments, secs>>
  BY DEF PollFollow
<1>10. Seen' = Seen
  BY <1>9 DEF Seen
<1> QED BY <1>6, <1>8, <1>9, <1>10 DEF JournalInv

LEMMA JournalStep == ASSUME JournalInv, JournalNext \/ UNCHANGED journalVars PROVE JournalInv'
<1>1. CASE ServiceWrites
  BY <1>1, WriteKeeps
<1>2. CASE ServiceCloses
  <2>1. UNCHANGED <<pipe, written, dropped, ring, segments, secs, follow>> /\ Seen' = Seen
    BY <1>2 DEF ServiceCloses, Seen
  <2>2. open' \in [service : BOOLEAN, manager : BOOLEAN] /\ open'.manager = open.manager
    BY <1>2 DEF JournalInv, ServiceCloses
  <2> QED BY <2>1, <2>2 DEF JournalInv
<1>3. CASE read_stdout
  BY <1>3, StdoutKeeps
<1>4. CASE StopFinishes
  BY <1>4, StopKeeps
<1>5. CASE SecondPasses
  BY <1>5, SecondKeeps
<1>6. CASE clean
  BY <1>6, CleanKeeps
<1>7. CASE StartFollow
  BY <1>7, StartFollowKeeps
<1>8. CASE PollFollow
  BY <1>8, PollFollowKeeps
<1>9. CASE UNCHANGED journalVars
  BY <1>9 DEF JournalInv, journalVars, Seen
<1> QED BY <1>1, <1>2, <1>3, <1>4, <1>5, <1>6, <1>7, <1>8, <1>9 DEF JournalNext

LEMMA JournalKept == ASSUME JournalInv PROVE OutputKept
<1> DEFINE recs == read(segments, 0)
<1>1. TwoFiles(segments) /\ FilesInOrder(segments)
  BY DEF JournalInv, FilesTo
<1>2. /\ recs \in Seq(Rec) /\ Range(recs) = {x \in Records(segments) : x.secs >= 0} /\ InOrder(recs)
      /\ Len(recs) = Len(segments[1]) + Len(segments[0])
  BY <1>1, ReadIs
<1>a. 0 \in 0 .. MaxSegments /\ 1 \in 0 .. MaxSegments
  OBVIOUS
<1>3. segments[0] \in Seq(Rec) /\ segments[1] \in Seq(Rec)
  BY <1>1, <1>a DEF TwoFiles, Files
<1>4. \A x \in Records(segments) : x \in Rec /\ x.secs >= 0
  <2>1. \A x \in Records(segments) : x \in Rec
    BY <1>3 DEF Records, Range
  <2> QED BY <2>1 DEF Rec
<1>5. Range(recs) = Records(segments)
  BY <1>2, <1>4
<1>6. ReadsInOrder
  BY <1>2 DEF ReadsInOrder, Ordered, InOrder, Before
<1>7. NoHole
  <2> DEFINE pieces == UNION {r.text : r \in Range(recs)}
  <2>1. pieces = Pieces(segments)
    BY <1>5 DEF Pieces
  <2>2. \A i \in pieces : i .. Seen \subseteq pieces
    <3>1. NoGap(Pieces(segments), Seen)
      BY DEF JournalInv, FilesTo
    <3> HIDE DEF pieces
    <3> QED BY <2>1, <3>1 DEF NoGap
  <2>3. segments[1] # NoFile => Len(recs) > SegmentRecords
    <3>1. segments[1] # <<>> => Len(segments[1]) >= SegmentRecords /\ segments[0] # <<>>
      BY DEF JournalInv, FilesTo
    <3>2. segments[0] # <<>> => Len(segments[0]) > 0
      BY <1>3
    <3>3. Len(segments[0]) \in Nat /\ Len(segments[1]) \in Nat
      BY <1>3
    <3>4. Len(recs) = Len(segments[1]) + Len(segments[0])
      BY <1>2
    <3>5. SegmentRecords \in Nat
      OBVIOUS
    <3> DEFINE old == Len(segments[1])
               new == Len(segments[0])
               both == Len(recs)
    <3>6. /\ segments[1] # <<>> => old >= SegmentRecords /\ new > 0
          /\ old \in Nat /\ new \in Nat /\ both = old + new
      BY <3>1, <3>2, <3>3, <3>4
    <3> HIDE DEF old, new, both
    <3>7. segments[1] # <<>> => both > SegmentRecords
      BY <3>5, <3>6
    <3> QED BY <3>7 DEF NoFile, both
  <2> QED BY <2>2, <2>3 DEF NoHole
<1>8. FollowsOnce
  BY DEF JournalInv, FollowTo, FollowsOnce, Ordered, InOrder, Before
<1>9. RingIsNewest
  BY DEF JournalInv, RingTo, RingIsNewest, NoGap, Lined
<1> QED BY <1>6, <1>7, <1>8, <1>9 DEF OutputKept

\* However reads of the pipe, rotations, a clean, the end of the service and
\* the polls of a follower follow each other, what was read is there whole, in
\* order and once: in the files, in the ring and in what the follower showed
\* (read_stdout, append, rotate, push_chunk, cmd_journal).
THEOREM OutputKeptCorrect == Spec => []OutputKept
<1>1. Init => JournalInv
  BY JournalStarts DEF Init
<1>2. JournalInv /\ [Next]_sourceVars => JournalInv'
  BY JournalStep, NextOfSource
<1>3. JournalInv => OutputKept
  BY JournalKept
<1>4. QED
  BY <1>1, <1>2, <1>3, PTL DEF Spec

-----------------------------------------------------------------------------
(* The bus: the name watch.                                                *)

\* A name is awaited by a unit that still has to be started or stopped: when it
\* becomes active or is down its watch is gone, or its start has timed out
WatchInv ==
  /\ lastpid \in Nat /\ alive \subseteq 1 .. lastpid
  /\ unit = State(unit.active, unit.sub, unit.main_pid)
  /\ pending \in BOOLEAN
  /\ unit.active = "inactive" => unit.main_pid = 0
  /\ unit.active \in {"inactive", "activating", "active", "deactivating", "failed"}
  /\ unit.active \in {"inactive", "active", "failed"} => ~pending \/ timedout
  /\ unit.active = "activating" => WaitsForName \/ ~pending \/ timedout

LEMMA StateFields ==
  \A active, sub, pid : /\ State(active, sub, pid).active = active
                        /\ State(active, sub, pid).sub = sub
                        /\ State(active, sub, pid).main_pid = pid
  BY DEF State

LEMMA WatchInit == ASSUME BusInit PROVE WatchInv
  BY DEF BusInit, WatchInv, WaitsForName, State

\* A new process waits for its name
LEMMA SpawnWatches == ASSUME WatchInv, Spawn PROVE WatchInv'
  BY DEF WatchInv, Spawn, WaitsForName, State

\* Stopping leaves the watch to the exit of the process, if there is one
LEMMA StopShape ==
  ASSUME WatchInv, StopService
  PROVE  /\ UNCHANGED <<lastpid, alive, timedout>>
         /\ \/ unit' = State("deactivating", "stop-sigterm", unit.main_pid) /\ UNCHANGED pending
            \/ unit' = State("inactive", "dead", 0) /\ pending' = FALSE
<1>1. CASE unit.main_pid = 0
  BY <1>1 DEF StopService, Released, Release
<1>2. CASE unit.main_pid # 0
  <2>1. unit' = [unit EXCEPT !.active = "deactivating", !.sub = "stop-sigterm"]
    BY <1>2 DEF StopService
  <2>2. unit' = State("deactivating", "stop-sigterm", unit.main_pid)
    BY <2>1 DEF WatchInv, State
  <2>3. QED
    BY <1>2, <2>2 DEF StopService
<1>3. QED
  BY <1>1, <1>2

LEMMA StopWatches == ASSUME WatchInv, StopService PROVE WatchInv'
<1>1. CASE unit' = State("deactivating", "stop-sigterm", unit.main_pid) /\ UNCHANGED pending
  BY <1>1, StopShape DEF WatchInv, WaitsForName, State
<1>2. CASE unit' = State("inactive", "dead", 0) /\ pending' = FALSE
  BY <1>2, StopShape DEF WatchInv, WaitsForName, State
<1>3. QED
  BY <1>1, <1>2, StopShape

LEMMA ExitWatches == ASSUME WatchInv, NEW p, NEW ok \in BOOLEAN, Exits(p, ok) PROVE WatchInv'
<1>1. MainExit(ok) /\ UNCHANGED <<lastpid, timedout>>
  BY DEF Exits
<1>2. alive' \subseteq 1 .. lastpid'
  BY DEF Exits, WatchInv
<1>3. CASE unit.active \in {"deactivating", "activating"}
  <2>1. pending' = FALSE
    BY <1>1, <1>3 DEF MainExit, Released, Release
  <2>2. PICK active \in {"inactive", "failed"}, sub \in {"dead", "failed"} : unit' = State(active, sub, 0)
    BY <1>1, <1>3 DEF MainExit
  <2>3. unit'.active = active /\ unit'.sub = sub /\ unit'.main_pid = 0
    BY <2>2, StateFields
  <2>4. unit' = State(unit'.active, unit'.sub, unit'.main_pid)
    BY <2>2, <2>3
  <2>5. QED
    BY <1>1, <1>2, <2>1, <2>3, <2>4 DEF WatchInv, WaitsForName
<1>4. CASE unit.active \notin {"deactivating", "activating"}
  BY <1>1, <1>2, <1>4 DEF MainExit, WatchInv, WaitsForName, State
<1>5. QED
  BY <1>3, <1>4

LEMMA WatchStep == ASSUME WatchInv, [BusNext]_busVars PROVE WatchInv'
<1>1. CASE Start
  BY <1>1, SpawnWatches DEF Start
<1>2. CASE Stop
  BY <1>2, StopWatches DEF Stop
<1>3. ASSUME NEW p, NEW ok \in BOOLEAN, Exits(p, ok) PROVE WatchInv'
  BY <1>3, ExitWatches
<1>4. CASE StartTimeout
  BY <1>4 DEF StartTimeout, WatchInv, WaitsForName, State
<1>5. ASSUME NEW p \in 1 .. MaxStarts, TakesName(p) PROVE WatchInv'
  BY <1>5 DEF TakesName, WatchInv, WaitsForName, State
<1>6. CASE GivesItUp \/ Reload
  BY <1>6 DEF GivesItUp, Reload, WatchInv, WaitsForName, State
<1>7. CASE TakeWatch \/ PollName \/ ApplySnapshot \/ Call \/ CallTimesOut \/ DrainBegins
  <2>1. UNCHANGED unitVars
    BY <1>7 DEF TakeWatch, PollName, ApplySnapshot, Call, CallTimesOut, DrainBegins
  <2>2. QED
    BY <2>1 DEF unitVars, WatchInv, WaitsForName, State
<1>8. CASE HandleOp
  <2>1. CASE UNCHANGED <<unit, lastpid, alive, timedout, pending>>
    BY <2>1 DEF WatchInv, WaitsForName, State
  <2>2. CASE Spawn
    BY <2>2, SpawnWatches
  <2>3. CASE StopService
    BY <2>3, StopWatches
  <2>4. QED
    BY <1>8, <2>1, <2>2, <2>3 DEF HandleOp, unitVars
<1>9. CASE HandleEvent
  BY <1>9 DEF HandleEvent, still_activating, WatchInv, WaitsForName, State
<1>10. CASE UNCHANGED busVars
  BY <1>10 DEF busVars, unitVars, WatchInv, WaitsForName, State
<1>11. QED
  BY <1>1, <1>2, <1>3, <1>4, <1>5, <1>6, <1>7, <1>8, <1>9, <1>10 DEF BusNext

\* Only a name event makes the unit active
LEMMA ActiveByName ==
  ASSUME WatchInv, [BusNext]_busVars, unit'.active = "active", unit.active # "active"
  PROVE  pending /\ unit.active = "activating"
<1>1. ASSUME NEW p, NEW ok \in BOOLEAN, Exits(p, ok) PROVE unit'.active # "active"
  BY <1>1 DEF Exits, MainExit, State
<1>2. ASSUME StopService PROVE unit'.active # "active"
  <2>1. \/ unit' = State("deactivating", "stop-sigterm", unit.main_pid)
       \/ unit' = State("inactive", "dead", 0)
    BY <1>2, StopShape
  <2>2. State("deactivating", "stop-sigterm", unit.main_pid).active # "active"
    BY StateFields
  <2>3. State("inactive", "dead", 0).active # "active"
    BY StateFields
  <2>4. QED
    BY <2>1, <2>2, <2>3
<1>3. Spawn => unit'.active # "active"
  BY DEF Spawn, State
<1>4. StartTimeout => unit'.active # "active"
  BY DEF StartTimeout, State, WatchInv
<1>5. HandleOp => unit'.active # "active"
  BY <1>2, <1>3 DEF HandleOp, unitVars
<1>6. HandleEvent => pending /\ unit.active = "activating"
  BY DEF HandleEvent, still_activating
<1>7. UNCHANGED unit => FALSE
  OBVIOUS
<1>8. QED
  BY <1>1, <1>2, <1>3, <1>4, <1>5, <1>6, <1>7
  DEF BusNext, Start, Stop, Reload, TakesName, GivesItUp, TakeWatch, PollName,
      ApplySnapshot, Call, CallTimesOut, DrainBegins, busVars, unitVars

\* A name, however long its event was under way, makes no unit active that does
\* not wait for it, unless its start once timed out (main_exit, finalize_stop and
\* handle_dbus_event release the watch).
THEOREM NotRevivedCorrect == BusSpec => NotRevived
<1>1. BusInit => WatchInv
  BY WatchInit
<1>2. WatchInv /\ [BusNext]_busVars => WatchInv'
  BY WatchStep
<1>3. WatchInv /\ [BusNext]_busVars =>
        [unit'.active = "active" /\ unit.active # "active" => WaitsForName \/ timedout]_busVars
  BY ActiveByName DEF WatchInv
<1>4. QED
  BY <1>1, <1>2, <1>3, PTL DEF BusSpec, NotRevived

-----------------------------------------------------------------------------
(* Method calls.                                                           *)

Requests == [id : Nat, op : Ops, uid : {"manager", "root", "other"}]
Calls == [id : Nat, op : Ops \cup {"none"}, got : Ops \cup {"none"},
          st : {"none", "sent", "denied", "timeout", "answered"}]

\* Requests are numbered as they are sent; the one that has the number of the
\* newest call is its own
CallInv ==
  /\ commands \in Seq(Requests)
  /\ call \in Calls
  /\ turn \in [commands : 0 .. Len(commands), events : Nat]
  /\ \A i, j \in DOMAIN commands : i # j => commands[i].id # commands[j].id
  /\ \A i \in DOMAIN commands :
       /\ commands[i].id <= call.id
       /\ call.st = "sent" /\ commands[i].id = call.id => commands[i].op = call.op
  /\ CallsInOrder

LEMMA CallInit == ASSUME BusInit PROVE CallInv
<1>1. commands = <<>> /\ Len(commands) = 0 /\ DOMAIN commands = {}
  BY DEF BusInit
<1>2. QED
  BY <1>1 DEF BusInit, CallInv, CallsInOrder, OnlyAllowedRun, AnswerIsOwn, NoCall, Calls, Requests

\* A request is appended under a fresh number
LEMMA AppendNewest ==
  ASSUME NEW cs \in Seq(Requests), NEW req \in Requests,
         \A i \in DOMAIN cs : cs[i].id < req.id,
         \A i, j \in DOMAIN cs : i # j => cs[i].id # cs[j].id
  PROVE  LET ds == Append(cs, req) IN
         /\ ds \in Seq(Requests) /\ Len(ds) = Len(cs) + 1
         /\ \A i \in DOMAIN ds : (i \in DOMAIN cs /\ ds[i] = cs[i]) \/ ds[i] = req
         /\ \A i, j \in DOMAIN ds : i # j => ds[i].id # ds[j].id
<1> DEFINE ds == Append(cs, req)
<1>1. ds \in Seq(Requests) /\ Len(ds) = Len(cs) + 1 /\ Len(cs) \in Nat
  OBVIOUS
<1>2. DOMAIN cs = 1 .. Len(cs) /\ DOMAIN ds = 1 .. Len(cs) + 1
  BY <1>1
<1>3. \A i \in DOMAIN cs : ds[i] = cs[i]
  BY <1>1, <1>2
<1>4. ds[Len(cs) + 1] = req
  BY <1>1
<1>5. \A i \in DOMAIN ds : i \in DOMAIN cs \/ i = Len(cs) + 1
  BY <1>1, <1>2
<1>6. \A i \in DOMAIN cs : cs[i].id # req.id
  <2>1. \A i \in DOMAIN cs : cs[i] \in Requests
    BY <1>2
  <2>2. \A r \in Requests : r.id \in Nat
    BY DEF Requests
  <2>3. QED
    BY <2>1, <2>2
<1> HIDE DEF ds
<1>7. \A i, j \in DOMAIN ds : i # j => ds[i].id # ds[j].id
  BY <1>3, <1>4, <1>5, <1>6
<1>8. QED
  BY <1>1, <1>3, <1>4, <1>5, <1>7 DEF ds

LEMMA CallSent == ASSUME CallInv, Call PROVE CallInv'
<1>1. PICK op \in Ops, uid \in {"manager", "other"} :
        LET sent == op \notin Mutating \/ uid_allowed(uid) IN
        /\ call' = [id |-> call.id + 1, op |-> op, got |-> "none",
                    st |-> IF sent THEN "sent" ELSE "denied"]
        /\ commands' = IF sent THEN Append(commands, [id |-> call.id + 1, op |-> op, uid |-> uid])
                       ELSE commands
  BY DEF Call
<1> DEFINE req == [id |-> call.id + 1, op |-> op, uid |-> uid]
<1>2. call.id \in Nat /\ commands \in Seq(Requests)
  BY DEF CallInv, Calls
<1>3. req \in Requests /\ req.id = call.id + 1 /\ req.op = op /\ req.uid = uid
  BY <1>2 DEF Requests
<1>4. /\ call' \in Calls /\ call'.id = call.id + 1 /\ call'.op = op
      /\ call'.st \in {"sent", "denied"}
  BY <1>1, <1>2 DEF Calls
<1>5. \A i \in DOMAIN commands : commands[i].id <= call.id /\ commands[i].id \in Nat
  <2>1. \A i \in DOMAIN commands : commands[i] \in Requests
    BY <1>2
  <2>2. QED
    BY <2>1 DEF CallInv, Requests
<1>6. \A i \in DOMAIN commands : commands[i].id < call'.id
  BY <1>2, <1>4, <1>5
<1>7. UNCHANGED turn /\ turn \in [commands : 0 .. Len(commands), events : Nat]
  BY DEF Call, CallInv
<1> HIDE DEF req
<1>8. CASE commands' = commands
  <2>1. \A i \in DOMAIN commands : /\ commands[i].id <= call'.id
                                   /\ commands[i].id # call'.id
    BY <1>2, <1>4, <1>5, <1>6
  <2>2. QED
    BY <1>4, <1>7, <1>8, <2>1 DEF CallInv, CallsInOrder, OnlyAllowedRun, AnswerIsOwn
<1>9. CASE commands' = Append(commands, req) /\ (op \notin Mutating \/ uid_allowed(uid))
  <2>1. /\ commands' \in Seq(Requests) /\ Len(commands') = Len(commands) + 1
        /\ \A i \in DOMAIN commands' :
             (i \in DOMAIN commands /\ commands'[i] = commands[i]) \/ commands'[i] = req
        /\ \A i, j \in DOMAIN commands' : i # j => commands'[i].id # commands'[j].id
    <3>1. \A i \in DOMAIN commands : commands[i].id < req.id
      BY <1>3, <1>4, <1>6
    <3>2. \A i, j \in DOMAIN commands : i # j => commands[i].id # commands[j].id
      BY DEF CallInv
    <3>3. QED
      BY <1>2, <1>3, <1>9, <3>1, <3>2, AppendNewest
  <2>2. turn' \in [commands : 0 .. Len(commands'), events : Nat]
    <3>1. Len(commands) \in Nat
      BY <1>2
    <3>2. QED
      BY <1>7, <2>1, <3>1
  <2>3. \A i \in DOMAIN commands' :
          /\ commands'[i].id <= call'.id
          /\ commands'[i].id = call'.id => commands'[i].op = call'.op
    BY <1>2, <1>3, <1>4, <1>5, <1>6, <2>1, SMTT(30)
  <2>4. OnlyAllowedRun'
    <3>1. req.op \in Mutating => req.uid \in {"manager", "root"}
      BY <1>3, <1>9 DEF uid_allowed
    <3>2. QED
      BY <2>1, <3>1 DEF CallInv, CallsInOrder, OnlyAllowedRun
  <2>5. QED
    BY <1>4, <2>1, <2>2, <2>3, <2>4 DEF CallInv, CallsInOrder, AnswerIsOwn
<1>10. QED
  BY <1>1, <1>8, <1>9 DEF req

\* A served request either answers the newest call or had lost its caller
LEMMA CallServed == ASSUME CallInv, HandleOp PROVE CallInv'
<1> USE DEF CallInv, CallsInOrder, OnlyAllowedRun, AnswerIsOwn
<1>1. /\ Len(commands) > 0 /\ commands' = Tail(commands)
      /\ turn' = [turn EXCEPT !.commands = @ - 1] /\ Answer(Head(commands))
      /\ Head(commands) = commands[1]
  BY DEF HandleOp
<1>2. commands' \in Seq(Requests) /\ Len(commands') = Len(commands) - 1
  BY <1>1
<1>3. \A i \in DOMAIN commands' : i + 1 \in DOMAIN commands /\ commands'[i] = commands[i + 1]
  BY <1>1, <1>2
<1>4. turn' \in [commands : 0 .. Len(commands'), events : Nat]
  BY <1>1, <1>2 DEF HandleOp
<1>5. \A i, j \in DOMAIN commands' : i # j => commands'[i].id # commands'[j].id
  BY <1>2, <1>3
<1>6. \A i \in DOMAIN commands' : commands'[i].id # commands[1].id
  BY <1>1, <1>2, <1>3
<1>7. commands[1] \in Requests
  BY <1>1
<1>8. CASE call.st = "sent" /\ commands[1].id = call.id
  <2>1. commands[1].op = call.op /\ call.op \in Ops
    BY <1>1, <1>7, <1>8 DEF Requests
  <2>2. call' \in Calls /\ call'.id = call.id /\ call'.op = call.op /\ call'.st = "answered"
        /\ call'.got = call.op
    <3>1. call' = [call EXCEPT !.st = "answered", !.got = call.op]
      BY <1>1, <1>8, <2>1 DEF Answer, ReplyTo
    <3> HIDE DEF CallInv
    <3>2. call \in Calls
      BY DEF CallInv
    <3>3. QED
      BY <2>1, <3>1, <3>2 DEF Calls
  <2>3. QED
    BY <1>2, <1>3, <1>4, <1>5, <1>6, <1>8, <2>2
<1>9. CASE ~(call.st = "sent" /\ commands[1].id = call.id)
  <2>1. call' = call
    BY <1>1, <1>9 DEF Answer, ReplyTo
  <2>2. QED
    BY <1>2, <1>3, <1>4, <1>5, <2>1, SMTT(30)
<1>10. QED
  BY <1>8, <1>9

LEMMA CallStep == ASSUME CallInv, [BusNext]_busVars PROVE CallInv'
<1>1. CASE Call
  BY <1>1, CallSent
<1>2. CASE HandleOp
  BY <1>2, CallServed
<1>3. CASE CallTimesOut
  <2>1. call' \in Calls /\ call'.id = call.id /\ call'.st = "timeout"
    BY <1>3 DEF CallTimesOut, CallInv, Calls
  <2>2. QED
    BY <1>3, <2>1 DEF CallTimesOut, CallInv, CallsInOrder, OnlyAllowedRun, AnswerIsOwn
<1>4. CASE DrainBegins \/ HandleEvent
  <2>1. UNCHANGED <<commands, call>> /\ turn' \in [commands : 0 .. Len(commands), events : Nat]
    BY <1>4 DEF DrainBegins, HandleEvent, CallInv
  <2>2. QED
    BY <2>1 DEF CallInv, CallsInOrder, OnlyAllowedRun, AnswerIsOwn
<1>5. CASE UNCHANGED callVars
  BY <1>5 DEF callVars, CallInv, CallsInOrder, OnlyAllowedRun, AnswerIsOwn
<1>6. QED
  BY <1>1, <1>2, <1>3, <1>4, <1>5
  DEF BusNext, Start, Stop, StartTimeout, Exits, TakesName, GivesItUp, Reload,
      TakeWatch, PollName, ApplySnapshot, busVars

\* However many calls timed out and left their requests behind, a caller is
\* answered about its own, and only what was allowed is queued (authorize, the
\* reply channel of a request).
THEOREM CallsInOrderCorrect == BusSpec => []CallsInOrder
<1>1. BusInit => CallInv
  BY CallInit
<1>2. CallInv /\ [BusNext]_busVars => CallInv'
  BY CallStep
<1>3. CallInv => CallsInOrder
  BY DEF CallInv
<1>4. QED
  BY <1>1, <1>2, <1>3, PTL DEF BusSpec
=============================================================================
