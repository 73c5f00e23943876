----------------------------- MODULE SocketUnits -----------------------------
(***************************************************************************)
(* .socket units: listeners bound by the manager, polled while the service   *)
(* they activate is inactive, and handed to it when it starts.  A listener   *)
(* is known by the number of the bind that made it.                          *)
(***************************************************************************)
EXTENDS Naturals, Sequences, FiniteSets, SequencesExt, FiniteSetsExt

CONSTANTS
  Sockets,       \* .socket units, all of one service
  Listen,        \* per unit its specs: [type, kind, addr], in the order they are bound
  MaxBinds,      \* bound: binds that succeed
  MaxConns       \* bound: connections waiting on a listener

ASSUME SocketsAssumption ==
  /\ MaxBinds \in Nat /\ MaxConns \in Nat
  /\ Listen \in [Sockets -> Seq([type : STRING, kind : STRING, addr : STRING])]

VARIABLES
  socket_units,  \* "inactive", "active", "failed", or "reset": inactive by reset-failed
  listeners,     \* the open ones: number |-> [unit, spec, waiting]
  binds,         \* how many binds succeeded
  files,         \* per path the listener its socket file leads to, 0 for none
  service,       \* "inactive", "running", "restarting" or "failed"
  handed,        \* the open listeners the running service was given
  late           \* units started while their service ran

socketsVars == <<socket_units, listeners, binds, files, service, handed, late>>

Addrs == {sp.addr : sp \in UNION {Range(Listen[s]) : s \in Sockets}}

SocketsInit ==
  /\ socket_units = [s \in Sockets |-> "inactive"]
  /\ listeners = <<>> /\ binds = 0
  /\ files = [a \in Addrs |-> 0]
  /\ service = "inactive" /\ handed = {} /\ late = {}

Of(ls, s) == {l \in DOMAIN ls : ls[l].unit = s}
Without(ls, gone) == [l \in DOMAIN ls \ gone |-> ls[l]]

-----------------------------------------------------------------------------
(* Binding.                                                                *)

\* What a spec can be bound as: abstract sockets never, anything but a path
\* for a datagram or seqpacket socket neither, nor an unknown netlink family
Supported(sp) ==
  CASE sp.type = "stream" -> sp.kind \in {"path", "port"}
    [] sp.type = "netlink" -> sp.kind = "family"
    [] OTHER -> sp.kind = "path"

\* A port is free when the manager does not listen on it; a path is taken over
Free(s, i, ls) ==
  LET addr == Listen[s][i].addr IN
  \/ Listen[s][i].kind # "port"
  \/ /\ \A l \in DOMAIN ls : ls[l].spec.addr # addr
     /\ \A j \in 1 .. i - 1 : Listen[s][j].addr # addr

\* start_socket binds until a spec fails; how many that makes
Bound(s, ls, refused) ==
  LET fails == {i \in DOMAIN Listen[s] :
                  \/ ~Supported(Listen[s][i]) \/ ~Free(s, i, ls)
                  \/ Listen[s][i].addr \in refused} IN
  IF fails = {} THEN Len(Listen[s]) ELSE Min(fails) - 1

\* The old socket file goes before the bind is tried, so also when that fails
FileAfter(s, k, a) ==
  LET tried == {i \in DOMAIN Listen[s] : /\ i <= k + 1 /\ Listen[s][i].addr = a
                                        /\ Listen[s][i].kind = "path" /\ Supported(Listen[s][i])} IN
  IF tried = {} THEN files[a] ELSE IF Max(tried) > k THEN 0 ELSE binds + Max(tried)

\* What it bound is kept, whether the unit starts or fails
start_socket(s, k, ls) ==
  /\ binds + k <= MaxBinds
  /\ binds' = binds + k
  /\ listeners' = [l \in DOMAIN ls \cup (binds + 1 .. binds + k) |->
                     IF l > binds THEN [unit |-> s, spec |-> Listen[s][l - binds], waiting |-> 0]
                     ELSE ls[l]]
  /\ files' = [a \in Addrs |-> FileAfter(s, k, a)]
  /\ socket_units' = [socket_units EXCEPT ![s] = IF k = Len(Listen[s]) THEN "active" ELSE "failed"]

\* Without socket activation nothing is bound
StartDisabled(s) ==
  /\ socket_units' = [socket_units EXCEPT ![s] = "active"]
  /\ UNCHANGED <<listeners, binds, files>>

\* A bind may fail of itself: no permission, another program has the port
Refusals == {{}} \cup {{a} : a \in Addrs}

\* Mutant: only one of them
CloseFirst(s, ls) == Without(ls, {l \in Of(ls, s) : \A k \in Of(ls, s) : l <= k})

\* stop_socket closes the unit's listeners
stop_socket(s, ls) == Without(ls, Of(ls, s))

-----------------------------------------------------------------------------

StartSocket(s) ==
  /\ socket_units[s] # "active"
  /\ \/ \E k \in {Bound(s, listeners, refused) : refused \in Refusals} : start_socket(s, k, listeners)
     \/ StartDisabled(s)
  /\ late' = IF service = "inactive" THEN late \ {s} ELSE late \cup {s}
  /\ UNCHANGED <<service, handed>>

StopSocket(s) ==
  /\ socket_units[s] = "active"
  /\ socket_units' = [socket_units EXCEPT ![s] = "inactive"]
  /\ listeners' = stop_socket(s, listeners)
  /\ handed' = handed \ Of(listeners, s)
  /\ UNCHANGED <<binds, files, service, late>>

\* Mutant: only the socket unit
ServiceKept(state) == state

\* restart goes on to the service when that is up
ServiceToo(state) == IF state = "running" THEN "restarting" ELSE state

RestartSocket(s) ==
  /\ socket_units[s] = "active"
  /\ LET ls == stop_socket(s, listeners) IN
     \E k \in {Bound(s, ls, refused) : refused \in Refusals} : start_socket(s, k, ls)
  /\ service' = ServiceToo(service)
  /\ late' = late \ {s}
  /\ handed' = handed \ Of(listeners, s)

ResetFailedSocket(s) ==
  /\ socket_units[s] = "failed"
  /\ socket_units' = [socket_units EXCEPT ![s] = "reset"]
  /\ UNCHANGED <<listeners, binds, files, service, handed, late>>

\* A client reaches a port by its number and a path by its file; a seqpacket
\* socket refuses it, since nobody called listen on it
ClientConnects(l) ==
  /\ l \in DOMAIN listeners
  /\ listeners[l].waiting < MaxConns
  /\ listeners[l].spec.kind = "path" => files[listeners[l].spec.addr] = l
  /\ listeners[l].spec.type # "seqpacket"
  /\ listeners' = [listeners EXCEPT ![l].waiting = @ + 1]
  /\ UNCHANGED <<socket_units, binds, files, service, handed, late>>

\* Mutant: the first listener of a unit only
PolledFirst(l) ==
  service = "inactive" /\ \A k \in Of(listeners, listeners[l].unit) : l <= k

\* The listeners in the poll set: those of an inactive service
Polled(l) == service = "inactive"

\* socket_fds_for: every listener of the service goes with it
Run == service' = "running" /\ handed' = DOMAIN listeners

Trigger(l) ==
  /\ l \in DOMAIN listeners /\ Polled(l) /\ listeners[l].waiting > 0
  /\ Run
  /\ late' = {}
  /\ UNCHANGED <<socket_units, listeners, binds, files>>

\* The service is started for another reason, or again by its restart job
ServiceStarts ==
  /\ service \in {"inactive", "failed", "restarting"}
  /\ Run
  /\ late' = {}
  /\ UNCHANGED <<socket_units, listeners, binds, files>>

ServiceAccepts(l) ==
  /\ service = "running" /\ l \in handed
  /\ listeners[l].waiting > 0
  /\ listeners' = [listeners EXCEPT ![l].waiting = @ - 1]
  /\ UNCHANGED <<socket_units, binds, files, service, handed, late>>

ServiceEnds ==
  /\ service = "running"
  /\ service' \in {"inactive", "failed"}
  /\ handed' = {}
  /\ UNCHANGED <<socket_units, listeners, binds, files, late>>

SocketsNext ==
  \/ \E s \in Sockets : StartSocket(s) \/ StopSocket(s) \/ RestartSocket(s) \/ ResetFailedSocket(s)
  \/ \E l \in 1 .. MaxBinds : ClientConnects(l) \/ Trigger(l) \/ ServiceAccepts(l)
  \/ ServiceStarts \/ ServiceEnds

-----------------------------------------------------------------------------
(* Properties.                                                             *)

\* A listener that is open belongs to an active unit, or to one whose start
\* failed at a later spec and kept it (start_socket), reset-failed or not; a
\* stop, however often the unit failed before, leaves none (stop_socket).
ListenersAccounted ==
  \A l \in DOMAIN listeners : socket_units[listeners[l].unit] # "inactive"

\* While the service runs, it has every listener of an active unit, unless
\* that unit was started after it: a restart of a socket unit reaches the
\* service (restart), so no connection waits where nobody accepts.
NoDeafListener ==
  service = "running" =>
    \A l \in DOMAIN listeners :
      socket_units[listeners[l].unit] = "active" => l \in handed \/ listeners[l].unit \in late

\* Every open listener has a unit to close it and somebody to accept from it.
ListenersServed == ListenersAccounted /\ NoDeafListener

Waiting == \E l \in DOMAIN listeners : listeners[l].waiting > 0

\* A connection that waits while the service is inactive starts it, unless the
\* listener is closed first (the poll set and the loop's call of start),
\* whichever unit it is for and in whatever state that unit is.
ConnectionActivates == (Waiting /\ service = "inactive") ~> (~Waiting \/ service # "inactive")
=============================================================================
