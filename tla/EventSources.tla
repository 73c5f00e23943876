---------------------------- MODULE EventSources ----------------------------
(***************************************************************************)
(* What the event loop watches besides signals, timers and control clients:  *)
(* the output of services, sockets, paths, mounts and devices.  The sources  *)
(* share no state, so a behaviour is about one of them.                      *)
(***************************************************************************)
EXTENDS Journal, Devices, SocketUnits, PathUnits, MountUnits

VARIABLE source

sourceVars == <<source, journalVars, devicesVars, socketsVars, pathsVars, mountsVars>>

\* Of the sources that are not looked at, one initial state
Init ==
  /\ source \in {"journal", "devices", "sockets", "paths", "mounts"}
  /\ JournalInit /\ DevicesInit /\ SocketsInit /\ PathsInit /\ MountsInit
  /\ source # "devices" => present = {}
  /\ source # "paths" => mtimes = [p \in Paths |-> 0]
  /\ source # "mounts" => mount_cfg = {}

Only(src) ==
  /\ source = src /\ UNCHANGED source
  /\ src # "journal" => UNCHANGED journalVars
  /\ src # "devices" => UNCHANGED devicesVars
  /\ src # "sockets" => UNCHANGED socketsVars
  /\ src # "paths" => UNCHANGED pathsVars
  /\ src # "mounts" => UNCHANGED mountsVars

Next ==
  \/ Only("journal") /\ JournalNext
  \/ Only("devices") /\ DevicesNext
  \/ Only("sockets") /\ SocketsNext
  \/ Only("paths") /\ PathsNext
  \/ Only("mounts") /\ MountsNext

\* The loop turns at least once a second: a listener that is ready and a path
\* that fires are not passed over for ever
Spec ==
  /\ Init /\ [][Next]_sourceVars
  /\ WF_socketsVars(Only("sockets") /\ \E l \in 1 .. MaxBinds : Trigger(l))
  /\ WF_pathsVars(Only("paths") /\ poll_paths)
=============================================================================
