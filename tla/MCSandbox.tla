------------------------------ MODULE MCSandbox ------------------------------
(***************************************************************************)
(* Instances of Sandbox: unit files that set up to two directives, and a   *)
(* few whole units.                                                        *)
(***************************************************************************)
EXTENDS Sandbox

NoFilter == [deny |-> FALSE, names |-> {}]
NoFamily == [deny |-> FALSE, names |-> {}, all |-> FALSE]
NoCaps   == [invert |-> FALSE, names |-> {}]

Plain ==
  [NoNewPrivileges |-> "", PrivateTmp |-> "", PrivateDevices |-> "",
   RestrictRealtime |-> "", LockPersonality |-> "", RestrictSUIDSGID |-> "",
   MemoryDenyWriteExecute |-> "", ProtectHome |-> "", ProtectSystem |-> "",
   ReadOnlyPaths |-> <<>>, CapabilityBoundingSet |-> NoCaps,
   AmbientCapabilities |-> {}, SystemCallFilter |-> NoFilter,
   RestrictAddressFamilies |-> NoFamily]

Setup == {"@process", "@setuid", "chdir", "umask"}

\* Each directive with the values worth telling apart.
Lines ==
  ({"NoNewPrivileges", "PrivateTmp", "PrivateDevices", "RestrictRealtime",
    "LockPersonality", "RestrictSUIDSGID", "MemoryDenyWriteExecute"} \X {"yes"})
  \cup {<<"PrivateTmp", "bad">>}
  \cup {<<"ProtectHome", v>> : v \in {"read-only", "tmpfs", "bad"}}
  \cup {<<"ProtectSystem", v>> : v \in {"yes", "full", "strict"}}
  \cup {<<"ReadOnlyPaths", <<"/srv", "/absent", "/home/alice">>>>}
  \cup {<<"CapabilityBoundingSet", [invert |-> i, names |-> n]>> :
          i \in BOOLEAN, n \in {{"SETUID"}, {"NO_SUCH"}}}
  \cup {<<"AmbientCapabilities", {"NET_BIND_SERVICE"}>>}
  \cup {<<"SystemCallFilter", [deny |-> TRUE, names |-> n]>> :
          n \in {{"socket"}, {"@setuid", "mmap"}, {"@obsolete", "personality"}, {"no_such"}}}
  \cup {<<"SystemCallFilter", [deny |-> FALSE, names |-> n]>> :
          n \in {{"@basic-io"}, {"@process", "socket"}, {"@unknown"}}}
  \cup {<<"RestrictAddressFamilies", [deny |-> d, names |-> n, all |-> FALSE]>> :
          d \in BOOLEAN, n \in {{"UNIX"}, {"NO_SUCH"}}}
  \cup {<<"RestrictAddressFamilies", [deny |-> d, names |-> {}, all |-> TRUE]>> : d \in BOOLEAN}

With(r, l) == [r EXCEPT ![l[1]] = l[2]]

\* An allow-list disagrees with MemoryDenyWriteExecute= about mmap, and with
\* RestrictRealtime= about the scheduler calls: see README.
Consistent(r) ==
  ~r.SystemCallFilter.deny /\ r.SystemCallFilter.names # {} =>
    /\ r.MemoryDenyWriteExecute = "yes" => {"mmap", "mprotect"} \subseteq r.SystemCallFilter.names
    /\ r.RestrictRealtime = "yes" => "@process" \notin r.SystemCallFilter.names

MCRaws ==
  {r \in {With(With(Plain, a), b) : a, b \in Lines} : Consistent(r)}
  \cup {With([Plain EXCEPT !.SystemCallFilter = [deny |-> FALSE, names |-> Setup \cup x]], l)
          : x \in {{"socket", "mmap", "mprotect"}}, l \in {m \in Lines : m[1] # "SystemCallFilter"
                                                            /\ m[1] # "RestrictRealtime"}}

\* Of these units the compiler gets every filter right.
ASSUME MCDecidable == \A r \in Raws : ParseFails(r) \/ Decidable(parse_sandbox(r))

NoAttr == [User |-> "", Group |-> "", WorkingDirectory |-> "", UMask |-> "", Nice |-> "",
           Limit |-> "", Cgroup |-> FALSE, Listeners |-> <<>>]

MCAttrs ==
  {NoAttr,
   [NoAttr EXCEPT !.User = "alice", !.Group = "staff", !.WorkingDirectory = "/srv",
                  !.UMask = "0077", !.Limit = "64", !.Listeners = <<6, 5, 4>>],
   [NoAttr EXCEPT !.User = "unknown", !.Nice = "5", !.Cgroup = TRUE, !.Listeners = <<9, 5>>],
   [NoAttr EXCEPT !.Nice = "5", !.Cgroup = TRUE, !.Listeners = <<9, 5>>,
                  !.WorkingDirectory = "/home/alice"]}

\* A whole system, and one without some of what the directives name
System == {"/", "/home", "/home/alice", "/root", "/run/user", "/usr", "/etc", "/boot", "/srv",
           "/tmp", "/var/tmp", "/dev"}
MCMachines == {System, System \ {"/run/user", "/var/tmp", "/dev", "/srv"}}

MCInside == {<<"/home/alice", "/home">>}
=============================================================================
