------------------------------- MODULE Sandbox -------------------------------
(***************************************************************************)
(* One start of a service process: the sandbox directives of its unit file *)
(* are parsed (unit/mod.rs), planned into operations (platform/sandbox.rs, *)
(* plan), and executed by the forked child between fork and exec           *)
(* (platform/process.rs, spawn), each of whose system calls the kernel may *)
(* refuse.  A filter that is installed applies to the child's own          *)
(* remaining calls too.                                                    *)
(***************************************************************************)
EXTENDS Seccomp

CONSTANTS Raws,        \* the [Service] sections: one value per directive
          Attrs,       \* process attributes of the unit (User=, UMask=, ...)
          Machines,    \* sets of paths: those that exist on one machine or another
          Inside       \* <<path, directory>>: the path lies below the directory

ASSUME RawsAssumption == \A r \in Raws : r.ReadOnlyPaths \in Seq(STRING)

\* The listeners are the keys of a map; 0 to 2 are the standard descriptors.
ASSUME AttrsAssumption ==
  \A a \in Attrs : a.Listeners \in Seq(Nat \ 0..2) /\ IsInjective(a.Listeners)

VARIABLES
  root,      \* the manager runs as root (else it is a user manager)
  healthy,   \* the kernel refuses only what it must
  present,   \* the paths that exist on this machine
  raw, attr, \* the unit being started
  phase,     \* "load", "plan", a step of the child, "running", "failed", "error"
  ops,       \* the operations still to be applied
  child      \* the attributes of the forked child

vars == <<root, healthy, present, raw, attr, phase, ops, child>>

-----------------------------------------------------------------------------
(* parse_sandbox.  A value is "" when the directive is absent.             *)
BoolKeys == {"NoNewPrivileges", "PrivateTmp", "PrivateDevices", "RestrictRealtime",
             "LockPersonality", "RestrictSUIDSGID", "MemoryDenyWriteExecute"}

parse_bool(v) == v = "yes"

parse_protect(v) ==
  CASE v \in {"yes", "read-only"} -> "ReadOnly" [] v = "tmpfs" -> "Tmpfs" [] OTHER -> "No"

parse_protect_system(v) ==
  CASE v = "yes" -> "Yes" [] v = "full" -> "Full" [] v = "strict" -> "Strict" [] OTHER -> "No"

CapNumber == [CHOWN |-> 0, SETUID |-> 7, NET_BIND_SERVICE |-> 10, SYS_ADMIN |-> 21]

cap_number(names) == {CapNumber[n] : n \in names \cap DOMAIN CapNumber}

LAST_CAP == 40

address_family_number == [UNIX |-> 1, INET |-> 2, INET6 |-> 10, NETLINK |-> 16]

\* [deny, names, all]: `~` on any token makes the whole list a deny-list.
parse_address_families(v) ==
  [present |-> v.names # {} \/ v.all, deny |-> v.deny, deny_all |-> v.all,
   families |-> {address_family_number[n] : n \in v.names \cap DOMAIN address_family_number}]

ParseFails(r) ==
  \/ \E k \in BoolKeys : r[k] = "bad"
  \/ r.ProtectHome = "bad" \/ r.ProtectSystem = "bad"
  \/ r.RestrictAddressFamilies.names \ DOMAIN address_family_number # {}
  \/ Unresolvable(r.SystemCallFilter.names)

parse_sandbox(r) ==
  [no_new_privileges |-> parse_bool(r.NoNewPrivileges),
   private_tmp |-> parse_bool(r.PrivateTmp),
   private_devices |-> parse_bool(r.PrivateDevices),
   restrict_realtime |-> parse_bool(r.RestrictRealtime),
   lock_personality |-> parse_bool(r.LockPersonality),
   restrict_suidsgid |-> parse_bool(r.RestrictSUIDSGID),
   memory_deny_write_execute |-> parse_bool(r.MemoryDenyWriteExecute),
   protect_home |-> parse_protect(r.ProtectHome),
   protect_system |-> parse_protect_system(r.ProtectSystem),
   read_only_paths |-> r.ReadOnlyPaths,
   bounding_invert |-> r.CapabilityBoundingSet.invert,
   bounding_set |-> r.CapabilityBoundingSet.names,
   ambient_set |-> r.AmbientCapabilities,
   syscall_deny |-> r.SystemCallFilter.deny,
   syscall_nrs |-> resolve(r.SystemCallFilter.names),
   af |-> parse_address_families(r.RestrictAddressFamilies)]

-----------------------------------------------------------------------------
(* plan: the ordered operations of a configuration.                        *)
need_mountns(c) ==
  c.private_tmp \/ c.private_devices \/ c.protect_home # "No"
  \/ c.protect_system # "No" \/ c.read_only_paths # <<>>

need_seccomp(c) ==
  c.syscall_nrs # {} \/ c.restrict_realtime \/ c.lock_personality
  \/ c.restrict_suidsgid \/ c.af.present \/ c.memory_deny_write_execute

has_sandbox(c) ==
  c.no_new_privileges \/ need_mountns(c) \/ need_seccomp(c)
  \/ c.bounding_invert \/ c.bounding_set # {} \/ c.ambient_set # {}

Op(name, arg)     == [op |-> name, arg |-> arg]
OpsIf(cond, seq)  == IF cond THEN seq ELSE <<>>
Each(name, paths) == [k \in 1..Len(paths) |-> Op(name, paths[k])]

HomePaths == <<"/home", "/root", "/run/user">>

SystemPaths(level) ==
  CASE level = "No"     -> <<>>
    [] level = "Yes"    -> <<"/usr", "/boot", "/efi">>
    [] level = "Full"   -> <<"/usr", "/boot", "/efi", "/etc">>
    [] level = "Strict" -> <<"/">>

\* cap_drop_set: a plain list keeps only what it names, `~` drops it.
cap_drop_set(caps, invert) == IF invert THEN caps ELSE (0..LAST_CAP) \ caps

extra_deny(c) ==
  (IF c.restrict_realtime THEN syscall_nr(RT_DENY) ELSE {})
  \cup (IF c.lock_personality THEN {SYSCALLS.personality} ELSE {})
  \cup (IF c.restrict_suidsgid THEN suidsgid_nrs ELSE {})

\* What build() is called with: no SystemCallFilter= means a deny-list.
FilterOf(c) ==
  [nrs |-> c.syscall_nrs, deny |-> c.syscall_nrs = {} \/ c.syscall_deny,
   extra_deny |-> extra_deny(c), af |-> c.af, wx |-> c.memory_deny_write_execute]

MountOps(c) ==
  OpsIf(need_mountns(c), <<Op("UnshareMount", ""), Op("MakeRprivate", "")>>)
  \o OpsIf(c.private_tmp, Each("MountTmpfs", <<"/tmp", "/var/tmp">>))
  \o OpsIf(c.protect_home = "ReadOnly", Each("BindReadOnly", HomePaths))
  \o OpsIf(c.protect_home = "Tmpfs", Each("MountTmpfs", HomePaths))
  \o Each("BindReadOnly", SystemPaths(c.protect_system))
  \o Each("BindReadOnly", c.read_only_paths)
  \o OpsIf(c.private_devices, <<Op("PrivateDevices", "")>>)

SeccompOpsBare(c) == OpsIf(need_seccomp(c), <<Op("Seccomp", build(FilterOf(c)))>>)

\* Installing a filter needs NoNewPrivileges in a user manager: implied here.
SeccompOps(c) ==
  OpsIf(need_seccomp(c),
        OpsIf(~c.no_new_privileges, <<Op("NoNewPrivileges", "")>>)
        \o <<Op("Seccomp", build(FilterOf(c)))>>)

plan(c) ==
  OpsIf(has_sandbox(c),
    MountOps(c)
    \o OpsIf(c.no_new_privileges, <<Op("NoNewPrivileges", "")>>)
    \o OpsIf(cap_number(c.bounding_set) # {},
             <<Op("CapBoundingDrop", cap_drop_set(cap_number(c.bounding_set), c.bounding_invert))>>)
    \o OpsIf(cap_number(c.ambient_set) # {}, <<Op("AmbientRaise", cap_number(c.ambient_set))>>)
    \o SeccompOps(c))

-----------------------------------------------------------------------------
(* The child.                                                              *)
Forked ==
  [mask |-> "manager", sid |-> FALSE, cgroup |-> FALSE, ns |-> FALSE,
   private |-> FALSE, shadowed |-> {}, readonly |-> {}, devices |-> FALSE,
   nnp |-> FALSE, dropped |-> {}, ambient |-> {}, filter |-> <<>>,
   skipped |-> FALSE, fds |-> [fd \in {} |-> 0], cwd |-> "/", groups |-> "manager",
   gid |-> "manager", uid |-> "manager", umask |-> "manager", nice |-> "manager",
   limits |-> "manager"]

\* May the child's next call of this name get past its own filter?
Permitted(name) ==
  IF child.filter = <<>> THEN TRUE
  ELSE RunFilter(child.filter, [arch |-> "x86_64", nr |-> SYSCALLS[name],
                                arg0 |-> 0, arg2 |-> {}]) = "allow"

\* CAP_SYS_ADMIN and its like: root before the drop, or root of its own
\* user namespace.
Privileged == IF child.ns THEN TRUE ELSE root /\ child.uid = "manager"

\* What the child sees: an empty file system hides what lies below it.  (What
\* PrivateDevices= lays over /dev is taken to have what the unit names there.)
Visible == {p \in present : \A d \in child.shadowed : <<p, d>> \notin Inside}

\* A call that the kernel carries out, and one that it refuses.
Works(possible)   == possible
Refused(possible) == possible => ~healthy

GoTo(p) == phase' = p
Fail    == phase' = "failed" /\ UNCHANGED <<ops, child>>
Keep    == UNCHANGED <<root, healthy, present, raw, attr>>

\* One step of pre_exec whose failure is returned through the exec pipe.
HardStep(here, next, wanted, possible, after) ==
  /\ phase = here /\ Keep
  /\ \/ /\ wanted /\ Works(possible)
        /\ child' = after /\ GoTo(next) /\ UNCHANGED ops
     \/ wanted /\ Refused(possible) /\ Fail
     \/ ~wanted /\ GoTo(next) /\ UNCHANGED <<ops, child>>

\* One whose failure is ignored.
SoftStep(here, next, wanted, possible, after) ==
  /\ phase = here /\ Keep /\ UNCHANGED ops /\ GoTo(next)
  /\ \/ wanted /\ Works(possible) /\ child' = after
     \/ (~wanted \/ Refused(possible)) /\ UNCHANGED child

Init ==
  /\ root \in BOOLEAN /\ healthy \in BOOLEAN /\ present \in Machines
  /\ raw = <<>> /\ attr = <<>>
  /\ phase = "load" /\ ops = <<>> /\ child = Forked

\* load_unit: a directive that does not parse leaves the unit in LoadState
\* Error and nothing is ever started.
Load ==
  /\ phase = "load" /\ raw' \in Raws /\ attr' \in Attrs
  /\ GoTo(IF ParseFails(raw') THEN "error" ELSE "plan")
  /\ UNCHANGED <<root, healthy, present, ops, child>>

\* run_command: User= and Group= are looked up, then the operations planned.
Prepare ==
  /\ phase = "plan" /\ Keep /\ UNCHANGED child
  /\ IF attr.User = "unknown" \/ attr.Group = "unknown"
     THEN GoTo("failed") /\ UNCHANGED ops
     ELSE GoTo("sigmask") /\ ops' = plan(parse_sandbox(raw))

SigMask == HardStep("sigmask", "setsid", TRUE, TRUE, [child EXCEPT !.mask = "empty"])

SetSid == HardStep("setsid", "dup2", TRUE, TRUE, [child EXCEPT !.sid = TRUE])

\* The kernel's view of the listener descriptors: descriptor -> listener.
ListenFds == LET f == attr.Listeners IN [fd \in ToSet(f) |-> fd]

dup2(table, from, to) == [fd \in DOMAIN table \cup {to} |->
                            IF fd = to THEN table[from] ELSE table[fd]]

DupAll(fds) == FoldLeftDomain(LAMBDA t, i : dup2(t, fds[i], 2 + i), ListenFds, fds)

UnsortedFds == attr.Listeners

\* socket_fds_for sorts the descriptors before they are handed to spawn.
socket_fds_for == Asc(ToSet(attr.Listeners))

DupListeners == HardStep("dup2", "cgroup", socket_fds_for # <<>>, TRUE,
                         [child EXCEPT !.fds = DupAll(socket_fds_for)])

JoinCgroup == SoftStep("cgroup", "sandbox", attr.Cgroup, TRUE, [child EXCEPT !.cgroup = TRUE])

-----------------------------------------------------------------------------
(* apply: the planned operations, one action each.                         *)
NextOp(name) == phase = "sandbox" /\ ops # <<>> /\ Head(ops).op = name /\ Keep

Applied(after) == child' = after /\ ops' = Tail(ops) /\ UNCHANGED phase

\* An operation whose failure aborts the spawn.
HardOp(possible, after) ==
  \/ Works(possible) /\ Applied(after)
  \/ Refused(possible) /\ Fail

\* A uid_map or gid_map that cannot be written, EPERM excepted.
SetupUsernsMapFails == ~root /\ ~healthy

\* Without root the user namespace may be denied by policy: apply returns
\* Ok(None) at once.  Any other failure is an error.
UnshareMount ==
  /\ NextOp("UnshareMount")
  /\ \/ Applied([child EXCEPT !.ns = TRUE])
     \/ ~root /\ ops' = <<>> /\ child' = [child EXCEPT !.skipped = TRUE] /\ UNCHANGED phase
     \/ ~healthy /\ Fail
     \/ SetupUsernsMapFails /\ Fail

MakeRprivate ==
  NextOp("MakeRprivate") /\ HardOp(Privileged, [child EXCEPT !.private = TRUE])

CanMount == Privileged /\ Head(ops).arg \in Visible

MountTmpfsWarns ==
  /\ NextOp("MountTmpfs")
  /\ \/ Works(CanMount) /\ Applied([child EXCEPT !.shadowed = @ \cup {Head(ops).arg}])
     \/ Refused(CanMount) /\ Applied(child)

\* mount(2) on a directory that must be there: unlike BindReadOnly this does
\* not ask, and an absent one is ENOENT
MountTmpfs ==
  /\ NextOp("MountTmpfs")
  /\ HardOp(CanMount, [child EXCEPT !.shadowed = @ \cup {Head(ops).arg}])

\* Absent paths are skipped; a user manager warns and goes on.
BindReadOnly ==
  /\ NextOp("BindReadOnly")
  /\ IF Head(ops).arg \in Visible /\ root
     THEN HardOp(Privileged, [child EXCEPT !.readonly = @ \cup {Head(ops).arg}])
     ELSE Applied(child)

\* Every step of it warns on failure and goes on.
PrivateDevices ==
  /\ NextOp("PrivateDevices")
  /\ LET possible == Privileged /\ "/dev" \in Visible IN
     \/ Works(possible) /\ Applied([child EXCEPT !.devices = TRUE])
     \/ Refused(possible) /\ Applied(child)

NoNewPrivileges ==
  NextOp("NoNewPrivileges") /\ HardOp(TRUE, [child EXCEPT !.nnp = TRUE])

CapBoundingDrop ==
  NextOp("CapBoundingDrop") /\ HardOp(Privileged, [child EXCEPT !.dropped = Head(ops).arg])

AmbientRaise ==
  /\ NextOp("AmbientRaise")
  /\ \/ Works(Privileged) /\ Applied([child EXCEPT !.ambient = Head(ops).arg])
     \/ Refused(Privileged) /\ Applied(child)

\* seccomp(2): no_new_privs or CAP_SYS_ADMIN, else EACCES.
Seccomp ==
  NextOp("Seccomp") /\ HardOp(child.nnp \/ Privileged, [child EXCEPT !.filter = Head(ops).arg])

ApplyDone == phase = "sandbox" /\ ops = <<>> /\ Keep /\ GoTo("chdir") /\ UNCHANGED <<ops, child>>

-----------------------------------------------------------------------------
(* The rest of pre_exec, under the filter, and exec.                       *)
ChDir == HardStep("chdir", "setgroups", attr.WorkingDirectory # "",
                  Permitted("chdir") /\ attr.WorkingDirectory \in Visible,
                  [child EXCEPT !.cwd = attr.WorkingDirectory])

\* Supplementary groups come with User=; the gid only from Group=.
SetGroups == HardStep("setgroups", "setgid", attr.User # "", Privileged /\ Permitted("setgroups"),
                      [child EXCEPT !.groups = attr.User])

SetGid == HardStep("setgid", "setuid", attr.Group # "", Privileged /\ Permitted("setgid"),
                   [child EXCEPT !.gid = attr.Group])

SetUidWarns == SoftStep("setuid", "umask", attr.User # "", Privileged /\ Permitted("setuid"),
                        [child EXCEPT !.uid = attr.User])

SetUid == HardStep("setuid", "umask", attr.User # "", Privileged /\ Permitted("setuid"),
                   [child EXCEPT !.uid = attr.User])

UMask == SoftStep("umask", "nice", attr.UMask # "", Permitted("umask"),
                  [child EXCEPT !.umask = attr.UMask])

Nice == SoftStep("nice", "rlimit", attr.Nice # "", Permitted("setpriority"),
                 [child EXCEPT !.nice = attr.Nice])

SetRlimit == HardStep("rlimit", "exec", attr.Limit # "", Permitted("prlimit64"),
                      [child EXCEPT !.limits = attr.Limit])

\* The program itself is there.
Exec == HardStep("exec", "running", TRUE, Permitted("execve"), child)

Child ==
  \/ SigMask \/ SetSid \/ DupListeners \/ JoinCgroup
  \/ UnshareMount \/ MakeRprivate \/ MountTmpfs \/ BindReadOnly \/ PrivateDevices
  \/ NoNewPrivileges \/ CapBoundingDrop \/ AmbientRaise \/ Seccomp \/ ApplyDone
  \/ ChDir \/ SetGroups \/ SetGid \/ SetUid \/ UMask \/ Nice \/ SetRlimit \/ Exec

Next == Load \/ Prepare \/ Child

\* The child runs between fork and exec without waiting on anyone.
Spec == Init /\ [][Next]_vars /\ WF_vars(Child)

-----------------------------------------------------------------------------
(* What the filter has to decide, stated without a program.                *)
Cfg == parse_sandbox(raw)

ListAllows(c, nr) ==
  /\ nr \notin extra_deny(c)
  /\ IF c.syscall_nrs = {} \/ c.syscall_deny THEN nr \notin c.syscall_nrs
     ELSE nr \in c.syscall_nrs \cup syscall_nr(ALLOW_BASE)

FamilyAllowed(af, fam) ==
  IF af.deny_all THEN ~af.deny
  ELSE IF af.deny THEN fam \notin af.families ELSE fam \in af.families

Decision(c, call) ==
  IF /\ call.arch = "x86_64"
     /\ ListAllows(c, call.nr)
     /\ c.af.present /\ call.nr \in ToSet(af_nrs) => FamilyAllowed(c.af, call.arg0)
     /\ c.memory_deny_write_execute /\ call.nr \in ToSet(wx_nrs) => ~({"W", "X"} \subseteq call.arg2)
  THEN "allow" ELSE "errno"

Calls ==
  [arch : {"x86_64"}, nr : {SYSCALLS[n] : n \in DOMAIN SYSCALLS} \cup {999}, arg0 : {1}, arg2 : {{"R"}}]
  \cup [arch : {"x86_64"}, nr : ToSet(wx_nrs), arg0 : {1}, arg2 : SUBSET {"R", "W", "X"}]
  \cup [arch : {"x86_64"}, nr : ToSet(af_nrs), arg0 : {1, 2, 10, 16}, arg2 : {{}}]
  \cup [arch : {"i386"}, nr : {0, 41, 59}, arg0 : {1}, arg2 : {{}}]

\* Checked once, in the state that follows the installation.
JustInstalled == phase = "chdir" /\ child.filter # <<>>

\* The directives that the compiler gets right.  Several families fall
\* through each other's tests; an allow-list takes back what
\* RestrictRealtime= and its like refuse, and gives ALLOW_BASE no mmap and
\* mprotect under MemoryDenyWriteExecute=; and a program longer than a jump
\* is wide wraps.
Decidable(c) ==
  /\ c.af.deny_all \/ \A x, y \in c.af.families : x = y
  /\ c.syscall_nrs # {} /\ ~c.syscall_deny =>
       /\ c.syscall_nrs \cap extra_deny(c) = {}
       /\ c.memory_deny_write_execute => {SYSCALLS.mmap, SYSCALLS.mprotect} \subseteq c.syscall_nrs
  /\ Len(build(FilterOf(c))) <= JumpMod

\* SystemCallFilter=, Restrict*= and MemoryDenyWriteExecute=: the program
\* that build() lays out answers every call as the directives say.
FilterDecides ==
  JustInstalled => \A call \in Calls : RunFilter(child.filter, call) = Decision(Cfg, call)

Running == phase = "running"

\* The directories that are covered by an empty one
TmpfsTargets(c) ==
  (IF c.private_tmp THEN {"/tmp", "/var/tmp"} ELSE {})
  \cup (IF c.protect_home = "Tmpfs" THEN ToSet(HomePaths) ELSE {})

\* apply: a service that runs got every mount that its unit asks for, no
\* capability outside its bounding set and its filter; a setup that failed
\* part-way never reaches exec.  PrivateDevices= and AmbientCapabilities= are
\* best effort in the code.
RunningIsSandboxed ==
  Running /\ ~child.skipped =>
    /\ TmpfsTargets(Cfg) \subseteq child.shadowed
    /\ root => (ToSet(SystemPaths(Cfg.protect_system)) \cup ToSet(Cfg.read_only_paths)
                \cup (IF Cfg.protect_home = "ReadOnly" THEN ToSet(HomePaths) ELSE {}))
               \cap Visible \subseteq child.readonly
    /\ child.shadowed \cup child.readonly # {} => child.private
    /\ Cfg.no_new_privileges => child.nnp
    /\ LET named == cap_number(Cfg.bounding_set) IN
       named # {} => IF Cfg.bounding_invert THEN child.dropped = named
                     ELSE (0..LAST_CAP) \ child.dropped = named
    /\ need_seccomp(Cfg) => child.filter # <<>>

\* spawn: a service never runs with an identity, a directory or a limit
\* other than its unit's, whatever call is refused on the way.
RunsAsConfigured ==
  Running =>
    /\ child.uid = IF attr.User = "" THEN "manager" ELSE attr.User
    /\ child.groups = IF attr.User = "" THEN "manager" ELSE attr.User
    /\ attr.Group # "" => child.gid = attr.Group
    /\ attr.WorkingDirectory # "" => child.cwd = attr.WorkingDirectory
    /\ attr.Limit # "" => child.limits = attr.Limit
    /\ child.mask = "empty" /\ child.sid

\* spawn, dup2 loop: descriptor 3 + i of the service is its i-th listener,
\* also where the descriptors overlap the range they are moved to.
ListenersInPlace ==
  Running => \A i \in 1..Len(attr.Listeners) : child.fds[2 + i] = socket_fds_for[i]

\* What runs is what the unit file describes: restricted, with its identity and
\* limits, and with its listeners.
RunsAsDescribed == RunningIsSandboxed /\ RunsAsConfigured /\ ListenersInPlace

\* The calls that the child still makes once the filter is installed.
SetupCalls ==
  {"execve"}
  \cup (IF attr.WorkingDirectory # "" THEN {"chdir"} ELSE {})
  \cup (IF attr.User # "" THEN {"setgroups", "setuid"} ELSE {})
  \cup (IF attr.Group # "" THEN {"setgid"} ELSE {})
  \cup (IF attr.Limit # "" THEN {"prlimit64"} ELSE {})

\* mount(2) and chdir(2) find their directories
Reachable ==
  /\ TmpfsTargets(Cfg) \subseteq present
  /\ attr.WorkingDirectory # "" =>
       /\ attr.WorkingDirectory \in present
       /\ \A d \in TmpfsTargets(Cfg) : <<attr.WorkingDirectory, d>> \notin Inside

Startable ==
  /\ phase = "sigmask" /\ healthy
  /\ root \/ (attr.User = "" /\ attr.Group = "" /\ cap_number(Cfg.bounding_set) = {})
  /\ \A n \in SetupCalls : ListAllows(Cfg, SYSCALLS[n])
  /\ Reachable

\* plan and spawn keep an order in which each step still has the privileges
\* it needs: on a kernel that refuses nothing needlessly, a unit whose filter
\* allows the setup calls gets to run, under root and in a user manager.
\* Excepted is one that covers a directory the machine does not have, or the
\* one it is to run in: MountTmpfs and chdir fail then.
StartableRuns == Startable ~> Running
=============================================================================
