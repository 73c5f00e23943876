----------------------------- MODULE UnitFiles -----------------------------
(***************************************************************************)
(* Unit files on disk: the search path and its precedence (paths.rs), the  *)
(* repository that reads and writes them (repo/), the symlinks of enable,  *)
(* disable, mask and set-default (enable.rs, ops.rs), and the unit table   *)
(* the manager builds from all of it (discover_names, load_unit, load_all).*)
(* rystemctl edits the same directories from processes of its own, so an   *)
(* edit and the reload that makes the manager see it are separate actions. *)
(* A unit file's text is reduced to a record: whether it parses, and its   *)
(* [Install] section.  Directory 1 is both the first of the search path    *)
(* and the configuration directory, as in Paths::system.                   *)
(***************************************************************************)
EXTENDS Integers, Sequences, FiniteSets

CONSTANTS
  Names,      \* unit file names
  Suffix,     \* name -> its unit suffix
  ServiceOf,  \* name -> that name with ".service" appended
  Template,   \* "getty@tty1" -> "getty@", NoName for a plain name
  NoName,
  Builtin,    \* targets is_builtin knows
  Default,    \* "default.target"
  Dirs,       \* 1..n, highest precedence first
  Contents,   \* what a unit file can hold
  Initial,    \* the files on disk at the start
  Edited,     \* names whose file the repository writes
  Dropins,    \* names with a <name>.d/*.conf file
  MaxOps      \* bound on the operations of a behaviour

VARIABLES fs, links, staged, units, active, last, ops
vars == <<fs, links, staged, units, active, last, ops>>

None     == [t |-> "none"]
NullLink == [t |-> "null"]
Reg(c)   == [t |-> "reg", c |-> c]
Link(p)  == [t |-> "link", p |-> p]
NoPath   == <<>>
\* A file cut short: no parser accepts it
Torn     == [ok |-> FALSE, wanted_by |-> {}, required_by |-> {}, alias |-> NoName, also |-> NoName]
Path     == Dirs \X Names
Entry    == {None, NullLink} \cup {Reg(c) : c \in Contents} \cup {Link(p) : p \in Path}
Config   == 1
Kinds    == {"wants", "requires"}
Targets  == {n \in Names : Suffix[n] = "target"}
\* A link <target>.wants/<name> or <target>.requires/<name> of the configuration directory
LinkRec  == [target : Targets, kind : Kinds, name : Names, to : Path]

\* A name is any unit name; a file that is whole is never taken for a torn one
ASSUME UnitFilesAssumption ==
  /\ IsFiniteSet(Names) /\ NoName \notin Names
  /\ ServiceOf \in [Names -> Names] /\ Template \in [Names -> Names \cup {NoName}]
  /\ Builtin \subseteq Names /\ Default \in Names /\ Edited \subseteq Names
  /\ Config \in Dirs /\ Dirs = 1 .. Cardinality(Dirs) /\ Cardinality(Dirs) \in Nat
  /\ Contents \subseteq [ok : BOOLEAN, wanted_by : SUBSET Targets, required_by : SUBSET Targets,
                         alias : Names \cup {NoName}, also : Names \cup {NoName}]
  /\ Torn \notin Contents
  /\ Initial \in [Dirs -> [Names -> Entry]]

(***************************************************************************)
(* paths.rs.  A path is a file when following its links ends in a regular  *)
(* file: a mask ends in a character device and a loop ends nowhere.        *)
(***************************************************************************)
Hop(f, p) == IF f[p[1]][p[2]].t = "link" THEN f[p[1]][p[2]].p ELSE p
Resolve(f, p) ==
  LET q == Hop(f, Hop(f, Hop(f, p))) IN IF f[q[1]][q[2]].t = "reg" THEN f[q[1]][q[2]] ELSE None

is_file(f, p) == Resolve(f, p) # None

\* The first directory of the search path that has n, or NoPath
FirstDir(f, n) ==
  LET ds == {d \in Dirs : is_file(f, <<d, n>>)} IN
  IF ds = {} THEN NoPath ELSE <<CHOOSE d \in ds : \A o \in ds : d <= o, n>>

find_unit(f, n) ==
  IF FirstDir(f, n) # NoPath \/ Template[n] = NoName THEN FirstDir(f, n)
  ELSE FirstDir(f, Template[n])

dir_deps(l, n, kind) == {k.name : k \in {x \in l : x.target = n /\ x.kind = kind}}

(***************************************************************************)
(* enable.rs                                                               *)
(***************************************************************************)
NormalizeFileName(n) == IF Suffix[n] \in {"service", "timer", "target"} THEN n ELSE ServiceOf[n]

\* None when the file cannot be parsed
install_section(f, p) ==
  LET e == Resolve(f, p) IN IF e # None /\ e.c.ok THEN e ELSE None

\* The first directory with a symlink of that name decides
is_masked(f, name) ==
  LET n  == NormalizeFileName(name)
      ds == {d \in Dirs : f[d][n].t \in {"link", "null"}}
  IN  /\ ds # {}
      /\ f[CHOOSE d \in ds : \A o \in ds : d <= o][n].t = "null"

InstallTargets(c) == c.wanted_by \cup c.required_by

\* exists() follows the link: it needs a target that is still there
install_links_exist(f, l, n, c) ==
  \/ \E k \in l : k.target \in InstallTargets(c) /\ k.name = n /\ is_file(f, k.to)
  \/ c.alias # NoName /\ is_file(f, <<Config, NormalizeFileName(c.alias)>>)

enabled_state(f, l, name) ==
  LET n == NormalizeFileName(name)
      e == IF find_unit(f, n) = NoPath THEN None ELSE install_section(f, find_unit(f, n))
  IN  IF is_masked(f, n) THEN "masked"
      ELSE IF find_unit(f, n) = NoPath THEN "not-found"
      ELSE IF e = None \/ (InstallTargets(e.c) = {} /\ e.c.alias = NoName) THEN "static"
      ELSE IF install_links_exist(f, l, n, e.c) THEN "enabled" ELSE "disabled"

\* Mutants: links to the unit's name in the configuration directory, found or not; a
\* disable that forgets the .requires directories
EnableOneByName(s) ==
  LET p == find_unit(s.fs, s.at)
      e == IF p = NoPath THEN None ELSE install_section(s.fs, p)
  IN  IF e = None THEN [s EXCEPT !.out = "error"]
      ELSE [s EXCEPT !.out = "ok",
                     !.links = @ \cup {[target |-> t, kind |-> "wants", name |-> s.at, to |-> <<Config, s.at>>] :
                                         t \in InstallTargets(e.c)}]
DisableOneWants(s) ==
  LET p == find_unit(s.fs, s.at)
      e == IF p = NoPath THEN None ELSE install_section(s.fs, p)
  IN  [s EXCEPT !.out = "ok",
                !.links = IF e = None THEN @
                          ELSE {k \in @ : ~(k.name = s.at /\ k.target \in InstallTargets(e.c) /\ k.kind = "wants")}]

\* One unit's links: the targets it names, then its alias, replacing whatever was there
EnableOne(s) ==
  LET p == find_unit(s.fs, s.at)
      e == IF p = NoPath THEN None ELSE install_section(s.fs, p)
      c == e.c
  IN  IF e = None THEN [s EXCEPT !.out = "error"]
      ELSE [fs    |-> IF c.alias = NoName THEN s.fs
                      ELSE [s.fs EXCEPT ![Config][NormalizeFileName(c.alias)] = Link(p)],
            links |-> LET kind(t) == IF t \in c.wanted_by THEN "wants" ELSE "requires" IN
                      {k \in s.links : ~(k.name = s.at /\ k.target \in InstallTargets(c) /\ k.kind = kind(k.target))}
                        \cup {[target |-> t, kind |-> kind(t), name |-> s.at, to |-> p] : t \in InstallTargets(c)},
            at    |-> IF c.also = NoName THEN s.at ELSE NormalizeFileName(c.also),
            out   |-> IF c.also = NoName THEN "ok" ELSE "run"]

\* disable: link_existing looks in "<target>..wants", which no enable creates, and
\* removes nothing; what goes is what the current [Install] section names
DisableOne(s) ==
  LET p == find_unit(s.fs, s.at)
      e == IF p = NoPath THEN None ELSE install_section(s.fs, p)
      c == e.c
  IN  IF e = None THEN [s EXCEPT !.out = "ok"]
      ELSE [fs    |-> IF c.alias = NoName THEN s.fs
                      ELSE [s.fs EXCEPT ![Config][NormalizeFileName(c.alias)] = None],
            links |-> {k \in s.links : ~(k.name = s.at /\ k.target \in InstallTargets(c))},
            at    |-> IF c.also = NoName THEN s.at ELSE NormalizeFileName(c.also),
            out   |-> IF c.also = NoName THEN "ok" ELSE "run"]

\* Also= is followed by recursion with no memory of the units already done: a cycle
\* recurses until the stack overflows, which ends the process ("abort")
MaxAlso == Cardinality(Names) + 1
Follow(One(_), f, l, name) ==
  LET R[k \in 0..MaxAlso] ==
        IF k = 0 THEN [fs |-> f, links |-> l, at |-> NormalizeFileName(name), out |-> "run"]
        ELSE LET r == R[k - 1] IN IF r.out = "run" THEN One(r) ELSE r
      end == R[MaxAlso]
  IN  IF end.out = "run" THEN [end EXCEPT !.out = "abort"] ELSE end

\* Mutant: the name is not normalised as mask normalised it
unmaskRaw(f, n) == IF is_masked(f, n) THEN [f EXCEPT ![Config][n] = None] ELSE f

mask(f, n)   == [f EXCEPT ![Config][NormalizeFileName(n)] = NullLink]
unmask(f, n) == IF is_masked(f, n) THEN [f EXCEPT ![Config][NormalizeFileName(n)] = None] ELSE f

(***************************************************************************)
(* Loading.  Repo::list gives up at the first file that does not parse,    *)
(* and discover_names then goes on without any unit file.                  *)
(***************************************************************************)
list_names(f, d) == {n \in Names : is_file(f, <<d, n>>)}

ListFails(f) ==
  \E d \in Dirs : \E n \in list_names(f, d) :
    /\ \A o \in Dirs : o < d => n \notin list_names(f, o)
    /\ ~Resolve(f, <<d, n>>).c.ok

Loadable == {"service", "timer", "target", "path", "socket", "mount"}
\* Mutant: only the first root is listed
RepoListFirst(f) == {n \in list_names(f, Config) : Suffix[n] \in Loadable}

RepoList(f) ==
  IF ListFails(f) THEN {}
  ELSE {n \in UNION {list_names(f, d) : d \in Dirs} : Suffix[n] \in Loadable}

\* Members of .wants directories count, those of .requires directories do not
discover_names(f, l) ==
  RepoList(f) \cup Builtin \cup {k.name : k \in {x \in l : x.kind = "wants"}}
              \cup (IF f[Config][Default].t = "link" THEN {f[Config][Default].p[2]} ELSE {})

Unloaded == [load |-> "absent", deps |-> {}]

\* A drop-in is read as a unit definition, whose name must end in a unit suffix
load_unit(f, l, n) ==
  LET p == find_unit(f, n) IN
  IF p = NoPath /\ Suffix[n] # "target" THEN Unloaded
  ELSE IF (p # NoPath /\ ~Resolve(f, p).c.ok)
            \/ (n \in Dropins /\ ~(p = NoPath /\ n \notin Builtin))
       THEN [load |-> "error", deps |-> {}]
       ELSE [load |-> "loaded", deps |-> IF p = NoPath /\ n \notin Builtin THEN {}
                                         ELSE UNION {dir_deps(l, n, k) : k \in Kinds}]

load_all(f, l) ==
  [n \in Names |-> IF n \in discover_names(f, l) THEN load_unit(f, l, n) ELSE Unloaded]

(***************************************************************************)
(* Actions                                                                 *)
(***************************************************************************)
Did(op, n, out) == ops < MaxOps /\ ops' = ops + 1 /\ last' = [op |-> op, unit |-> n, out |-> out]

\* rystemctl enable works on the directories itself, then asks for a reload
Enable(n) ==
  LET r == Follow(EnableOne, fs, links, n) IN
  /\ Did("enable", n, r.out)
  /\ fs' = r.fs /\ links' = r.links
  /\ units' = IF r.out = "ok" THEN load_all(fs', links') ELSE units
  /\ UNCHANGED <<staged, active>>

\* rystemctl disable asks for no reload
Disable(n) ==
  LET r == Follow(DisableOne, fs, links, n) IN
  /\ Did("disable", n, r.out)
  /\ fs' = r.fs /\ links' = r.links
  /\ UNCHANGED <<staged, units, active>>

Reenable(n) ==
  LET d == Follow(DisableOne, fs, links, n)
      r == IF d.out = "ok" THEN Follow(EnableOne, d.fs, d.links, n) ELSE d
  IN  /\ Did("reenable", n, r.out)
      /\ fs' = r.fs /\ links' = r.links
      /\ units' = IF r.out = "ok" THEN load_all(fs', links') ELSE units
      /\ UNCHANGED <<staged, active>>

MaskUnits(n) ==
  /\ Did("mask", n, "ok")
  /\ fs' = mask(fs, n)
  /\ units' = load_all(fs', links)
  /\ UNCHANGED <<links, staged, active>>

UnmaskUnits(n) ==
  /\ Did("unmask", n, "ok")
  /\ fs' = unmask(fs, n)
  /\ units' = load_all(fs', links)
  /\ UNCHANGED <<links, staged, active>>

\* Everything a start of n pulls in that is loaded and found
StartSet(u, n) ==
  LET R[k \in 0..Cardinality(Names)] ==
        IF k = 0 THEN {n} ELSE LET r == R[k - 1] IN r \cup UNION {u[m].deps : m \in r}
  IN  {m \in R[Cardinality(Names)] : u[m].load = "loaded"}

\* start: the unit is loaded on demand; the request is refused when it is not found
start(n) ==
  LET u == IF units[n] = Unloaded THEN [units EXCEPT ![n] = load_unit(fs, links, n)] ELSE units IN
  /\ units' = u
  /\ active' = active \cup (IF u[n].load = "absent" THEN {} ELSE StartSet(u, n))

\* The control operation "start", the only one that looks for a mask
Start(n) ==
  /\ Did("start", n, IF is_masked(fs, n) THEN "error" ELSE "ok")
  /\ IF is_masked(fs, n) THEN UNCHANGED <<units, active>> ELSE start(n)
  /\ UNCHANGED <<fs, links, staged>>

\* restart and restart-or-start of a unit that is not running
RestartOrStart(n) ==
  /\ n \notin active
  /\ Did("restart_or_start", n, "ok")
  /\ start(n)
  /\ UNCHANGED <<fs, links, staged>>

Stop(n) ==
  /\ n \in active
  /\ Did("stop", n, "ok")
  /\ active' = active \ {n}
  /\ UNCHANGED <<fs, links, staged, units>>

\* default.target is replaced by a link to the unit, which is then started
SetDefault(n) ==
  LET p == find_unit(fs, n) IN
  /\ Did("set_default", n, IF p = NoPath THEN "error" ELSE "ok")
  /\ IF p = NoPath THEN UNCHANGED <<fs, units, active>>
     ELSE /\ fs' = [fs EXCEPT ![Config][Default] = Link(p)]
          /\ start(n)
  /\ UNCHANGED <<links, staged>>

DaemonReload ==
  /\ Did("daemon_reload", NoName, "ok")
  /\ units' = load_all(fs, links)
  /\ UNCHANGED <<fs, links, staged, active>>

(***************************************************************************)
(* Repo::write, create, update and mutate: the text goes to a temporary    *)
(* file, whose name has no unit suffix, and a rename puts it in place.  A  *)
(* writer may be killed in between and leave the temporary file.           *)
(***************************************************************************)
Stage(n, c) ==
  /\ staged = NoPath
  /\ Did("stage", n, "ok")
  /\ staged' = <<n, c, Torn>>
  /\ UNCHANGED <<fs, links, units, active>>

Written ==
  /\ staged # NoPath /\ staged[3] = Torn
  /\ staged' = [staged EXCEPT ![3] = staged[2]]
  /\ UNCHANGED <<fs, links, units, active, last, ops>>

\* Mutant: the rename does not wait for the text to be written
RenameEarly ==
  /\ staged # NoPath
  /\ fs' = [fs EXCEPT ![Config][staged[1]] = Reg(staged[3])]
  /\ staged' = NoPath
  /\ UNCHANGED <<links, units, active, last, ops>>

\* rename replaces the directory entry, a mask or a link included
Rename ==
  /\ staged # NoPath /\ staged[3] # Torn
  /\ fs' = [fs EXCEPT ![Config][staged[1]] = Reg(staged[3])]
  /\ staged' = NoPath
  /\ UNCHANGED <<links, units, active, last, ops>>

WriterDies ==
  /\ staged # NoPath
  /\ staged' = NoPath
  /\ UNCHANGED <<fs, links, units, active, last, ops>>

\* Repo::delete
Delete(n) ==
  /\ Did("delete", n, "ok")
  /\ fs' = [fs EXCEPT ![Config][n] = None]
  /\ UNCHANGED <<links, staged, units, active>>

Init ==
  /\ fs = Initial
  /\ links = {}
  /\ staged = NoPath
  /\ units = load_all(fs, links)
  /\ active = {}
  /\ last = [op |-> "init", unit |-> NoName, out |-> "ok"]
  /\ ops = 0

Done == ops = MaxOps /\ staged = NoPath /\ UNCHANGED vars

Next ==
  \/ \E n \in Names : \/ Enable(n) \/ Disable(n) \/ Reenable(n)
                      \/ MaskUnits(n) \/ UnmaskUnits(n) \/ SetDefault(n)
                      \/ Start(n) \/ RestartOrStart(n) \/ Stop(n) \/ Delete(n)
  \/ \E n \in Edited, c \in Contents : Stage(n, c)
  \/ Written \/ Rename \/ WriterDies \/ DaemonReload
  \/ Done

Spec == Init /\ [][Next]_vars

(***************************************************************************)
(* Properties                                                              *)
(***************************************************************************)
\* An enable that succeeded is one is-enabled reports, whatever happened to the
\* directories before it: the links it leaves point at a file that exists and lie
\* where install_links_exist looks for them.  A unit found under its own alias is left
\* out: enabling it replaces that entry by a link to itself
SelfAlias(f, n) ==
  LET p == find_unit(f, n) IN p # NoPath /\ p[1] = Config /\ Resolve(f, p).c.alias = p[2]
EnableIsSeen ==
  (last'.op \in {"enable", "reenable"} /\ last'.out = "ok" /\ \A n \in Names : ~SelfAlias(fs, n))
    => enabled_state(fs', links', last'.unit) \in {"enabled", "masked", "static"}

\* After a disable no target pulls the unit in through the links its present [Install]
\* section asks for, and is-enabled says so (links of an older section may remain)
DisableIsSeen ==
  (last'.op = "disable" /\ last'.out = "ok")
    => enabled_state(fs', links', last'.unit) # "enabled"

\* is-enabled agrees with the enable or the disable before it
InstallIsSeen == [][ops' # ops => EnableIsSeen /\ DisableIsSeen]_vars

\* Masking shadows a unit file of a lower directory without touching it: when the first
\* directory had no entry of its own, mask and unmask are inverse on the whole search path
MaskRoundTrip ==
  \A n \in Names :
    LET m == NormalizeFileName(n) IN
    fs[Config][m] = None => /\ is_masked(mask(fs, n), n)
                            /\ unmask(mask(fs, n), n) = fs

\* No reader ever finds half of a repository write under a unit name
NoTornFile == \A d \in Dirs, n \in Names : fs[d][n] # Reg(Torn)

\* A reload of directories whose files all parse loads every file of a kind of unit that
\* the search path shows, with the dependencies the links give it, and drops every other service
ReloadIsComplete ==
  [][(last'.op = "daemon_reload" /\ ops' # ops /\ ~ListFails(fs)) =>
       \A n \in Names \ Dropins :
         LET found == \E d \in Dirs : is_file(fs, <<d, n>>) IN
         /\ found /\ Suffix[n] \in Loadable => units'[n].load = "loaded"
         /\ (Suffix[n] # "target" /\ find_unit(fs, n) = NoPath) => units'[n].load = "absent"
         /\ (n \in Targets /\ units'[n].load = "loaded" /\ (found \/ n \in Builtin))
              => \A k \in links : k.target = n => k.name \in units'[n].deps]_vars
============================================================================
