------------------------------- MODULE Seccomp -------------------------------
(***************************************************************************)
(* The compiler of the system call filters (platform/sandbox.rs, module    *)
(* seccomp): build() lays a BPF program out from SystemCallFilter=, the    *)
(* Restrict*= directives, RestrictAddressFamilies= and                     *)
(* MemoryDenyWriteExecute=.  RunFilter is the kernel's side: it executes a *)
(* program for one system call.  The table of calls is cut down to the     *)
(* ones that the builder and the properties tell apart, with their real    *)
(* numbers.                                                                *)
(***************************************************************************)
EXTENDS Integers, Sequences, FiniteSets, SequencesExt

CONSTANT JumpMod            \* jump offsets are u8 in a sock_filter: 2^8

ASSUME JumpModAssumption == JumpMod \in Nat \ {0}

SYSCALLS ==
  [read |-> 0, write |-> 1, mmap |-> 9, mprotect |-> 10, socket |-> 41,
   socketpair |-> 53, execve |-> 59, chdir |-> 80, chmod |-> 90, fchmod |-> 91,
   chown |-> 92, fchown |-> 93, lchown |-> 94, umask |-> 95, setuid |-> 105,
   setgid |-> 106, setgroups |-> 116, personality |-> 135, setpriority |-> 141,
   sched_setparam |-> 142, sched_setscheduler |-> 144, exit_group |-> 231,
   fchownat |-> 260, fchmodat |-> 268, prlimit64 |-> 302, sched_setattr |-> 314,
   pkey_mprotect |-> 329]

syscall_nr(names) == {SYSCALLS[n] : n \in names \cap DOMAIN SYSCALLS}

\* query_module has no number on x86_64: a group skips it, a bare name fails.
group_members ==
  ("@basic-io"    :> {"read", "write"})
  @@ ("@network-io" :> {"socket", "socketpair"})
  @@ ("@process"    :> {"execve", "exit_group", "setpriority", "prlimit64",
                        "sched_setparam", "sched_setscheduler", "sched_setattr"})
  @@ ("@setuid"     :> {"setuid", "setgid", "setgroups"})
  @@ ("@chown"      :> {"chown", "fchown", "lchown", "fchownat"})
  @@ ("@obsolete"   :> {"query_module"})

Groups == {"@basic-io", "@network-io", "@process", "@setuid", "@chown",
           "@obsolete", "@unknown"}

ALLOW_BASE == {"exit_group", "mmap", "mprotect", "read", "write"}

RT_DENY == {"sched_setscheduler", "sched_setattr", "sched_setparam"}

suidsgid_nrs == syscall_nr({"chmod", "fchmod", "fchmodat", "chown", "fchown",
                            "lchown", "fchownat"})

\* resolve(): an unknown group and an unknown bare name fail the whole list.
Unresolvable(names) ==
  \E n \in names : IF n \in Groups THEN n \notin DOMAIN group_members
                                   ELSE n \notin DOMAIN SYSCALLS

resolve(names) ==
  UNION {IF n \in Groups THEN syscall_nr(group_members[n]) ELSE syscall_nr({n})
           : n \in names}

(***************************************************************************)
(* Programs.  An instruction has an operation, an operand and two targets; *)
(* targets are symbolic until the layout is known.                         *)
(***************************************************************************)
At(i)   == [to |-> "I", i |-> i]
Tgt(t)  == [to |-> t, i |-> 0]
Ins(op, k, jt, jf) == [op |-> op, k |-> k, jt |-> jt, jf |-> jf]
Ld(what)           == Ins("ld", what, Tgt("None"), Tgt("None"))
Jeq(k, jt, jf)     == Ins("jeq", k, jt, jf)
pick_t(errnoSide)  == Tgt(IF errnoSide THEN "Errno" ELSE "Allow")

\* The program's input, at the offsets that the builder loads from.
Arch == "arch"
Nr   == "nr"
Arg0 == "arg0"
Arg2 == "arg2"

Asc(S) == [k \in 1..Cardinality(S) |-> CHOOSE x \in S : Cardinality({y \in S : y < x}) = k - 1]

wx_nrs  == <<SYSCALLS.mmap, SYSCALLS.mprotect, SYSCALLS.pkey_mprotect>>
af_nrs  == <<SYSCALLS.socket, SYSCALLS.socketpair>>

\* f: the compiled directives [nrs, deny, extra_deny, af, wx], where af is
\* [present, deny, families, deny_all].
Entries(f) ==
  LET own == (f.nrs \ (IF f.af.present THEN ToSet(af_nrs) ELSE {}))
                    \ (IF f.wx THEN ToSet(wx_nrs) ELSE {})
  IN Asc(own \cup (IF f.deny THEN f.extra_deny ELSE syscall_nr(ALLOW_BASE)))

default_t(f) == pick_t(~f.deny)
match_t(f)   == pick_t(f.deny)

list_denies(f, nr) == IF f.deny THEN nr \in f.nrs ELSE nr \notin f.nrs

fam_default_errno(af) == IF af.deny_all THEN af.deny ELSE ~af.deny

const_errno(af) == af.deny_all \/ af.families = {}

\* The gates, in order: <<syscall, target of a match>>.
gates(f) ==
  (IF f.wx THEN [k \in 1..3 |-> <<wx_nrs[k], IF list_denies(f, wx_nrs[k])
                                             THEN Tgt("Errno") ELSE Tgt("WxArg")>>]
           ELSE <<>>)
  \o (IF f.af.present
      THEN [k \in 1..2 |-> <<af_nrs[k],
              IF list_denies(f, af_nrs[k]) THEN Tgt("Errno")
              ELSE IF const_errno(f.af) THEN pick_t(fam_default_errno(f.af))
              ELSE Tgt("Famarg")>>]
      ELSE <<>>)

Prologue == <<Ld(Arch), Jeq("x86_64", At(2), Tgt("Errno")), Ld(Nr)>>

GateChainLeaky(f) ==
  LET g == gates(f)
      plain == IF Entries(f) = <<>> THEN default_t(f) ELSE At(3 + Len(g))
  IN [k \in 1..Len(g) |-> Jeq(g[k][1], g[k][2], plain)]

\* A gate that does not match goes on to the next one; the last goes on to
\* the plain entries, or to the default where there are none.
GateChain(f) ==
  LET g == gates(f)
      plain == IF Entries(f) = <<>> THEN default_t(f) ELSE At(3 + Len(g))
  IN [k \in 1..Len(g) |-> Jeq(g[k][1], g[k][2], IF k = Len(g) THEN plain ELSE At(3 + k))]

PlainEntries(f, start) ==
  LET es == Entries(f)
  IN [k \in 1..Len(es) |->
        Jeq(es[k], match_t(f), IF k = Len(es) THEN default_t(f) ELSE At(start + k))]

FamilyBlock(f) ==
  IF \E k \in 1..Len(gates(f)) : gates(f)[k][2] = Tgt("Famarg")
  THEN <<Ld(Arg0)>> \o [k \in 1..Cardinality(f.af.families) |->
         Jeq(Asc(f.af.families)[k], pick_t(f.af.deny), pick_t(fam_default_errno(f.af)))]
  ELSE <<>>

WxBlock(f, start) ==
  IF \E k \in 1..Len(gates(f)) : gates(f)[k][2] = Tgt("WxArg")
  THEN <<Ld(Arg2), Ins("and", {"W", "X"}, Tgt("None"), Tgt("None")),
         Ins("jset", "W", At(start + 3), Tgt("Allow")),
         Ins("jset", "X", Tgt("Errno"), Tgt("Allow"))>>
  ELSE <<>>

Returns == <<Ins("ret", "errno", Tgt("None"), Tgt("None")),
             Ins("ret", "allow", Tgt("None"), Tgt("None"))>>

\* Absolute targets become relative offsets, cut to the width of a u8.
Assemble(prog, famarg, wxarg) ==
  LET abs(t) == CASE t.to = "I" -> t.i
                  [] t.to = "Errno" -> Len(prog) - 2
                  [] t.to = "Allow" -> Len(prog) - 1
                  [] t.to = "Famarg" -> famarg
                  [] t.to = "WxArg" -> wxarg
      off(i, t) == IF t.to = "None" THEN 0 ELSE (abs(t) - i - 1) % JumpMod
  IN [n \in 1..Len(prog) |->
        [op |-> prog[n].op, k |-> prog[n].k,
         jt |-> off(n - 1, prog[n].jt), jf |-> off(n - 1, prog[n].jf)]]

build(f) ==
  LET top   == Prologue \o GateChain(f)
      plain == top \o PlainEntries(f, Len(top))
      fam   == plain \o FamilyBlock(f)
      wx    == fam \o WxBlock(f, Len(fam))
  IN Assemble(wx \o Returns, Len(plain), Len(fam))

-----------------------------------------------------------------------------
\* The kernel runs a program for a call [arch, nr, arg0, arg2]; arg2 is the
\* set of protection bits of a mapping.  The result is "errno" or "allow".
\* The accumulator is named by what was loaded into it.
Loaded(call, a) == IF a = "masked" THEN call.arg2 \cap {"W", "X"} ELSE call[a]

RunFilter(prog, call) ==
  LET Run[pc \in 0..Len(prog) - 1] ==
        LET i == prog[pc + 1]
        IN [a \in {Arch, Nr, Arg0, Arg2, "masked"} |->
              CASE i.op = "ld"   -> Run[pc + 1][i.k]
                [] i.op = "and"  -> Run[pc + 1]["masked"]
                [] i.op = "jeq"  -> Run[pc + 1 + (IF Loaded(call, a) = i.k THEN i.jt ELSE i.jf)][a]
                [] i.op = "jset" -> Run[pc + 1 + (IF i.k \in Loaded(call, a) THEN i.jt ELSE i.jf)][a]
                [] i.op = "ret"  -> i.k]
  IN Run[0][Nr]
=============================================================================
