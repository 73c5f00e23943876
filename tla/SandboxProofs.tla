---------------------------- MODULE SandboxProofs ----------------------------
(***************************************************************************)
(* What a child does between fork and exec, for every unit, every set of   *)
(* existing paths and whatever the kernel refuses: a service that runs is  *)
(* what its unit file describes.                                           *)
(***************************************************************************)
EXTENDS Sandbox, FiniteSetTheorems, SequenceTheorems, NaturalsInduction,
        WellFoundedInduction, TLAPS

-----------------------------------------------------------------------------
(* Descriptors in ascending order, and where the loop over dup2 puts them. *)

\* How many elements of S are below x.
Rank(S, x) == Cardinality({y \in S : y < x})

\* Ranks are below the size of the set, and grow with the elements.
LEMMA RankProperties ==
  ASSUME NEW S \in SUBSET Nat, IsFiniteSet(S)
  PROVE  /\ \A x \in S : Rank(S, x) \in 0 .. Cardinality(S) - 1
         /\ \A x, y \in S : x < y => Rank(S, x) < Rank(S, y)
<1> DEFINE Below(x) == {y \in S : y < x}
<1>1. ASSUME NEW x \in S
      PROVE  /\ Rank(S, x) \in 0 .. Cardinality(S) - 1
             /\ IsFiniteSet(Below(x)) /\ Cardinality(Below(x)) \in Nat
  <2>1. IsFiniteSet(S \ {x}) /\ Cardinality(S \ {x}) = Cardinality(S) - 1
    BY <1>1, FS_RemoveElement
  <2>2. Below(x) \in SUBSET (S \ {x})
    BY <1>1
  <2>3. IsFiniteSet(Below(x)) /\ Cardinality(Below(x)) <= Cardinality(S \ {x})
    BY <2>1, <2>2, FS_Subset
  <2>4. Cardinality(Below(x)) \in Nat /\ Cardinality(S) \in Nat
    BY <2>3, FS_CardinalityType
  <2> QED BY <2>1, <2>3, <2>4 DEF Rank
<1>2. ASSUME NEW x \in S, NEW y \in S, x < y
      PROVE  Rank(S, x) < Rank(S, y)
  <2>1. Below(x) \in SUBSET Below(y) /\ Below(x) # Below(y)
    <3>1. x \in Nat /\ y \in Nat /\ \A z \in S : z \in Nat
      OBVIOUS
    <3>2. \A z \in S : z < x => z < y
      BY <1>2, <3>1
    <3>3. x \in Below(y) /\ x \notin Below(x)
      BY <1>2, <3>1
    <3> QED BY <3>2, <3>3
  <2>2. Cardinality(Below(x)) <= Cardinality(Below(y)) /\ Cardinality(Below(x)) # Cardinality(Below(y))
    BY <1>1, <2>1, FS_Subset
  <2> QED BY <1>1, <2>2 DEF Rank
<1> QED BY <1>1, <1>2

\* Asc lists a finite set of naturals in ascending order, each element once.
LEMMA AscProperties ==
  ASSUME NEW S \in SUBSET Nat, IsFiniteSet(S)
  PROVE  /\ Asc(S) \in [1 .. Cardinality(S) -> S]
         /\ \A k \in 1 .. Cardinality(S) : Rank(S, Asc(S)[k]) = k - 1
         /\ \A j, k \in 1 .. Cardinality(S) : j < k => Asc(S)[j] < Asc(S)[k]
<1> DEFINE n == Cardinality(S)
           rank == [x \in S |-> Rank(S, x)]
<1>1. n \in Nat
  BY FS_CardinalityType
<1>2. IsFiniteSet(0 .. n - 1) /\ Cardinality(0 .. n - 1) = n
  <2>1. PICK m \in Nat : m = n
    BY <1>1
  <2>2. IsFiniteSet(0 .. m - 1) /\ Cardinality(0 .. m - 1) = m
    BY FS_Interval
  <2> QED BY <2>1, <2>2
<1>3. rank \in Injection(S, 0 .. n - 1)
  <2>1. rank \in [S -> 0 .. n - 1]
    BY RankProperties
  <2>2. \A x, y \in S : rank[x] = rank[y] => x = y
    <3> SUFFICES ASSUME NEW x \in S, NEW y \in S, rank[x] = rank[y], x # y
                 PROVE  FALSE
      OBVIOUS
    <3>1. x < y \/ y < x
      OBVIOUS
    <3>2. Rank(S, x) \in Int /\ Rank(S, y) \in Int /\ Rank(S, x) = Rank(S, y)
      BY RankProperties, <1>1
    <3> QED BY <3>1, <3>2, RankProperties
  <2> QED BY <2>1, <2>2 DEF Injection, IsInjective
<1>4. rank \in Surjection(S, 0 .. n - 1)
  BY <1>2, <1>3, FS_Injection
<1>5. ASSUME NEW k \in 1 .. n
      PROVE  \E x \in S : Rank(S, x) = k - 1
  <2>1. k - 1 \in 0 .. n - 1
    BY <1>1
  <2>2. PICK x \in S : rank[x] = k - 1
    BY <1>4, <2>1 DEF Surjection
  <2> QED BY <2>2
<1>6. \A k \in 1 .. n : Asc(S)[k] \in S /\ Rank(S, Asc(S)[k]) = k - 1
  <2> SUFFICES ASSUME NEW k \in 1 .. n
               PROVE  Asc(S)[k] \in S /\ Rank(S, Asc(S)[k]) = k - 1
    OBVIOUS
  <2>1. Asc(S)[k] = CHOOSE x \in S : Rank(S, x) = k - 1
    BY DEF Asc, Rank
  <2> QED BY <1>5, <2>1
<1>7. Asc(S) \in [1 .. n -> S]
  BY <1>6 DEF Asc
<1>8. \A j, k \in 1 .. n : j < k => Asc(S)[j] < Asc(S)[k]
  <2> SUFFICES ASSUME NEW j \in 1 .. n, NEW k \in 1 .. n, j < k, ~(Asc(S)[j] < Asc(S)[k])
               PROVE  FALSE
    OBVIOUS
  <2> DEFINE x == Asc(S)[j]
             y == Asc(S)[k]
  <2>1. x \in S /\ y \in S /\ Rank(S, x) = j - 1 /\ Rank(S, y) = k - 1
    BY <1>6
  <2> HIDE DEF x, y
  <2>2. y = x \/ y < x
    <3>1. ~(x < y)
      BY DEF x, y
    <3>2. x \in Nat /\ y \in Nat
      BY <2>1
    <3> QED BY <3>1, <3>2
  <2>3. Rank(S, y) = Rank(S, x) \/ Rank(S, y) < Rank(S, x)
    BY <2>1, <2>2, RankProperties
  <2> QED BY <2>1, <2>3, <1>1
<1> QED BY <1>6, <1>7, <1>8

\* The k-th of the descriptors is at or above 2 + k, its place.
LEMMA AscAbovePlace ==
  ASSUME NEW S \in SUBSET (Nat \ 0..2), IsFiniteSet(S), NEW k \in 1 .. Cardinality(S)
  PROVE  Asc(S)[k] \in Nat /\ Asc(S)[k] >= 2 + k
<1> DEFINE Below(x) == {y \in S : y < x}
<1>1. S \in SUBSET Nat
  OBVIOUS
<1>2. PICK x \in S : x = Asc(S)[k] /\ Cardinality(Below(x)) = k - 1
  BY <1>1, AscProperties DEF Rank
<1>3. Cardinality(S) \in Nat
  BY FS_CardinalityType
<1>4. x \in Nat /\ x > 2 /\ k \in Nat
  BY <1>3
<1>5. Below(x) \in SUBSET (3 .. x - 1)
  <2>1. \A y \in S : y \in Nat /\ y > 2
    OBVIOUS
  <2>2. \A y \in S : y < x => y \in 3 .. x - 1
    BY <1>4, <2>1
  <2> QED BY <2>2
<1>6. IsFiniteSet(3 .. x - 1) /\ Cardinality(3 .. x - 1) = x - 3
  BY <1>4, FS_Interval
<1>7. Cardinality(Below(x)) <= Cardinality(3 .. x - 1)
  BY <1>5, <1>6, FS_Subset
<1> QED BY <1>2, <1>4, <1>6, <1>7

\* A set of naturals has a least element.
LEMMA LeastNatural ==
  ASSUME NEW D \in SUBSET Nat, D # {}
  PROVE  \E k \in D : \A d \in D : k <= d
<1>1. PICK k \in D : \A d \in D : ~(<<d, k>> \in OpToRel(<, Nat))
  BY NatLessThanWellFounded, WFMin
<1>2. \A d \in D : ~(d < k)
  BY <1>1 DEF OpToRel
<1> QED BY <1>2

\* A set of numbers up to n has a largest one.
LEMMA MaxUpTo ==
  ASSUME NEW n \in Nat, NEW T \in SUBSET (1 .. n), T # {}
  PROVE  Max(T) \in T /\ \A y \in T : Max(T) >= y
<1> DEFINE D == {m \in 0 .. n : n - m \in T}
<1>1. D \in SUBSET Nat
  OBVIOUS
<1>2. PICK t \in T : t \in 1 .. n
  OBVIOUS
<1>3. n - t \in D /\ D # {}
  <2>1. n - t \in 0 .. n /\ n - (n - t) = t
    BY <1>2
  <2> QED BY <2>1
<1> HIDE DEF D
<1>4. PICK m \in D : \A d \in D : m <= d
  BY <1>1, <1>3, LeastNatural
<1>5. m \in Nat /\ n - m \in T
  BY <1>4 DEF D
<1>6. \A y \in T : n - m >= y
  <2> SUFFICES ASSUME NEW y \in T
               PROVE  n - m >= y
    OBVIOUS
  <2>1. y \in 1 .. n /\ n - (n - y) = y
    OBVIOUS
  <2>2. n - y \in D
    BY <2>1 DEF D
  <2>3. m <= n - y
    BY <1>4, <2>2
  <2> QED BY <1>5, <2>1, <2>3
<1> QED BY <1>5, <1>6 DEF Max

\* The table after the listeners with the numbers of s moved to their places.
Moved(fds, s) ==
  [fd \in DOMAIN ListenFds \cup {2 + i : i \in s} |->
     IF \E i \in s : fd = 2 + i THEN fds[fd - 2] ELSE fd]

\* One more move, of a listener above the places that were taken before it: its
\* descriptor is still what it was.
LEMMA OneMove ==
  ASSUME NEW n \in Nat, NEW fds \in [1 .. n -> DOMAIN ListenFds],
         DOMAIN ListenFds \subseteq Nat, \A k \in 1 .. n : fds[k] >= 2 + k,
         NEW s \in SUBSET (1 .. n), NEW m \in s, \A i \in s : m >= i
  PROVE  dup2(Moved(fds, s \ {m}), fds[m], 2 + m) = Moved(fds, s)
<1> DEFINE t == Moved(fds, s \ {m})
<1>1. m \in Nat /\ fds[m] \in Nat /\ fds[m] >= 2 + m /\ fds[m] \in DOMAIN ListenFds
  OBVIOUS
<1>2. \A i \in s : i \in Nat
  OBVIOUS
<1>3. DOMAIN t \cup {2 + m} = DOMAIN ListenFds \cup {2 + i : i \in s}
  BY DEF Moved
<1>4. t[fds[m]] = fds[m]
  <2>1. ~ \E i \in s \ {m} : fds[m] = 2 + i
    BY <1>1, <1>2
  <2> QED BY <1>1, <2>1 DEF Moved
<1>5. ASSUME NEW fd \in DOMAIN ListenFds \cup {2 + i : i \in s}
      PROVE  (IF fd = 2 + m THEN t[fds[m]] ELSE t[fd])
               = IF \E i \in s : fd = 2 + i THEN fds[fd - 2] ELSE fd
  <2>1. CASE fd = 2 + m
    BY <1>1, <1>4, <2>1
  <2>2. CASE fd # 2 + m
    <3>1. fd \in DOMAIN ListenFds \cup {2 + i : i \in s \ {m}}
      BY <2>2
    <3>2. t[fd] = IF \E i \in s \ {m} : fd = 2 + i THEN fds[fd - 2] ELSE fd
      BY <3>1 DEF Moved
    <3> QED BY <2>2, <3>2
  <2> QED BY <2>1, <2>2
<1> HIDE DEF t
<1> QED BY <1>3, <1>5 DEF Moved, dup2, t

\* The loop over dup2: with every descriptor at or above its place, and the
\* places taken in order, each one ends in its place.
LEMMA DupAllMoves ==
  ASSUME NEW n \in Nat, NEW fds \in [1 .. n -> DOMAIN ListenFds],
         DOMAIN ListenFds \subseteq Nat, ListenFds = [fd \in DOMAIN ListenFds |-> fd],
         \A k \in 1 .. n : fds[k] >= 2 + k
  PROVE  DupAll(fds) = Moved(fds, 1 .. n)
<1> DEFINE idx == [i \in DOMAIN fds |-> i]
           F(g) == [s \in SUBSET DOMAIN idx |->
                      IF s = {} THEN ListenFds
                      ELSE dup2(g[s \ {Max(s)}], fds[idx[Max(s)]], 2 + idx[Max(s)])]
           iter == CHOOSE g : g = F(g)
           moved == [s \in SUBSET DOMAIN idx |-> Moved(fds, s)]
<1>1. DupAll(fds) = iter[DOMAIN idx]
  BY DEF DupAll, FoldLeftDomain, FoldLeft, MapThenFoldSet
<1>2. DOMAIN idx = 1 .. n /\ \A k \in 1 .. n : idx[k] = k
  OBVIOUS
<1>3. Moved(fds, {}) = ListenFds
  <2>1. DOMAIN ListenFds \cup {2 + i : i \in {}} = DOMAIN ListenFds
    OBVIOUS
  <2>2. Moved(fds, {}) = [fd \in DOMAIN ListenFds |-> fd]
    BY <2>1 DEF Moved
  <2> QED BY <2>2
<1> HIDE DEF idx
<1>4. \A s \in SUBSET DOMAIN idx :
        Moved(fds, s) = IF s = {} THEN ListenFds
                        ELSE dup2(moved[s \ {Max(s)}], fds[idx[Max(s)]], 2 + idx[Max(s)])
  <2> SUFFICES ASSUME NEW s \in SUBSET (1 .. n), s # {}
               PROVE  Moved(fds, s)
                        = dup2(moved[s \ {Max(s)}], fds[idx[Max(s)]], 2 + idx[Max(s)])
    BY <1>2, <1>3
  <2>1. Max(s) \in s /\ \A y \in s : Max(s) >= y
    BY MaxUpTo
  <2>2. moved[s \ {Max(s)}] = Moved(fds, s \ {Max(s)}) /\ idx[Max(s)] = Max(s)
    BY <1>2, <2>1
  <2> HIDE DEF moved
  <2>3. PICK m \in s : m = Max(s) /\ \A y \in s : m >= y
    BY <2>1
  <2>4. dup2(Moved(fds, s \ {m}), fds[m], 2 + m) = Moved(fds, s)
    BY <2>3, OneMove
  <2> QED BY <2>2, <2>3, <2>4
<1>5. moved = F(moved)
  BY <1>4
<1> HIDE DEF moved
<1>6. iter = F(iter)
  <2> HIDE DEF F
  <2> QED BY <1>5
<1> HIDE DEF iter
<1>7. \A k \in 0 .. n : iter[1 .. k] = Moved(fds, 1 .. k)
  <2> DEFINE D == {k \in 0 .. n : iter[1 .. k] # Moved(fds, 1 .. k)}
  <2> SUFFICES ASSUME D # {}
               PROVE  FALSE
    OBVIOUS
  <2>1. D \in SUBSET Nat
    OBVIOUS
  <2> HIDE DEF D
  <2>2. PICK k \in D : \A d \in D : k <= d
    BY <2>1, LeastNatural
  <2>3. k \in 0 .. n /\ iter[1 .. k] # Moved(fds, 1 .. k)
    BY DEF D
  <2>4. (1 .. k) \in SUBSET DOMAIN idx
    BY <1>2, <2>3
  <2>5. iter[1 .. k] = IF 1 .. k = {} THEN ListenFds
                       ELSE dup2(iter[(1 .. k) \ {Max(1 .. k)}],
                                 fds[idx[Max(1 .. k)]], 2 + idx[Max(1 .. k)])
    BY <1>6, <2>4
  <2>6. CASE k = 0
    <3>1. 1 .. k = {}
      BY <2>6
    <3> QED BY <1>3, <2>3, <2>5, <3>1
  <2>7. CASE k # 0
    <3>1. k \in 1 .. k /\ (1 .. k) \in SUBSET (1 .. n) /\ k - 1 \in 0 .. n
      BY <2>3, <2>7
    <3>2. Max(1 .. k) \in 1 .. k /\ \A y \in 1 .. k : Max(1 .. k) >= y
      BY <3>1, MaxUpTo
    <3>3. Max(1 .. k) = k
      BY <2>3, <3>1, <3>2
    <3>4. (1 .. k) \ {k} = 1 .. k - 1
      BY <2>3, <2>7
    <3>5. k - 1 \notin D
      BY <2>2, <2>3
    <3>6. iter[1 .. k - 1] = Moved(fds, (1 .. k) \ {k})
      BY <3>1, <3>4, <3>5 DEF D
    <3>7. iter[1 .. k] = dup2(Moved(fds, (1 .. k) \ {k}), fds[k], 2 + k)
      BY <1>2, <2>5, <3>1, <3>3, <3>4, <3>6
    <3>8. iter[1 .. k] = Moved(fds, 1 .. k)
      BY <3>1, <3>2, <3>3, <3>7, OneMove
    <3> QED BY <2>3, <3>8
  <2> QED BY <2>6, <2>7
<1> QED BY <1>1, <1>2, <1>7

-----------------------------------------------------------------------------
(* What the plan of a configuration holds.                                 *)

\* The paths that a plan of c mounts on
Paths(c) ==
  {"/tmp", "/var/tmp", "/home", "/root", "/run/user", "/usr", "/boot", "/efi", "/etc", "/"}
  \cup ToSet(c.read_only_paths)

\* The operations that plan may make of c
Planned(c) ==
  (IF need_mountns(c)
   THEN [op : {"UnshareMount", "MakeRprivate", "PrivateDevices"}, arg : {""}]
        \cup [op : {"MountTmpfs", "BindReadOnly"}, arg : Paths(c)]
   ELSE {})
  \cup [op : {"NoNewPrivileges"}, arg : {""}]
  \cup [op : {"CapBoundingDrop"},
         arg : {cap_drop_set(cap_number(c.bounding_set), c.bounding_invert)}]
  \cup [op : {"AmbientRaise"}, arg : {cap_number(c.ambient_set)}]
  \cup (IF need_seccomp(c) THEN [op : {"Seccomp"}, arg : {build(FilterOf(c))}] ELSE {})

Levels == {"No", "Yes", "Full", "Strict"}

\* A concatenation has the elements of both.
LEMMA ConcatElements ==
  ASSUME NEW S, NEW s \in Seq(S), NEW t \in Seq(S)
  PROVE  /\ s \o t \in Seq(S) /\ ToSet(s \o t) = ToSet(s) \cup ToSet(t)
         /\ Len(s) >= 2 => /\ Len(s \o t) >= 2
                           /\ (s \o t)[1] = s[1] /\ (s \o t)[2] = s[2]
<1> DEFINE st == s \o t
<1>1. /\ st \in Seq(S) /\ Len(st) = Len(s) + Len(t)
      /\ \A i \in 1 .. Len(s) + Len(t) : st[i] = IF i <= Len(s) THEN s[i] ELSE t[i - Len(s)]
  BY ConcatProperties
<1> HIDE DEF st
<1>2. /\ Len(s) \in Nat /\ Len(t) \in Nat
      /\ DOMAIN s = 1 .. Len(s) /\ DOMAIN t = 1 .. Len(t) /\ DOMAIN st = 1 .. Len(st)
  BY <1>1
<1>3. \A i \in DOMAIN s : i \in DOMAIN st /\ st[i] = s[i]
  BY <1>1, <1>2
<1>4. \A i \in DOMAIN t : i + Len(s) \in DOMAIN st /\ st[i + Len(s)] = t[i]
  BY <1>1, <1>2
<1>5. \A i \in DOMAIN st : st[i] \in ToSet(s) \cup ToSet(t)
  <2> SUFFICES ASSUME NEW i \in DOMAIN st
               PROVE  st[i] \in ToSet(s) \cup ToSet(t)
    OBVIOUS
  <2>1. CASE i <= Len(s)
    BY <1>1, <1>2, <2>1 DEF ToSet
  <2>2. CASE i > Len(s)
    <3>1. i - Len(s) \in DOMAIN t /\ st[i] = t[i - Len(s)]
      BY <1>1, <1>2, <2>2
    <3> QED BY <3>1 DEF ToSet
  <2> QED BY <1>2, <2>1, <2>2
<1>6. ToSet(st) = ToSet(s) \cup ToSet(t)
  BY <1>3, <1>4, <1>5 DEF ToSet
<1>7. Len(s) >= 2 => Len(st) >= 2 /\ st[1] = s[1] /\ st[2] = s[2]
  BY <1>1, <1>2, <1>3
<1> QED BY <1>1, <1>6, <1>7 DEF st

\* Short sequences.
LEMMA ShortSeqs ==
  ASSUME NEW S, NEW w \in S, NEW x \in S, NEW y \in S, NEW z \in S
  PROVE  /\ <<w>> \in Seq(S) /\ <<w, x>> \in Seq(S) /\ <<w, x, y>> \in Seq(S)
         /\ <<w, x, y, z>> \in Seq(S) /\ <<>> \in Seq(S)
         /\ Len(<<w, x>>) = 2 /\ <<w, x>>[1] = w /\ <<w, x>>[2] = x
OBVIOUS

\* An optional piece of the plan.
LEMMA OpsIfElements ==
  ASSUME NEW S, NEW cond, NEW seq, cond => seq \in Seq(S)
  PROVE  /\ OpsIf(cond, seq) \in Seq(S)
         /\ cond => ToSet(OpsIf(cond, seq)) = ToSet(seq)
BY DEF OpsIf

\* A piece of one operation.
LEMMA OneOpElements ==
  ASSUME NEW S, NEW x \in S, NEW cond
  PROVE  /\ OpsIf(cond, <<x>>) \in Seq(S) /\ <<x>> \in Seq(S)
         /\ cond => x \in ToSet(OpsIf(cond, <<x>>))
         /\ x \in ToSet(<<x>>)
<1>1. <<x>> \in Seq(S) /\ <<>> \in Seq(S)
  BY ShortSeqs
<1>2. x \in ToSet(<<x>>)
  BY DEF ToSet
<1> QED BY <1>1, <1>2 DEF OpsIf

\* An operation for each of some paths.
LEMMA EachElements ==
  ASSUME NEW S, NEW P, NEW paths \in Seq(P), NEW name, \A p \in P : Op(name, p) \in S
  PROVE  /\ Each(name, paths) \in Seq(S)
         /\ \A p \in ToSet(paths) : Op(name, p) \in ToSet(Each(name, paths))
<1>1. Len(paths) \in Nat /\ DOMAIN paths = 1 .. Len(paths)
      /\ \A k \in 1 .. Len(paths) : paths[k] \in P
  OBVIOUS
<1> QED BY <1>1 DEF Each, ToSet

\* What a configuration asks for
Wanted(c) ==
  {o \in Planned(c) :
    \/ o.op = "MountTmpfs" /\ c.private_tmp /\ o.arg \in {"/tmp", "/var/tmp"}
    \/ o.op = "MountTmpfs" /\ c.protect_home = "Tmpfs" /\ o.arg \in ToSet(HomePaths)
    \/ o.op = "BindReadOnly" /\ c.protect_home = "ReadOnly" /\ o.arg \in ToSet(HomePaths)
    \/ o.op = "BindReadOnly" /\ o.arg \in ToSet(SystemPaths(c.protect_system))
    \/ o.op = "BindReadOnly" /\ o.arg \in ToSet(c.read_only_paths)
    \/ o.op = "NoNewPrivileges" /\ c.no_new_privileges
    \/ o.op = "CapBoundingDrop" /\ cap_number(c.bounding_set) # {}
    \/ o.op = "Seccomp" /\ need_seccomp(c)}

\* The mounts of a plan: private and shared ones, in a namespace made private
\* first.
LEMMA MountOpsElements ==
  ASSUME NEW c, c.protect_system \in Levels, c.read_only_paths \in Seq(STRING), need_mountns(c)
  PROVE  /\ MountOps(c) \in Seq(Planned(c))
         /\ \A o \in Wanted(c) : o.op \in {"MountTmpfs", "BindReadOnly"} => o \in ToSet(MountOps(c))
         /\ Len(MountOps(c)) >= 2 /\ MountOps(c)[2].op = "MakeRprivate"
         /\ MountOps(c)[1].op = "UnshareMount"
<1> DEFINE S == Planned(c)
           A == OpsIf(need_mountns(c), <<Op("UnshareMount", ""), Op("MakeRprivate", "")>>)
           B == OpsIf(c.private_tmp, Each("MountTmpfs", <<"/tmp", "/var/tmp">>))
           C == OpsIf(c.protect_home = "ReadOnly", Each("BindReadOnly", HomePaths))
           D == OpsIf(c.protect_home = "Tmpfs", Each("MountTmpfs", HomePaths))
           E == Each("BindReadOnly", SystemPaths(c.protect_system))
           F == Each("BindReadOnly", c.read_only_paths)
           G == OpsIf(c.private_devices, <<Op("PrivateDevices", "")>>)
           P == Paths(c)
<1>1. /\ \A p \in P : Op("MountTmpfs", p) \in S /\ Op("BindReadOnly", p) \in S
      /\ Op("UnshareMount", "") \in S /\ Op("MakeRprivate", "") \in S
      /\ Op("PrivateDevices", "") \in S
  BY DEF Planned, Op
<1>2. /\ <<"/tmp", "/var/tmp">> \in Seq(P) /\ HomePaths \in Seq(P)
      /\ SystemPaths(c.protect_system) \in Seq(P) /\ c.read_only_paths \in Seq(P)
  <2>1. {"/tmp", "/var/tmp", "/home", "/root", "/run/user", "/usr", "/boot", "/efi", "/etc", "/"}
          \subseteq P
    BY DEF Paths
  <2> HIDE DEF P
  <2>2. <<"/tmp", "/var/tmp">> \in Seq(P) /\ HomePaths \in Seq(P)
    BY <2>1 DEF HomePaths
  <2>3. /\ <<>> \in Seq(P) /\ <<"/">> \in Seq(P)
        /\ <<"/usr", "/boot", "/efi">> \in Seq(P)
        /\ <<"/usr", "/boot", "/efi", "/etc">> \in Seq(P)
    BY <2>1
  <2>4. SystemPaths(c.protect_system)
          \in {<<>>, <<"/">>, <<"/usr", "/boot", "/efi">>, <<"/usr", "/boot", "/efi", "/etc">>}
    BY DEF SystemPaths, Levels
  <2>5. c.read_only_paths \in Seq(ToSet(c.read_only_paths)) /\ ToSet(c.read_only_paths) \subseteq P
    <3>1. PICK ro \in Seq(STRING) : ro = c.read_only_paths
      OBVIOUS
    <3>2. ro \in Seq(ToSet(ro))
      BY DEF ToSet
    <3> QED BY <3>1, <3>2 DEF P, Paths
  <2>6. c.read_only_paths \in Seq(P)
    BY <2>5, SeqMonotonic
  <2> QED BY <2>2, <2>3, <2>4, <2>6
<1>3. ToSet(<<"/tmp", "/var/tmp">>) = {"/tmp", "/var/tmp"}
  BY DEF ToSet
<1>4. \A o \in S : o = Op(o.op, o.arg)
  <2> SUFFICES ASSUME NEW o \in S
               PROVE  o = Op(o.op, o.arg)
    OBVIOUS
  <2>1. PICK names, args : o \in [op : names, arg : args]
    BY DEF Planned
  <2> QED BY <2>1 DEF Op
<1> HIDE DEF S, P
<1>5. A \in Seq(S) /\ A = <<Op("UnshareMount", ""), Op("MakeRprivate", "")>>
  BY <1>1, ShortSeqs DEF OpsIf
<1>6. /\ B \in Seq(S)
      /\ c.private_tmp => \A p \in {"/tmp", "/var/tmp"} : Op("MountTmpfs", p) \in ToSet(B)
  <2>1. Each("MountTmpfs", <<"/tmp", "/var/tmp">>) \in Seq(S)
        /\ \A p \in {"/tmp", "/var/tmp"} :
             Op("MountTmpfs", p) \in ToSet(Each("MountTmpfs", <<"/tmp", "/var/tmp">>))
    BY <1>1, <1>2, <1>3, EachElements
  <2> QED BY <2>1, OpsIfElements
<1>7. /\ C \in Seq(S)
      /\ c.protect_home = "ReadOnly" =>
           \A p \in ToSet(HomePaths) : Op("BindReadOnly", p) \in ToSet(C)
  <2>1. Each("BindReadOnly", HomePaths) \in Seq(S)
        /\ \A p \in ToSet(HomePaths) : Op("BindReadOnly", p) \in ToSet(Each("BindReadOnly", HomePaths))
    BY <1>1, <1>2, EachElements
  <2>2. /\ C \in Seq(S)
        /\ c.protect_home = "ReadOnly" => ToSet(C) = ToSet(Each("BindReadOnly", HomePaths))
    BY <2>1 DEF OpsIf
  <2> HIDE DEF C
  <2> QED BY <2>1, <2>2
<1>8. /\ D \in Seq(S)
      /\ c.protect_home = "Tmpfs" =>
           \A p \in ToSet(HomePaths) : Op("MountTmpfs", p) \in ToSet(D)
  <2>1. Each("MountTmpfs", HomePaths) \in Seq(S)
        /\ \A p \in ToSet(HomePaths) : Op("MountTmpfs", p) \in ToSet(Each("MountTmpfs", HomePaths))
    BY <1>1, <1>2, EachElements
  <2>2. /\ D \in Seq(S)
        /\ c.protect_home = "Tmpfs" => ToSet(D) = ToSet(Each("MountTmpfs", HomePaths))
    BY <2>1 DEF OpsIf
  <2> HIDE DEF D
  <2> QED BY <2>1, <2>2
<1>9. /\ E \in Seq(S)
      /\ \A p \in ToSet(SystemPaths(c.protect_system)) : Op("BindReadOnly", p) \in ToSet(E)
  BY <1>1, <1>2, EachElements
<1>10. F \in Seq(S) /\ \A p \in ToSet(c.read_only_paths) : Op("BindReadOnly", p) \in ToSet(F)
  BY <1>1, <1>2, EachElements
<1>11. G \in Seq(S)
  BY <1>1, ShortSeqs DEF OpsIf
<1>12. MountOps(c) = A \o B \o C \o D \o E \o F \o G
  BY DEF MountOps
<1> HIDE DEF A, B, C, D, E, F, G
<1> DEFINE Begins(t) == t \in Seq(S) /\ Len(t) >= 2 /\ t[1] = A[1] /\ t[2] = A[2]
           AB == A \o B
           AC == AB \o C
           AD == AC \o D
           AE == AD \o E
           AF == AE \o F
           AG == AF \o G
<1>13. Begins(A \o B) /\ ToSet(A \o B) = ToSet(A) \cup ToSet(B)
  <2>1. Len(<<Op("UnshareMount", ""), Op("MakeRprivate", "")>>) = 2
    BY <1>1, ShortSeqs
  <2>2. Len(A) >= 2 /\ A \in Seq(S)
    <3>1. Len(A) = 2 /\ A \in Seq(S)
      BY <1>5, <2>1, Zenon
    <3> QED BY <3>1
  <2> QED BY <2>2, <1>6, ConcatElements
<1>14. Begins(AC) /\ ToSet(AC) = ToSet(AB) \cup ToSet(C)
  <2> HIDE DEF AB
  <2>1. Begins(AB) /\ C \in Seq(S)
    BY <1>13, <1>7 DEF AB
  <2> QED BY <2>1, ConcatElements
<1>15. Begins(AD) /\ ToSet(AD) = ToSet(AC) \cup ToSet(D)
  <2> HIDE DEF AC
  <2>1. Begins(AC) /\ D \in Seq(S)
    BY <1>14, <1>8 DEF AC
  <2> QED BY <2>1, ConcatElements
<1>16. Begins(AE) /\ ToSet(AE) = ToSet(AD) \cup ToSet(E)
  <2> HIDE DEF AD
  <2>1. Begins(AD) /\ E \in Seq(S)
    BY <1>15, <1>9 DEF AD
  <2> QED BY <2>1, ConcatElements
<1>17. Begins(AF) /\ ToSet(AF) = ToSet(AE) \cup ToSet(F)
  <2> HIDE DEF AE
  <2>1. Begins(AE) /\ F \in Seq(S)
    BY <1>16, <1>10 DEF AE
  <2> QED BY <2>1, ConcatElements
<1>18. Begins(AG) /\ ToSet(AG) = ToSet(AF) \cup ToSet(G)
  <2> HIDE DEF AF
  <2>1. Begins(AF) /\ G \in Seq(S)
    BY <1>17, <1>11 DEF AF
  <2> QED BY <2>1, ConcatElements
<1>19. AG = MountOps(c)
  BY <1>12
<1>20. \A o \in Wanted(c) : o.op \in {"MountTmpfs", "BindReadOnly"} => o \in ToSet(AG)
  <2> SUFFICES ASSUME NEW o \in Wanted(c), o.op \in {"MountTmpfs", "BindReadOnly"}
               PROVE  o \in ToSet(AG)
    OBVIOUS
  <2>1. o = Op(o.op, o.arg)
    BY <1>4 DEF Wanted, S
  <2>2. o \in ToSet(B) \/ o \in ToSet(C) \/ o \in ToSet(D) \/ o \in ToSet(E) \/ o \in ToSet(F)
    BY <2>1, <1>6, <1>7, <1>8, <1>9, <1>10 DEF Wanted
  <2> QED BY <2>2, <1>13, <1>14, <1>15, <1>16, <1>17, <1>18
<1>21. AG[1].op = "UnshareMount" /\ AG[2].op = "MakeRprivate"
  <2> HIDE DEF AG
  <2>1. AG[1] = Op("UnshareMount", "") /\ AG[2] = Op("MakeRprivate", "")
    BY <1>5, <1>18
  <2>2. Op("UnshareMount", "").op = "UnshareMount" /\ Op("MakeRprivate", "").op = "MakeRprivate"
    BY DEF Op
  <2> QED BY <2>1, <2>2
<1>22. AG \in Seq(Planned(c)) /\ Len(AG) >= 2
  BY <1>18 DEF S
<1> HIDE DEF AG
<1>23. \E t : /\ t = MountOps(c) /\ t \in Seq(Planned(c)) /\ Len(t) >= 2
              /\ t[1].op = "UnshareMount" /\ t[2].op = "MakeRprivate"
              /\ \A o \in Wanted(c) : o.op \in {"MountTmpfs", "BindReadOnly"} => o \in ToSet(t)
  BY <1>19, <1>20, <1>21, <1>22
<1> QED BY <1>23

\* A plan: what the configuration asks for is in it, and no mount comes before
\* the namespace is private.
LEMMA PlanProperties ==
  ASSUME NEW c, c.protect_system \in Levels, c.read_only_paths \in Seq(STRING)
  PROVE  /\ plan(c) \in Seq(Planned(c))
         /\ Wanted(c) \subseteq ToSet(plan(c))
         /\ need_mountns(c) => Len(plan(c)) >= 2 /\ plan(c)[1].op = "UnshareMount"
                                /\ plan(c)[2].op = "MakeRprivate"
<1> DEFINE S == Planned(c)
           M == MountOps(c)
           N == OpsIf(c.no_new_privileges, <<Op("NoNewPrivileges", "")>>)
           cap == Op("CapBoundingDrop", cap_drop_set(cap_number(c.bounding_set), c.bounding_invert))
           B == OpsIf(cap_number(c.bounding_set) # {}, <<cap>>)
           A == OpsIf(cap_number(c.ambient_set) # {}, <<Op("AmbientRaise", cap_number(c.ambient_set))>>)
           F == SeccompOps(c)
           filter == Op("Seccomp", build(FilterOf(c)))
<1>1. /\ Op("NoNewPrivileges", "") \in S /\ cap \in S /\ (need_seccomp(c) => filter \in S)
      /\ Op("AmbientRaise", cap_number(c.ambient_set)) \in S
  BY DEF Planned, Op
<1>2. /\ M \in Seq(S)
      /\ need_mountns(c) => Len(M) >= 2 /\ M[1].op = "UnshareMount" /\ M[2].op = "MakeRprivate"
      /\ \A o \in Wanted(c) : o.op \in {"MountTmpfs", "BindReadOnly"} => o \in ToSet(M)
  <2>1. CASE need_mountns(c)
    BY <2>1, MountOpsElements
  <2>2. CASE ~need_mountns(c)
    <3>1. SystemPaths(c.protect_system) = <<>> /\ c.read_only_paths = <<>>
      BY <2>2 DEF need_mountns, SystemPaths
    <3>2. \A name : Each(name, <<>>) = <<>>
      BY DEF Each
    <3>3. M = <<>> \o <<>> \o <<>> \o <<>> \o <<>> \o <<>> \o <<>>
      BY <2>2, <3>1, <3>2 DEF MountOps, OpsIf, need_mountns
    <3>4. M = <<>> /\ <<>> \in Seq(S)
      BY <3>3
    <3>5. \A o \in Wanted(c) : o.op \notin {"MountTmpfs", "BindReadOnly"}
      BY <2>2 DEF Wanted, Planned
    <3> QED BY <2>2, <3>4, <3>5
  <2> QED BY <2>1, <2>2
<1> HIDE DEF S, M
<1>3. N \in Seq(S) /\ (c.no_new_privileges => Op("NoNewPrivileges", "") \in ToSet(N))
  BY <1>1, OneOpElements
<1>4. B \in Seq(S) /\ (cap_number(c.bounding_set) # {} => cap \in ToSet(B))
  BY <1>1, OneOpElements
<1>5. A \in Seq(S)
  BY <1>1, OneOpElements
<1>6. F \in Seq(S) /\ (need_seccomp(c) => filter \in ToSet(F))
  <2>0. CASE ~need_seccomp(c)
    BY <2>0 DEF SeccompOps, OpsIf
  <2> SUFFICES ASSUME need_seccomp(c)
               PROVE  F \in Seq(S) /\ filter \in ToSet(F)
    BY <2>0
  <2> DEFINE I == OpsIf(~c.no_new_privileges, <<Op("NoNewPrivileges", "")>>)
  <2>1. I \in Seq(S) /\ <<filter>> \in Seq(S) /\ filter \in ToSet(<<filter>>)
    BY <1>1, OneOpElements
  <2>2. F = OpsIf(need_seccomp(c), I \o <<filter>>)
    BY DEF SeccompOps
  <2> DEFINE one == <<filter>>
  <2> HIDE DEF I, F, filter, one
  <2>3. I \in Seq(S) /\ one \in Seq(S) /\ filter \in ToSet(one)
    BY <2>1 DEF one
  <2>4. I \o one \in Seq(S) /\ filter \in ToSet(I \o one)
    BY <2>3, ConcatElements
  <2>5. <<>> \in Seq(S)
    OBVIOUS
  <2>6. F = OpsIf(need_seccomp(c), I \o one)
    BY <2>2 DEF one
  <2> QED BY <2>4, <2>5, <2>6 DEF OpsIf
<1>7. plan(c) = OpsIf(has_sandbox(c), M \o N \o B \o A \o F)
  BY DEF plan, M
<1> DEFINE MN == M \o N
           MB == MN \o B
           MA == MB \o A
           MF == MA \o F
           Begins(t) == /\ t \in Seq(S)
                        /\ Len(M) >= 2 => Len(t) >= 2 /\ t[1] = M[1] /\ t[2] = M[2]
<1> HIDE DEF N, B, A, F
<1>8. Begins(MN) /\ ToSet(MN) = ToSet(M) \cup ToSet(N)
  <2>1. M \in Seq(S) /\ N \in Seq(S)
    BY <1>2, <1>3
  <2> QED BY <2>1, ConcatElements
<1>9. Begins(MB) /\ ToSet(MB) = ToSet(MN) \cup ToSet(B)
  <2> HIDE DEF MN
  <2> QED BY <1>8, <1>4, ConcatElements
<1>10. Begins(MA) /\ ToSet(MA) = ToSet(MB) \cup ToSet(A)
  <2> HIDE DEF MB
  <2> QED BY <1>9, <1>5, ConcatElements
<1>11. Begins(MF) /\ ToSet(MF) = ToSet(MA) \cup ToSet(F)
  <2> HIDE DEF MA
  <2> QED BY <1>10, <1>6, ConcatElements
<1>12. plan(c) = OpsIf(has_sandbox(c), MF)
  BY <1>7
<1> HIDE DEF MN, MB, MA, MF
<1>13. \A o \in Wanted(c) : o \in ToSet(MF)
  <2> SUFFICES ASSUME NEW o \in Wanted(c)
               PROVE  o \in ToSet(MF)
    OBVIOUS
  <2>1. CASE o.op \in {"MountTmpfs", "BindReadOnly"}
    BY <2>1, <1>2, <1>8, <1>9, <1>10, <1>11
  <2>2. CASE o.op = "NoNewPrivileges"
    <3>1. o = Op("NoNewPrivileges", "") /\ c.no_new_privileges
      BY <2>2 DEF Wanted, Planned, Op
    <3> QED BY <3>1, <1>3, <1>8, <1>9, <1>10, <1>11
  <2>3. CASE o.op = "CapBoundingDrop"
    <3>1. o = cap /\ cap_number(c.bounding_set) # {}
      BY <2>3 DEF Wanted, Planned, Op
    <3> QED BY <3>1, <1>4, <1>9, <1>10, <1>11
  <2>4. CASE o.op = "Seccomp"
    <3>1. o = filter /\ need_seccomp(c)
      BY <2>4 DEF Wanted, Planned, Op
    <3> QED BY <3>1, <1>6, <1>11
  <2> QED BY <2>1, <2>2, <2>3, <2>4 DEF Wanted
<1>14. CASE has_sandbox(c)
  <2>1. plan(c) = MF
    BY <1>12, <1>14 DEF OpsIf
  <2> QED BY <2>1, <1>2, <1>11, <1>13 DEF S
<1>15. CASE ~has_sandbox(c)
  <2>1. plan(c) = <<>> /\ ~need_mountns(c)
    BY <1>12, <1>15 DEF OpsIf, has_sandbox
  <2>2. cap_number(c.bounding_set) = {}
    BY <1>15 DEF has_sandbox, cap_number
  <2>3. Wanted(c) = {}
    BY <1>15, <2>1, <2>2 DEF Wanted, Planned, has_sandbox
  <2> QED BY <2>1, <2>3
<1> QED BY <1>14, <1>15

-----------------------------------------------------------------------------
(* The invariant of a start.                                               *)

\* The steps from one of them on
AfterSetSid   == {"dup2", "cgroup", "sandbox", "chdir", "setgroups", "setgid", "setuid",
                  "umask", "nice", "rlimit", "exec", "running"}
AfterDup      == AfterSetSid \ {"dup2"}
AfterApply    == AfterDup \ {"cgroup", "sandbox"}
AfterChDir    == AfterApply \ {"chdir"}
AfterGroups   == AfterChDir \ {"setgroups"}
AfterGid      == AfterGroups \ {"setgid"}
AfterUid      == AfterGid \ {"setuid"}
AfterLimit    == {"exec", "running"}
Steps         == {"sigmask", "setsid"} \cup AfterSetSid
Ends          == {"failed", "error"}

\* The operation has been carried out
Done(o) ==
  /\ o.op = "MakeRprivate" => child.private
  /\ o.op = "MountTmpfs" => o.arg \in child.shadowed
  /\ o.op = "BindReadOnly" /\ root /\ o.arg \in Visible => o.arg \in child.readonly
  /\ o.op = "NoNewPrivileges" => child.nnp
  /\ o.op = "CapBoundingDrop" => child.dropped = o.arg
  /\ o.op = "Seccomp" => child.filter = o.arg

IsMount(o) == o.op \in {"MountTmpfs", "BindReadOnly"}

\* What is planned is still to be done or is done, unless it was skipped; and
\* nothing is mounted before the namespace is private.
PlanInv ==
  /\ ops \in Seq(Planned(Cfg))
  /\ ~child.skipped => \A o \in Wanted(Cfg) : o \in ToSet(ops) \/ Done(o)
  /\ \/ child.private
     \/ /\ child.shadowed = {} /\ child.readonly = {}
        /\ \A k \in DOMAIN ops : IsMount(ops[k]) => \E j \in 1 .. k - 1 : ops[j].op = "MakeRprivate"
  /\ phase \in AfterApply => ops = <<>>

\* The attributes, each from its step on
AttrInv ==
  /\ phase # "sigmask" => child.mask = "empty"
  /\ phase \in AfterSetSid => child.sid
  /\ phase \in AfterDup /\ socket_fds_for # <<>> =>
       child.fds = Moved(socket_fds_for, DOMAIN socket_fds_for)
  /\ phase \in AfterChDir /\ attr.WorkingDirectory # "" => child.cwd = attr.WorkingDirectory
  /\ child.groups = IF phase \in AfterGroups /\ attr.User # "" THEN attr.User ELSE "manager"
  /\ phase \in AfterGid /\ attr.Group # "" => child.gid = attr.Group
  /\ child.uid = IF phase \in AfterUid /\ attr.User # "" THEN attr.User ELSE "manager"
  /\ phase \in AfterLimit /\ attr.Limit # "" => child.limits = attr.Limit

ChildInv ==
  /\ phase \in {"load", "plan"} \cup Steps \cup Ends
  /\ DOMAIN child = DOMAIN Forked
  /\ phase # "load" => raw \in Raws /\ attr \in Attrs
  /\ phase \in {"load", "plan"} => child = Forked /\ ops = <<>>
  /\ phase \in Steps => PlanInv /\ AttrInv

\* A unit that was parsed has one of the levels and a list of paths.
LEMMA ParsedConfig ==
  ASSUME raw \in Raws
  PROVE  Cfg.protect_system \in Levels /\ Cfg.read_only_paths \in Seq(STRING)
<1>1. raw.ReadOnlyPaths \in Seq(STRING)
  BY RawsAssumption
<1>2. parse_protect_system(raw.ProtectSystem) \in Levels
  BY DEF parse_protect_system, Levels
<1> QED BY <1>1, <1>2 DEF Cfg, parse_sandbox

\* A plan has one drop of capabilities and one filter at most, and mounts only
\* in a namespace.
LEMMA PlannedOps ==
  ASSUME NEW c, NEW o \in Planned(c)
  PROVE  /\ \A q \in Planned(c) :
              o.op = q.op /\ o.op \in {"CapBoundingDrop", "Seccomp"} => o.arg = q.arg
         /\ IsMount(o) => need_mountns(c)
         /\ o.op = "Seccomp" => need_seccomp(c) /\ o.arg = build(FilterOf(c))
BY DEF Planned, IsMount

\* Mounts hide paths and bring none.
LEMMA VisibleLess ==
  ASSUME UNCHANGED present, child.shadowed \subseteq child'.shadowed
  PROVE  Visible' \subseteq Visible
BY DEF Visible

\* A step that is not about the sandbox.
LEMMA PlanKept ==
  ASSUME PlanInv, UNCHANGED <<root, present, raw, ops>>,
         UNCHANGED <<child.private, child.shadowed, child.readonly, child.nnp,
                     child.dropped, child.filter, child.skipped>>,
         phase' \in AfterApply => ops = <<>>
  PROVE  PlanInv'
<1>1. Cfg' = Cfg
  BY DEF Cfg
<1>2. Visible' \subseteq Visible
  BY VisibleLess
<1>3. \A o : Done(o) => Done(o)'
  BY <1>2 DEF Done
<1> QED BY <1>1, <1>3 DEF PlanInv

\* The listeners of a unit stay the same.
LEMMA FdsKept ==
  ASSUME UNCHANGED attr
  PROVE  /\ socket_fds_for' = socket_fds_for
         /\ Moved(socket_fds_for, DOMAIN socket_fds_for)'
              = Moved(socket_fds_for, DOMAIN socket_fds_for)
BY DEF socket_fds_for, Moved, ListenFds

\* One operation less to do, and done.
LEMMA OpApplied ==
  ASSUME ChildInv, phase = "sandbox", ops # <<>>, ops' = Tail(ops), Keep, UNCHANGED phase,
         DOMAIN child' = DOMAIN child,
         UNCHANGED <<child.skipped, child.mask, child.sid, child.fds, child.cwd, child.groups,
                     child.gid, child.uid, child.limits>>,
         \A o \in Planned(Cfg) : Done(o) => Done(o)',
         NEW h, h = Head(ops), Done(h)',
         child.private => child'.private,
         IsMount(h) \/ UNCHANGED <<child.shadowed, child.readonly>>
  PROVE  ChildInv'
<1>1. PlanInv /\ AttrInv /\ raw \in Raws /\ attr \in Attrs
  BY DEF ChildInv, Steps, AfterSetSid
<1>2. ops \in Seq(Planned(Cfg)) /\ Cfg' = Cfg
  BY <1>1 DEF PlanInv, Cfg, Keep
<1>3. /\ ops' \in Seq(Planned(Cfg)) /\ Len(ops) \in Nat /\ Len(ops) >= 1
      /\ DOMAIN ops = 1 .. Len(ops) /\ DOMAIN ops' = 1 .. Len(ops) - 1
      /\ \A k \in DOMAIN ops' : k + 1 \in DOMAIN ops /\ ops'[k] = ops[k + 1]
      /\ Head(ops) = ops[1] /\ 1 \in DOMAIN ops
  <2>1. PICK q \in Seq(Planned(Cfg)) : q = ops
    BY <1>2
  <2>2. /\ Tail(q) \in Seq(Planned(Cfg)) /\ Len(q) \in Nat /\ Len(q) >= 1
        /\ DOMAIN q = 1 .. Len(q) /\ DOMAIN Tail(q) = 1 .. Len(q) - 1
        /\ \A k \in DOMAIN Tail(q) : k + 1 \in DOMAIN q /\ Tail(q)[k] = q[k + 1]
        /\ Head(q) = q[1] /\ 1 \in DOMAIN q
    BY <2>1
  <2> QED BY <2>1, <2>2
<1>4. \A o \in ToSet(ops) : o = Head(ops) \/ o \in ToSet(ops')
  <2> SUFFICES ASSUME NEW k \in DOMAIN ops, k # 1
               PROVE  ops[k] \in ToSet(ops')
    BY <1>3 DEF ToSet
  <2>1. k - 1 \in DOMAIN ops' /\ (k - 1) + 1 = k
    BY <1>3
  <2> QED BY <1>3, <2>1 DEF ToSet
<1>5. ~child.skipped' => \A o \in Wanted(Cfg) : o \in ToSet(ops') \/ Done(o)'
  <2>1. Wanted(Cfg) \subseteq Planned(Cfg)
    BY DEF Wanted
  <2> QED BY <1>1, <1>4, <2>1 DEF PlanInv
<1>6. ASSUME ~child'.private
      PROVE  /\ child'.shadowed = {} /\ child'.readonly = {}
             /\ \A k \in DOMAIN ops' :
                  IsMount(ops'[k]) => \E j \in 1 .. k - 1 : ops'[j].op = "MakeRprivate"
  <2>1. /\ child.shadowed = {} /\ child.readonly = {}
        /\ \A k \in DOMAIN ops : IsMount(ops[k]) => \E j \in 1 .. k - 1 : ops[j].op = "MakeRprivate"
    BY <1>1, <1>6 DEF PlanInv
  <2>2. ~IsMount(ops[1])
    BY <2>1, <1>3
  <2>3. ops[1].op # "MakeRprivate"
    BY <1>3, <1>6 DEF Done
  <2>4. ASSUME NEW k \in DOMAIN ops', IsMount(ops'[k])
        PROVE  \E j \in 1 .. k - 1 : ops'[j].op = "MakeRprivate"
    <3>1. PICK j \in 1 .. k : ops[j].op = "MakeRprivate"
      BY <1>3, <2>1, <2>4
    <3>2. j # 1 /\ j - 1 \in 1 .. k - 1 /\ j - 1 \in DOMAIN ops' /\ (j - 1) + 1 = j
      BY <1>3, <2>3, <3>1
    <3>3. ops'[j - 1] = ops[j]
      BY <1>3, <3>2
    <3> QED BY <3>1, <3>2, <3>3
  <2> QED BY <1>3, <2>1, <2>2, <2>4
<1>7. PlanInv'
  BY <1>2, <1>3, <1>5, <1>6 DEF PlanInv, IsMount, AfterApply, AfterDup, AfterSetSid
<1>8. AttrInv'
  BY <1>1, FdsKept DEF AttrInv, Keep
<1> QED BY <1>1, <1>7, <1>8 DEF ChildInv, Keep, Steps, AfterSetSid

\* A step that fails ends the start.
LEMMA Failing ==
  ASSUME ChildInv, phase # "load", Keep, Fail
  PROVE  ChildInv'
BY DEF ChildInv, Keep, Fail, Steps, Ends, AfterSetSid

\* The listeners of a unit: sorted, and each in its place when the loop is done.
LEMMA ListenersMoved ==
  ASSUME attr \in Attrs
  PROVE  /\ DupAll(socket_fds_for) = Moved(socket_fds_for, DOMAIN socket_fds_for)
         /\ DOMAIN socket_fds_for = 1 .. Len(attr.Listeners)
<1> DEFINE L == ToSet(attr.Listeners)
           n == Len(attr.Listeners)
           fds == Asc(L)
<1>1. attr.Listeners \in Seq(Nat \ 0..2) /\ IsInjective(attr.Listeners)
  BY AttrsAssumption
<1>2. n \in Nat /\ L \in SUBSET (Nat \ 0..2) /\ attr.Listeners \in [1 .. n -> L]
  BY <1>1 DEF ToSet
<1>3. IsFiniteSet(L) /\ Cardinality(L) = n
  <2>1. attr.Listeners \in Bijection(1 .. n, L)
    BY <1>1, <1>2 DEF Bijection, Injection, Surjection, IsInjective, ToSet
  <2>2. IsFiniteSet(1 .. n) /\ Cardinality(1 .. n) = n
    <3> HIDE DEF n
    <3> QED BY <1>2, FS_Interval
  <2> QED BY <2>1, <2>2, FS_Bijection DEF ExistsBijection
<1>4. fds \in [1 .. n -> L] /\ \A k \in 1 .. n : fds[k] >= 2 + k
  <2>1. L \in SUBSET Nat
    BY <1>2
  <2> HIDE DEF L, n
  <2> QED BY <1>2, <1>3, <2>1, AscProperties, AscAbovePlace
<1>5. ListenFds = [fd \in L |-> fd]
  BY DEF ListenFds
<1>6. fds = socket_fds_for
  BY DEF socket_fds_for
<1> HIDE DEF L, n, fds
<1>7. DOMAIN ListenFds = L /\ L \subseteq Nat /\ DOMAIN fds = 1 .. n
  BY <1>2, <1>4, <1>5
<1>8. DupAll(fds) = Moved(fds, 1 .. n)
  BY <1>2, <1>4, <1>5, <1>7, DupAllMoves
<1> QED BY <1>6, <1>7, <1>8 DEF n

\* The fields of a child.
LEMMA ForkedFields ==
  DOMAIN Forked = {"mask", "sid", "cgroup", "ns", "private", "shadowed", "readonly", "devices", "nnp",
                   "dropped", "ambient", "filter", "skipped", "fds", "cwd", "groups", "gid",
                   "uid", "umask", "nice", "limits"}
BY DEF Forked

\* A step around the sandbox: it goes on to the next one, with the attribute set
\* where the unit has it.
LEMMA SetupStep ==
  ASSUME ChildInv, Keep, UNCHANGED ops, phase \in Steps, phase' \in Steps,
         DOMAIN child' = DOMAIN child,
         UNCHANGED <<child.private, child.shadowed, child.readonly, child.nnp,
                     child.dropped, child.filter, child.skipped>>,
         phase' \in AfterApply => phase \in AfterApply,
         AttrInv'
  PROVE  ChildInv'
<1>1. PlanInv /\ PlanInv'
  BY PlanKept DEF ChildInv, PlanInv, Keep
<1> QED BY <1>1 DEF ChildInv, Keep, Steps, AfterSetSid

\* The signal mask.
LEMMA SigMaskInv ==
  ASSUME ChildInv, SigMask
  PROVE  ChildInv'
<1>1. /\ phase = "sigmask" /\ phase \in Steps /\ Keep
      /\ PlanInv /\ AttrInv /\ raw \in Raws /\ attr \in Attrs
  BY DEF ChildInv, Steps, AfterSetSid, SigMask, HardStep
<1>2. CASE Fail
  BY <1>1, <1>2, Failing
<1>3. CASE phase' = "setsid" /\ UNCHANGED ops
  <2>1. child' = [child EXCEPT !.mask = "empty"]
    BY <1>3 DEF SigMask, HardStep, Fail, GoTo
  <2>2. DOMAIN child = DOMAIN Forked
    BY DEF ChildInv
  <2>3. /\ DOMAIN child' = DOMAIN child
        /\ UNCHANGED <<child.private, child.shadowed, child.readonly, child.nnp,
                       child.dropped, child.filter, child.skipped>>
    BY <2>1, <2>2, ForkedFields
  <2>4. AttrInv'
    BY <1>1, <1>3, <2>1, <2>2, ForkedFields, FdsKept
    DEF AttrInv, Keep, AfterSetSid, AfterDup, AfterApply, AfterChDir, AfterGroups, AfterGid,
        AfterUid, AfterLimit
  <2> QED BY <1>1, <1>3, <2>3, <2>4, SetupStep
    DEF Steps, AfterSetSid, AfterDup, AfterApply, AfterChDir, AfterGroups, AfterGid,
        AfterUid, AfterLimit
<1> QED BY <1>2, <1>3 DEF SigMask, HardStep, GoTo

\* The session.
LEMMA SetSidInv ==
  ASSUME ChildInv, SetSid
  PROVE  ChildInv'
<1>1. /\ phase = "setsid" /\ phase \in Steps /\ Keep
      /\ PlanInv /\ AttrInv /\ raw \in Raws /\ attr \in Attrs
  BY DEF ChildInv, Steps, AfterSetSid, SetSid, HardStep
<1>2. CASE Fail
  BY <1>1, <1>2, Failing
<1>3. CASE phase' = "dup2" /\ UNCHANGED ops
  <2>1. child' = [child EXCEPT !.sid = TRUE]
    BY <1>3 DEF SetSid, HardStep, Fail, GoTo
  <2>2. DOMAIN child = DOMAIN Forked
    BY DEF ChildInv
  <2>3. /\ DOMAIN child' = DOMAIN child
        /\ UNCHANGED <<child.private, child.shadowed, child.readonly, child.nnp,
                       child.dropped, child.filter, child.skipped>>
    BY <2>1, <2>2, ForkedFields
  <2>4. AttrInv'
    BY <1>1, <1>3, <2>1, <2>2, ForkedFields, FdsKept
    DEF AttrInv, Keep, AfterSetSid, AfterDup, AfterApply, AfterChDir, AfterGroups, AfterGid,
        AfterUid, AfterLimit
  <2> QED BY <1>1, <1>3, <2>3, <2>4, SetupStep
    DEF Steps, AfterSetSid, AfterDup, AfterApply, AfterChDir, AfterGroups, AfterGid,
        AfterUid, AfterLimit
<1> QED BY <1>2, <1>3 DEF SetSid, HardStep, GoTo

\* The listeners: the loop over dup2.
LEMMA DupListenersInv ==
  ASSUME ChildInv, DupListeners
  PROVE  ChildInv'
<1>1. /\ phase = "dup2" /\ phase \in Steps /\ Keep
      /\ PlanInv /\ AttrInv /\ raw \in Raws /\ attr \in Attrs
  BY DEF ChildInv, Steps, AfterSetSid, DupListeners, HardStep
<1>2. CASE Fail
  BY <1>1, <1>2, Failing
<1>3. CASE phase' = "cgroup" /\ UNCHANGED ops
  <2>1. \/ socket_fds_for # <<>> /\ child' = [child EXCEPT !.fds = DupAll(socket_fds_for)]
        \/ ~(socket_fds_for # <<>>) /\ child' = child
    BY <1>3 DEF DupListeners, HardStep, Fail, GoTo
  <2>2. DOMAIN child = DOMAIN Forked
    BY DEF ChildInv
  <2>3. /\ DOMAIN child' = DOMAIN child
        /\ UNCHANGED <<child.private, child.shadowed, child.readonly, child.nnp,
                       child.dropped, child.filter, child.skipped>>
    BY <2>1, <2>2, ForkedFields
  <2>4. AttrInv'
    BY <1>1, <1>3, <2>1, <2>2, ForkedFields, FdsKept, ListenersMoved
    DEF AttrInv, Keep, AfterSetSid, AfterDup, AfterApply, AfterChDir, AfterGroups, AfterGid,
        AfterUid, AfterLimit
  <2> QED BY <1>1, <1>3, <2>3, <2>4, SetupStep
    DEF Steps, AfterSetSid, AfterDup, AfterApply, AfterChDir, AfterGroups, AfterGid,
        AfterUid, AfterLimit
<1> QED BY <1>2, <1>3 DEF DupListeners, HardStep, GoTo

\* The control group, where there is one.
LEMMA JoinCgroupInv ==
  ASSUME ChildInv, JoinCgroup
  PROVE  ChildInv'
<1>1. /\ phase = "cgroup" /\ phase \in Steps /\ Keep
      /\ PlanInv /\ AttrInv /\ raw \in Raws /\ attr \in Attrs
  BY DEF ChildInv, Steps, AfterSetSid, JoinCgroup, SoftStep
<1>3. phase' = "sandbox" /\ UNCHANGED ops
  BY DEF JoinCgroup, SoftStep, GoTo
<1>4. /\ DOMAIN child' = DOMAIN child
      /\ UNCHANGED <<child.private, child.shadowed, child.readonly, child.nnp,
                     child.dropped, child.filter, child.skipped>>
  BY <1>1, <1>3, ForkedFields DEF JoinCgroup, SoftStep, ChildInv
<1>5. AttrInv'
  BY <1>1, <1>3, ForkedFields, FdsKept
  DEF JoinCgroup, SoftStep, ChildInv, AttrInv, Keep, Steps, AfterSetSid, AfterDup,
      AfterApply, AfterChDir, AfterGroups, AfterGid, AfterUid, AfterLimit
<1> QED BY <1>1, <1>3, <1>4, <1>5, SetupStep
  DEF Steps, AfterSetSid, AfterDup, AfterApply, AfterChDir, AfterGroups, AfterGid,
      AfterUid, AfterLimit

\* The working directory.
LEMMA ChDirInv ==
  ASSUME ChildInv, ChDir
  PROVE  ChildInv'
<1>1. /\ phase = "chdir" /\ phase \in Steps /\ Keep
      /\ PlanInv /\ AttrInv /\ raw \in Raws /\ attr \in Attrs
  BY DEF ChildInv, Steps, AfterSetSid, ChDir, HardStep
<1>2. CASE Fail
  BY <1>1, <1>2, Failing
<1>3. CASE phase' = "setgroups" /\ UNCHANGED ops
  <2>1. \/ attr.WorkingDirectory # "" /\ child' = [child EXCEPT !.cwd = attr.WorkingDirectory]
        \/ ~(attr.WorkingDirectory # "") /\ child' = child
    BY <1>3 DEF ChDir, HardStep, Fail, GoTo
  <2>2. DOMAIN child = DOMAIN Forked
    BY DEF ChildInv
  <2>3. /\ DOMAIN child' = DOMAIN child
        /\ UNCHANGED <<child.private, child.shadowed, child.readonly, child.nnp,
                       child.dropped, child.filter, child.skipped>>
    BY <2>1, <2>2, ForkedFields
  <2>4. AttrInv'
    BY <1>1, <1>3, <2>1, <2>2, ForkedFields, FdsKept, ZenonT(40)
    DEF AttrInv, Keep, AfterSetSid, AfterDup, AfterApply, AfterChDir, AfterGroups, AfterGid,
        AfterUid, AfterLimit
  <2> QED BY <1>1, <1>3, <2>3, <2>4, SetupStep
    DEF Steps, AfterSetSid, AfterDup, AfterApply, AfterChDir, AfterGroups, AfterGid,
        AfterUid, AfterLimit
<1> QED BY <1>2, <1>3 DEF ChDir, HardStep, GoTo

\* The groups.
LEMMA SetGroupsInv ==
  ASSUME ChildInv, SetGroups
  PROVE  ChildInv'
<1>1. /\ phase = "setgroups" /\ phase \in Steps /\ Keep
      /\ PlanInv /\ AttrInv /\ raw \in Raws /\ attr \in Attrs
  BY DEF ChildInv, Steps, AfterSetSid, SetGroups, HardStep
<1>2. CASE Fail
  BY <1>1, <1>2, Failing
<1>3. CASE phase' = "setgid" /\ UNCHANGED ops
  <2>1. \/ attr.User # "" /\ child' = [child EXCEPT !.groups = attr.User]
        \/ ~(attr.User # "") /\ child' = child
    BY <1>3 DEF SetGroups, HardStep, Fail, GoTo
  <2>2. DOMAIN child = DOMAIN Forked
    BY DEF ChildInv
  <2>3. /\ DOMAIN child' = DOMAIN child
        /\ UNCHANGED <<child.private, child.shadowed, child.readonly, child.nnp,
                       child.dropped, child.filter, child.skipped>>
    BY <2>1, <2>2, ForkedFields
  <2>4. AttrInv'
    BY <1>1, <1>3, <2>1, <2>2, ForkedFields, FdsKept
    DEF AttrInv, Keep, AfterSetSid, AfterDup, AfterApply, AfterChDir, AfterGroups, AfterGid,
        AfterUid, AfterLimit
  <2> QED BY <1>1, <1>3, <2>3, <2>4, SetupStep
    DEF Steps, AfterSetSid, AfterDup, AfterApply, AfterChDir, AfterGroups, AfterGid,
        AfterUid, AfterLimit
<1> QED BY <1>2, <1>3 DEF SetGroups, HardStep, GoTo

\* The group id.
LEMMA SetGidInv ==
  ASSUME ChildInv, SetGid
  PROVE  ChildInv'
<1>1. /\ phase = "setgid" /\ phase \in Steps /\ Keep
      /\ PlanInv /\ AttrInv /\ raw \in Raws /\ attr \in Attrs
  BY DEF ChildInv, Steps, AfterSetSid, SetGid, HardStep
<1>2. CASE Fail
  BY <1>1, <1>2, Failing
<1>3. CASE phase' = "setuid" /\ UNCHANGED ops
  <2>1. \/ attr.Group # "" /\ child' = [child EXCEPT !.gid = attr.Group]
        \/ ~(attr.Group # "") /\ child' = child
    BY <1>3 DEF SetGid, HardStep, Fail, GoTo
  <2>2. DOMAIN child = DOMAIN Forked
    BY DEF ChildInv
  <2>3. /\ DOMAIN child' = DOMAIN child
        /\ UNCHANGED <<child.private, child.shadowed, child.readonly, child.nnp,
                       child.dropped, child.filter, child.skipped>>
    BY <2>1, <2>2, ForkedFields
  <2>4. AttrInv'
    BY <1>1, <1>3, <2>1, <2>2, ForkedFields, FdsKept, ZenonT(40)
    DEF AttrInv, Keep, AfterSetSid, AfterDup, AfterApply, AfterChDir, AfterGroups, AfterGid,
        AfterUid, AfterLimit
  <2> QED BY <1>1, <1>3, <2>3, <2>4, SetupStep
    DEF Steps, AfterSetSid, AfterDup, AfterApply, AfterChDir, AfterGroups, AfterGid,
        AfterUid, AfterLimit
<1> QED BY <1>2, <1>3 DEF SetGid, HardStep, GoTo

\* The user id.
LEMMA SetUidInv ==
  ASSUME ChildInv, SetUid
  PROVE  ChildInv'
<1>1. /\ phase = "setuid" /\ phase \in Steps /\ Keep
      /\ PlanInv /\ AttrInv /\ raw \in Raws /\ attr \in Attrs
  BY DEF ChildInv, Steps, AfterSetSid, SetUid, HardStep
<1>2. CASE Fail
  BY <1>1, <1>2, Failing
<1>3. CASE phase' = "umask" /\ UNCHANGED ops
  <2>1. \/ attr.User # "" /\ child' = [child EXCEPT !.uid = attr.User]
        \/ ~(attr.User # "") /\ child' = child
    BY <1>3 DEF SetUid, HardStep, Fail, GoTo
  <2>2. DOMAIN child = DOMAIN Forked
    BY DEF ChildInv
  <2>3. /\ DOMAIN child' = DOMAIN child
        /\ UNCHANGED <<child.private, child.shadowed, child.readonly, child.nnp,
                       child.dropped, child.filter, child.skipped>>
    BY <2>1, <2>2, ForkedFields
  <2>4. AttrInv'
    BY <1>1, <1>3, <2>1, <2>2, ForkedFields, FdsKept
    DEF AttrInv, Keep, AfterSetSid, AfterDup, AfterApply, AfterChDir, AfterGroups, AfterGid,
        AfterUid, AfterLimit
  <2> QED BY <1>1, <1>3, <2>3, <2>4, SetupStep
    DEF Steps, AfterSetSid, AfterDup, AfterApply, AfterChDir, AfterGroups, AfterGid,
        AfterUid, AfterLimit
<1> QED BY <1>2, <1>3 DEF SetUid, HardStep, GoTo

\* The file mask.
LEMMA UMaskInv ==
  ASSUME ChildInv, UMask
  PROVE  ChildInv'
<1>1. /\ phase = "umask" /\ phase \in Steps /\ Keep
      /\ PlanInv /\ AttrInv /\ raw \in Raws /\ attr \in Attrs
  BY DEF ChildInv, Steps, AfterSetSid, UMask, SoftStep
<1>3. phase' = "nice" /\ UNCHANGED ops
  BY DEF UMask, SoftStep, GoTo
<1>4. /\ DOMAIN child' = DOMAIN child
      /\ UNCHANGED <<child.private, child.shadowed, child.readonly, child.nnp,
                     child.dropped, child.filter, child.skipped>>
  BY <1>1, <1>3, ForkedFields DEF UMask, SoftStep, ChildInv
<1>5. AttrInv'
  BY <1>1, <1>3, ForkedFields, FdsKept
  DEF UMask, SoftStep, ChildInv, AttrInv, Keep, Steps, AfterSetSid, AfterDup,
      AfterApply, AfterChDir, AfterGroups, AfterGid, AfterUid, AfterLimit
<1> QED BY <1>1, <1>3, <1>4, <1>5, SetupStep
  DEF Steps, AfterSetSid, AfterDup, AfterApply, AfterChDir, AfterGroups, AfterGid,
      AfterUid, AfterLimit

\* The priority.
LEMMA NiceInv ==
  ASSUME ChildInv, Nice
  PROVE  ChildInv'
<1>1. /\ phase = "nice" /\ phase \in Steps /\ Keep
      /\ PlanInv /\ AttrInv /\ raw \in Raws /\ attr \in Attrs
  BY DEF ChildInv, Steps, AfterSetSid, Nice, SoftStep
<1>3. phase' = "rlimit" /\ UNCHANGED ops
  BY DEF Nice, SoftStep, GoTo
<1>4. /\ DOMAIN child' = DOMAIN child
      /\ UNCHANGED <<child.private, child.shadowed, child.readonly, child.nnp,
                     child.dropped, child.filter, child.skipped>>
  BY <1>1, <1>3, ForkedFields DEF Nice, SoftStep, ChildInv
<1>5. AttrInv'
  BY <1>1, <1>3, ForkedFields, FdsKept
  DEF Nice, SoftStep, ChildInv, AttrInv, Keep, Steps, AfterSetSid, AfterDup, AfterApply,
      AfterChDir, AfterGroups, AfterGid, AfterUid, AfterLimit
<1> QED BY <1>1, <1>3, <1>4, <1>5, SetupStep
  DEF Steps, AfterSetSid, AfterDup, AfterApply, AfterChDir, AfterGroups, AfterGid,
      AfterUid, AfterLimit

\* The limits.
LEMMA SetRlimitInv ==
  ASSUME ChildInv, SetRlimit
  PROVE  ChildInv'
<1>1. /\ phase = "rlimit" /\ phase \in Steps /\ Keep
      /\ PlanInv /\ AttrInv /\ raw \in Raws /\ attr \in Attrs
  BY DEF ChildInv, Steps, AfterSetSid, SetRlimit, HardStep
<1>2. CASE Fail
  BY <1>1, <1>2, Failing
<1>3. CASE phase' = "exec" /\ UNCHANGED ops
  <2>1. \/ attr.Limit # "" /\ child' = [child EXCEPT !.limits = attr.Limit]
        \/ ~(attr.Limit # "") /\ child' = child
    BY <1>3 DEF SetRlimit, HardStep, Fail, GoTo
  <2>2. DOMAIN child = DOMAIN Forked
    BY DEF ChildInv
  <2>3. /\ DOMAIN child' = DOMAIN child
        /\ UNCHANGED <<child.private, child.shadowed, child.readonly, child.nnp,
                       child.dropped, child.filter, child.skipped>>
    BY <2>1, <2>2, ForkedFields
  <2>4. AttrInv'
    BY <1>1, <1>3, <2>1, <2>2, ForkedFields, FdsKept
    DEF AttrInv, Keep, AfterSetSid, AfterDup, AfterApply, AfterChDir, AfterGroups, AfterGid,
        AfterUid, AfterLimit
  <2> QED BY <1>1, <1>3, <2>3, <2>4, SetupStep
    DEF Steps, AfterSetSid, AfterDup, AfterApply, AfterChDir, AfterGroups, AfterGid,
        AfterUid, AfterLimit
<1> QED BY <1>2, <1>3 DEF SetRlimit, HardStep, GoTo

\* The last step: the program takes over.
LEMMA ExecInv ==
  ASSUME ChildInv, Exec
  PROVE  ChildInv'
<1>1. /\ phase = "exec" /\ phase \in Steps /\ Keep
      /\ PlanInv /\ AttrInv /\ raw \in Raws /\ attr \in Attrs
  BY DEF ChildInv, Steps, AfterSetSid, Exec, HardStep
<1>2. CASE Fail
  BY <1>1, <1>2, Failing
<1>3. CASE phase' = "running" /\ UNCHANGED ops
  <2>1. child' = child
    BY <1>3 DEF Exec, HardStep, Fail, GoTo
  <2>2. DOMAIN child = DOMAIN Forked
    BY DEF ChildInv
  <2>3. /\ DOMAIN child' = DOMAIN child
        /\ UNCHANGED <<child.private, child.shadowed, child.readonly, child.nnp,
                       child.dropped, child.filter, child.skipped>>
    BY <2>1, <2>2, ForkedFields
  <2>4. AttrInv'
    BY <1>1, <1>3, <2>1, <2>2, ForkedFields, FdsKept
    DEF AttrInv, Keep, AfterSetSid, AfterDup, AfterApply, AfterChDir, AfterGroups, AfterGid,
        AfterUid, AfterLimit
  <2> QED BY <1>1, <1>3, <2>3, <2>4, SetupStep
    DEF Steps, AfterSetSid, AfterDup, AfterApply, AfterChDir, AfterGroups, AfterGid,
        AfterUid, AfterLimit
<1> QED BY <1>2, <1>3 DEF Exec, HardStep, GoTo

\* An operation that is next is a planned one.
LEMMA AtOp ==
  ASSUME ChildInv, NEW name, NextOp(name), NEW h, h = Head(ops)
  PROVE  /\ phase = "sandbox" /\ phase \in Steps /\ ops # <<>> /\ Keep
         /\ h \in Planned(Cfg) /\ h.op = name
         /\ DOMAIN child = DOMAIN Forked
<1>1. phase = "sandbox" /\ phase \in Steps /\ ops # <<>> /\ Keep /\ h.op = name
  BY DEF NextOp, Steps, AfterSetSid
<1>2. ops \in Seq(Planned(Cfg)) /\ DOMAIN child = DOMAIN Forked
  BY <1>1 DEF ChildInv, PlanInv
<1>3. Head(ops) \in Planned(Cfg)
  <2>1. PICK q \in Seq(Planned(Cfg)) : q = ops
    BY <1>2
  <2> QED BY <1>1, <2>1
<1> QED BY <1>1, <1>2, <1>3

\* The namespace is made private.
LEMMA MakeRprivateInv ==
  ASSUME ChildInv, MakeRprivate
  PROVE  ChildInv'
<1>1. PICK h : h = Head(ops)
  OBVIOUS
<1>2. /\ phase = "sandbox" /\ phase # "load" /\ ops # <<>> /\ Keep
      /\ h \in Planned(Cfg) /\ h.op = "MakeRprivate"
      /\ DOMAIN child = DOMAIN Forked
  BY <1>1, AtOp DEF MakeRprivate
<1>3. CASE Fail
  BY <1>2, <1>3, Failing
<1>4. CASE Applied([child EXCEPT !.private = TRUE])
  <2>1. /\ child' = [child EXCEPT !.private = TRUE]
        /\ ops' = Tail(ops) /\ UNCHANGED <<phase, root>>
    BY <1>1, <1>2, <1>4 DEF Applied, Keep
  <2>2. /\ DOMAIN child' = DOMAIN child
        /\ UNCHANGED <<child.skipped, child.mask, child.sid, child.fds, child.cwd,
                       child.groups, child.gid, child.uid, child.limits>>
        /\ child.private => child'.private
    BY <1>2, <2>1, ForkedFields
  <2>3. IsMount(h) \/ UNCHANGED <<child.shadowed, child.readonly>>
    BY <1>2, <2>1, ForkedFields DEF IsMount
  <2>4. Visible' \subseteq Visible
    BY <1>2, <2>1, VisibleLess, ForkedFields DEF Keep
  <2>5. \A o \in Planned(Cfg) : Done(o) => Done(o)'
    BY <1>2, <2>1, <2>4, ForkedFields DEF Done
  <2>6. Done(h)'
    BY <1>2, <2>1, <2>4, ForkedFields DEF Done
  <2> QED BY <1>1, <1>2, <2>1, <2>2, <2>3, <2>5, <2>6, OpApplied
<1> QED BY <1>3, <1>4 DEF MakeRprivate, HardOp

\* A directory is shadowed by an empty one.
LEMMA MountTmpfsInv ==
  ASSUME ChildInv, MountTmpfs
  PROVE  ChildInv'
<1>1. PICK h : h = Head(ops)
  OBVIOUS
<1>2. /\ phase = "sandbox" /\ phase # "load" /\ ops # <<>> /\ Keep
      /\ h \in Planned(Cfg) /\ h.op = "MountTmpfs"
      /\ DOMAIN child = DOMAIN Forked
  BY <1>1, AtOp DEF MountTmpfs
<1>3. CASE Fail
  BY <1>2, <1>3, Failing
<1>4. CASE Applied([child EXCEPT !.shadowed = @ \cup {Head(ops).arg}])
  <2>1. /\ child' = [child EXCEPT !.shadowed = @ \cup {h.arg}]
        /\ ops' = Tail(ops) /\ UNCHANGED <<phase, root>>
    BY <1>1, <1>2, <1>4 DEF Applied, Keep
  <2>2. /\ DOMAIN child' = DOMAIN child
        /\ UNCHANGED <<child.skipped, child.mask, child.sid, child.fds, child.cwd,
                       child.groups, child.gid, child.uid, child.limits>>
        /\ child.private => child'.private
    BY <1>2, <2>1, ForkedFields
  <2>3. IsMount(h) \/ UNCHANGED <<child.shadowed, child.readonly>>
    BY <1>2, <2>1, ForkedFields DEF IsMount
  <2>4. Visible' \subseteq Visible
    BY <1>2, <2>1, VisibleLess, ForkedFields DEF Keep
  <2>5. \A o \in Planned(Cfg) : Done(o) => Done(o)'
    BY <1>2, <2>1, <2>4, ForkedFields DEF Done
  <2>6. Done(h)'
    BY <1>2, <2>1, <2>4, ForkedFields DEF Done
  <2> QED BY <1>1, <1>2, <2>1, <2>2, <2>3, <2>5, <2>6, OpApplied
<1> QED BY <1>3, <1>4 DEF MountTmpfs, HardOp

\* A path becomes read-only, where it exists and root asks.
LEMMA BindReadOnlyInv ==
  ASSUME ChildInv, BindReadOnly
  PROVE  ChildInv'
<1>1. PICK h : h = Head(ops)
  OBVIOUS
<1>2. /\ phase = "sandbox" /\ phase # "load" /\ ops # <<>> /\ Keep
      /\ h \in Planned(Cfg) /\ h.op = "BindReadOnly"
      /\ DOMAIN child = DOMAIN Forked
  BY <1>1, AtOp DEF BindReadOnly
<1>3. CASE Fail
  BY <1>2, <1>3, Failing
<1>4. CASE Applied([child EXCEPT !.readonly = @ \cup {Head(ops).arg}])
  <2>1. /\ child' = [child EXCEPT !.readonly = @ \cup {h.arg}]
        /\ ops' = Tail(ops) /\ UNCHANGED <<phase, root>>
    BY <1>1, <1>2, <1>4 DEF Applied, Keep
  <2>2. /\ DOMAIN child' = DOMAIN child
        /\ UNCHANGED <<child.skipped, child.mask, child.sid, child.fds, child.cwd,
                       child.groups, child.gid, child.uid, child.limits>>
        /\ child.private => child'.private
    BY <1>2, <2>1, ForkedFields
  <2>3. IsMount(h) \/ UNCHANGED <<child.shadowed, child.readonly>>
    BY <1>2, <2>1, ForkedFields DEF IsMount
  <2>4. Visible' \subseteq Visible
    BY <1>2, <2>1, VisibleLess, ForkedFields DEF Keep
  <2>5. \A o \in Planned(Cfg) : Done(o) => Done(o)'
    BY <1>2, <2>1, <2>4, ForkedFields DEF Done
  <2>6. Done(h)'
    BY <1>2, <1>4, <2>1, <2>4, ForkedFields DEF Done
  <2> QED BY <1>1, <1>2, <2>1, <2>2, <2>3, <2>5, <2>6, OpApplied
<1>5. CASE ~(h.arg \in Visible /\ root) /\ Applied(child)
  <2>1. /\ child' = child
        /\ ops' = Tail(ops) /\ UNCHANGED <<phase, root>>
    BY <1>1, <1>2, <1>5 DEF Applied, Keep
  <2>2. /\ DOMAIN child' = DOMAIN child
        /\ UNCHANGED <<child.skipped, child.mask, child.sid, child.fds, child.cwd,
                       child.groups, child.gid, child.uid, child.limits>>
        /\ child.private => child'.private
    BY <1>2, <2>1, ForkedFields
  <2>3. IsMount(h) \/ UNCHANGED <<child.shadowed, child.readonly>>
    BY <1>2, <2>1, ForkedFields DEF IsMount
  <2>4. Visible' \subseteq Visible
    BY <1>2, <2>1, VisibleLess, ForkedFields DEF Keep
  <2>5. \A o \in Planned(Cfg) : Done(o) => Done(o)'
    BY <1>2, <2>1, <2>4, ForkedFields DEF Done
  <2>6. Done(h)'
    BY <1>2, <1>5, <2>1, <2>4, ForkedFields DEF Done
  <2> QED BY <1>1, <1>2, <2>1, <2>2, <2>3, <2>5, <2>6, OpApplied
<1> QED BY <1>1, <1>3, <1>4, <1>5 DEF BindReadOnly, HardOp

\* The devices: a failure is not fatal.
LEMMA PrivateDevicesInv ==
  ASSUME ChildInv, PrivateDevices
  PROVE  ChildInv'
<1>1. PICK h : h = Head(ops)
  OBVIOUS
<1>2. /\ phase = "sandbox" /\ phase # "load" /\ ops # <<>> /\ Keep
      /\ h \in Planned(Cfg) /\ h.op = "PrivateDevices"
      /\ DOMAIN child = DOMAIN Forked
  BY <1>1, AtOp DEF PrivateDevices
<1>3. CASE Applied([child EXCEPT !.devices = TRUE])
  <2>1. /\ child' = [child EXCEPT !.devices = TRUE]
        /\ ops' = Tail(ops) /\ UNCHANGED <<phase, root>>
    BY <1>1, <1>2, <1>3 DEF Applied, Keep
  <2>2. /\ DOMAIN child' = DOMAIN child
        /\ UNCHANGED <<child.skipped, child.mask, child.sid, child.fds, child.cwd,
                       child.groups, child.gid, child.uid, child.limits>>
        /\ child.private => child'.private
    BY <1>2, <2>1, ForkedFields
  <2>3. IsMount(h) \/ UNCHANGED <<child.shadowed, child.readonly>>
    BY <1>2, <2>1, ForkedFields DEF IsMount
  <2>4. Visible' \subseteq Visible
    BY <1>2, <2>1, VisibleLess, ForkedFields DEF Keep
  <2>5. \A o \in Planned(Cfg) : Done(o) => Done(o)'
    BY <1>2, <2>1, <2>4, ForkedFields DEF Done
  <2>6. Done(h)'
    BY <1>2, <2>1, <2>4, ForkedFields DEF Done
  <2> QED BY <1>1, <1>2, <2>1, <2>2, <2>3, <2>5, <2>6, OpApplied
<1>4. CASE Applied(child)
  <2>1. /\ child' = child
        /\ ops' = Tail(ops) /\ UNCHANGED <<phase, root>>
    BY <1>1, <1>2, <1>4 DEF Applied, Keep
  <2>2. /\ DOMAIN child' = DOMAIN child
        /\ UNCHANGED <<child.skipped, child.mask, child.sid, child.fds, child.cwd,
                       child.groups, child.gid, child.uid, child.limits>>
        /\ child.private => child'.private
    BY <1>2, <2>1, ForkedFields
  <2>3. IsMount(h) \/ UNCHANGED <<child.shadowed, child.readonly>>
    BY <1>2, <2>1, ForkedFields DEF IsMount
  <2>4. Visible' \subseteq Visible
    BY <1>2, <2>1, VisibleLess, ForkedFields DEF Keep
  <2>5. \A o \in Planned(Cfg) : Done(o) => Done(o)'
    BY <1>2, <2>1, <2>4, ForkedFields DEF Done
  <2>6. Done(h)'
    BY <1>2, <2>1, <2>4, ForkedFields DEF Done
  <2> QED BY <1>1, <1>2, <2>1, <2>2, <2>3, <2>5, <2>6, OpApplied
<1> QED BY <1>3, <1>4 DEF PrivateDevices

\* No new privileges.
LEMMA NoNewPrivilegesInv ==
  ASSUME ChildInv, NoNewPrivileges
  PROVE  ChildInv'
<1>1. PICK h : h = Head(ops)
  OBVIOUS
<1>2. /\ phase = "sandbox" /\ phase # "load" /\ ops # <<>> /\ Keep
      /\ h \in Planned(Cfg) /\ h.op = "NoNewPrivileges"
      /\ DOMAIN child = DOMAIN Forked
  BY <1>1, AtOp DEF NoNewPrivileges
<1>3. CASE Fail
  BY <1>2, <1>3, Failing
<1>4. CASE Applied([child EXCEPT !.nnp = TRUE])
  <2>1. /\ child' = [child EXCEPT !.nnp = TRUE]
        /\ ops' = Tail(ops) /\ UNCHANGED <<phase, root>>
    BY <1>1, <1>2, <1>4 DEF Applied, Keep
  <2>2. /\ DOMAIN child' = DOMAIN child
        /\ UNCHANGED <<child.skipped, child.mask, child.sid, child.fds, child.cwd,
                       child.groups, child.gid, child.uid, child.limits>>
        /\ child.private => child'.private
    BY <1>2, <2>1, ForkedFields
  <2>3. IsMount(h) \/ UNCHANGED <<child.shadowed, child.readonly>>
    BY <1>2, <2>1, ForkedFields DEF IsMount
  <2>4. Visible' \subseteq Visible
    BY <1>2, <2>1, VisibleLess, ForkedFields DEF Keep
  <2>5. \A o \in Planned(Cfg) : Done(o) => Done(o)'
    BY <1>2, <2>1, <2>4, ForkedFields DEF Done
  <2>6. Done(h)'
    BY <1>2, <2>1, <2>4, ForkedFields DEF Done
  <2> QED BY <1>1, <1>2, <2>1, <2>2, <2>3, <2>5, <2>6, OpApplied
<1> QED BY <1>3, <1>4 DEF NoNewPrivileges, HardOp

\* The bounding set: a plan drops from it once.
LEMMA CapBoundingDropInv ==
  ASSUME ChildInv, CapBoundingDrop
  PROVE  ChildInv'
<1>1. PICK h : h = Head(ops)
  OBVIOUS
<1>2. /\ phase = "sandbox" /\ phase # "load" /\ ops # <<>> /\ Keep
      /\ h \in Planned(Cfg) /\ h.op = "CapBoundingDrop"
      /\ DOMAIN child = DOMAIN Forked
  BY <1>1, AtOp DEF CapBoundingDrop
<1>3. CASE Fail
  BY <1>2, <1>3, Failing
<1>4. CASE Applied([child EXCEPT !.dropped = Head(ops).arg])
  <2>1. /\ child' = [child EXCEPT !.dropped = h.arg]
        /\ ops' = Tail(ops) /\ UNCHANGED <<phase, root>>
    BY <1>1, <1>2, <1>4 DEF Applied, Keep
  <2>2. /\ DOMAIN child' = DOMAIN child
        /\ UNCHANGED <<child.skipped, child.mask, child.sid, child.fds, child.cwd,
                       child.groups, child.gid, child.uid, child.limits>>
        /\ child.private => child'.private
    BY <1>2, <2>1, ForkedFields
  <2>3. IsMount(h) \/ UNCHANGED <<child.shadowed, child.readonly>>
    BY <1>2, <2>1, ForkedFields DEF IsMount
  <2>4. Visible' \subseteq Visible
    BY <1>2, <2>1, VisibleLess, ForkedFields DEF Keep
  <2>5. \A o \in Planned(Cfg) : Done(o) => Done(o)'
    BY <1>2, <2>1, <2>4, ForkedFields, PlannedOps DEF Done
  <2>6. Done(h)'
    BY <1>2, <2>1, <2>4, ForkedFields DEF Done
  <2> QED BY <1>1, <1>2, <2>1, <2>2, <2>3, <2>5, <2>6, OpApplied
<1> QED BY <1>3, <1>4 DEF CapBoundingDrop, HardOp

\* The ambient set: a failure is not fatal.
LEMMA AmbientRaiseInv ==
  ASSUME ChildInv, AmbientRaise
  PROVE  ChildInv'
<1>1. PICK h : h = Head(ops)
  OBVIOUS
<1>2. /\ phase = "sandbox" /\ phase # "load" /\ ops # <<>> /\ Keep
      /\ h \in Planned(Cfg) /\ h.op = "AmbientRaise"
      /\ DOMAIN child = DOMAIN Forked
  BY <1>1, AtOp DEF AmbientRaise
<1>3. CASE Applied([child EXCEPT !.ambient = Head(ops).arg])
  <2>1. /\ child' = [child EXCEPT !.ambient = h.arg]
        /\ ops' = Tail(ops) /\ UNCHANGED <<phase, root>>
    BY <1>1, <1>2, <1>3 DEF Applied, Keep
  <2>2. /\ DOMAIN child' = DOMAIN child
        /\ UNCHANGED <<child.skipped, child.mask, child.sid, child.fds, child.cwd,
                       child.groups, child.gid, child.uid, child.limits>>
        /\ child.private => child'.private
    BY <1>2, <2>1, ForkedFields
  <2>3. IsMount(h) \/ UNCHANGED <<child.shadowed, child.readonly>>
    BY <1>2, <2>1, ForkedFields DEF IsMount
  <2>4. Visible' \subseteq Visible
    BY <1>2, <2>1, VisibleLess, ForkedFields DEF Keep
  <2>5. \A o \in Planned(Cfg) : Done(o) => Done(o)'
    BY <1>2, <2>1, <2>4, ForkedFields DEF Done
  <2>6. Done(h)'
    BY <1>2, <2>1, <2>4, ForkedFields DEF Done
  <2> QED BY <1>1, <1>2, <2>1, <2>2, <2>3, <2>5, <2>6, OpApplied
<1>4. CASE Applied(child)
  <2>1. /\ child' = child
        /\ ops' = Tail(ops) /\ UNCHANGED <<phase, root>>
    BY <1>1, <1>2, <1>4 DEF Applied, Keep
  <2>2. /\ DOMAIN child' = DOMAIN child
        /\ UNCHANGED <<child.skipped, child.mask, child.sid, child.fds, child.cwd,
                       child.groups, child.gid, child.uid, child.limits>>
        /\ child.private => child'.private
    BY <1>2, <2>1, ForkedFields
  <2>3. IsMount(h) \/ UNCHANGED <<child.shadowed, child.readonly>>
    BY <1>2, <2>1, ForkedFields DEF IsMount
  <2>4. Visible' \subseteq Visible
    BY <1>2, <2>1, VisibleLess, ForkedFields DEF Keep
  <2>5. \A o \in Planned(Cfg) : Done(o) => Done(o)'
    BY <1>2, <2>1, <2>4, ForkedFields DEF Done
  <2>6. Done(h)'
    BY <1>2, <2>1, <2>4, ForkedFields DEF Done
  <2> QED BY <1>1, <1>2, <2>1, <2>2, <2>3, <2>5, <2>6, OpApplied
<1> QED BY <1>3, <1>4 DEF AmbientRaise

\* The filter: a plan installs one.
LEMMA SeccompInv ==
  ASSUME ChildInv, Seccomp
  PROVE  ChildInv'
<1>1. PICK h : h = Head(ops)
  OBVIOUS
<1>2. /\ phase = "sandbox" /\ phase # "load" /\ ops # <<>> /\ Keep
      /\ h \in Planned(Cfg) /\ h.op = "Seccomp"
      /\ DOMAIN child = DOMAIN Forked
  BY <1>1, AtOp DEF Seccomp
<1>3. CASE Fail
  BY <1>2, <1>3, Failing
<1>4. CASE Applied([child EXCEPT !.filter = Head(ops).arg])
  <2>1. /\ child' = [child EXCEPT !.filter = h.arg]
        /\ ops' = Tail(ops) /\ UNCHANGED <<phase, root>>
    BY <1>1, <1>2, <1>4 DEF Applied, Keep
  <2>2. /\ DOMAIN child' = DOMAIN child
        /\ UNCHANGED <<child.skipped, child.mask, child.sid, child.fds, child.cwd,
                       child.groups, child.gid, child.uid, child.limits>>
        /\ child.private => child'.private
    BY <1>2, <2>1, ForkedFields
  <2>3. IsMount(h) \/ UNCHANGED <<child.shadowed, child.readonly>>
    BY <1>2, <2>1, ForkedFields DEF IsMount
  <2>4. Visible' \subseteq Visible
    BY <1>2, <2>1, VisibleLess, ForkedFields DEF Keep
  <2>5. \A o \in Planned(Cfg) : Done(o) => Done(o)'
    BY <1>2, <2>1, <2>4, ForkedFields, PlannedOps DEF Done
  <2>6. Done(h)'
    BY <1>2, <2>1, <2>4, ForkedFields DEF Done
  <2> QED BY <1>1, <1>2, <2>1, <2>2, <2>3, <2>5, <2>6, OpApplied
<1> QED BY <1>3, <1>4 DEF Seccomp, HardOp

\* The namespace: where policy forbids one, nothing is left to be done and the
\* sandbox is skipped.
LEMMA UnshareMountInv ==
  ASSUME ChildInv, UnshareMount
  PROVE  ChildInv'
<1>1. PICK h : h = Head(ops)
  OBVIOUS
<1>2. /\ phase = "sandbox" /\ phase # "load" /\ ops # <<>> /\ Keep
      /\ h \in Planned(Cfg) /\ h.op = "UnshareMount"
      /\ DOMAIN child = DOMAIN Forked
  BY <1>1, AtOp DEF UnshareMount
<1>3. CASE Fail
  BY <1>2, <1>3, Failing
<1>4. CASE Applied([child EXCEPT !.ns = TRUE])
  <2>1. /\ child' = [child EXCEPT !.ns = TRUE]
        /\ ops' = Tail(ops) /\ UNCHANGED <<phase, root>>
    BY <1>2, <1>4 DEF Applied, Keep
  <2>2. /\ DOMAIN child' = DOMAIN child
        /\ UNCHANGED <<child.skipped, child.mask, child.sid, child.fds, child.cwd,
                       child.groups, child.gid, child.uid, child.limits>>
        /\ child.private => child'.private
    BY <1>2, <2>1, ForkedFields
  <2>3. UNCHANGED <<child.shadowed, child.readonly>>
    BY <1>2, <2>1, ForkedFields
  <2>4. Visible' \subseteq Visible
    BY <1>2, <2>1, VisibleLess, ForkedFields DEF Keep
  <2>5. \A o \in Planned(Cfg) : Done(o) => Done(o)'
    BY <1>2, <2>1, <2>4, ForkedFields DEF Done
  <2>6. Done(h)'
    BY <1>2, <2>1, <2>4, ForkedFields DEF Done
  <2> QED BY <1>1, <1>2, <2>1, <2>2, <2>3, <2>5, <2>6, OpApplied
<1>5. CASE ops' = <<>> /\ child' = [child EXCEPT !.skipped = TRUE] /\ UNCHANGED phase
  <2>1. /\ DOMAIN child' = DOMAIN child /\ child'.skipped
        /\ UNCHANGED <<child.shadowed, child.readonly, child.private, child.mask,
                       child.sid, child.fds, child.cwd, child.groups, child.gid, child.uid,
                       child.limits>>
    BY <1>2, <1>5, ForkedFields
  <2>2. PlanInv /\ AttrInv /\ raw \in Raws /\ attr \in Attrs /\ phase' = "sandbox"
    BY <1>2, <1>5 DEF ChildInv, Steps, AfterSetSid
  <2>3. PlanInv'
    <3>1. ops' \in Seq(Planned(Cfg)) /\ DOMAIN ops' = {} /\ Cfg' = Cfg
      BY <1>2, <1>5 DEF Cfg, Keep
    <3>2. Planned(Cfg)' = Planned(Cfg)
      BY <1>2 DEF Cfg, Keep
    <3>3. ops' \in Seq(Planned(Cfg)')
      BY <3>1, <3>2
    <3> QED BY <1>5, <2>1, <2>2, <3>1, <3>3 DEF PlanInv
  <2>4. AttrInv'
    BY <1>2, <2>1, <2>2, FdsKept
    DEF AttrInv, Keep, AfterSetSid, AfterDup, AfterApply, AfterChDir, AfterGroups, AfterGid,
        AfterUid, AfterLimit
  <2> QED BY <1>2, <2>1, <2>2, <2>3, <2>4 DEF ChildInv, Keep, Steps, AfterSetSid
<1> QED BY <1>3, <1>4, <1>5 DEF UnshareMount

\* The sandbox is applied: nothing is left of the plan.
LEMMA ApplyDoneInv ==
  ASSUME ChildInv, ApplyDone
  PROVE  ChildInv'
<1>1. /\ phase = "sandbox" /\ phase' = "chdir" /\ Keep /\ UNCHANGED <<ops, child>> /\ ops = <<>>
      /\ PlanInv /\ AttrInv /\ raw \in Raws /\ attr \in Attrs
  BY DEF ApplyDone, GoTo, ChildInv, Steps, AfterSetSid
<1>2. PlanInv'
  BY <1>1, PlanKept DEF Keep
<1>3. AttrInv'
  BY <1>1, FdsKept
  DEF AttrInv, Keep, AfterSetSid, AfterDup, AfterApply, AfterChDir, AfterGroups, AfterGid,
      AfterUid, AfterLimit
<1> QED BY <1>1, <1>2, <1>3 DEF ChildInv, Keep, Steps, AfterSetSid

\* A unit is loaded: its sections are among those given.
LEMMA LoadInv ==
  ASSUME ChildInv, Load
  PROVE  ChildInv'
BY DEF ChildInv, Load, GoTo, Steps, Ends, AfterSetSid

\* The plan is made: everything wanted is in it, and the mounts come after the
\* namespace and its being made private.
LEMMA PrepareInv ==
  ASSUME ChildInv, Prepare
  PROVE  ChildInv'
<1>1. /\ phase = "plan" /\ Keep /\ UNCHANGED child /\ child = Forked /\ ops = <<>>
      /\ raw \in Raws /\ attr \in Attrs
  BY DEF ChildInv, Prepare
<1>2. CASE phase' = "failed"
  BY <1>1, <1>2 DEF ChildInv, Keep, Steps, Ends, AfterSetSid
<1>3. CASE phase' = "sigmask" /\ ops' = plan(Cfg)
  <2>1. Cfg' = Cfg /\ Planned(Cfg)' = Planned(Cfg) /\ Wanted(Cfg)' = Wanted(Cfg)
    BY <1>1 DEF Cfg, Keep
  <2>2. /\ plan(Cfg) \in Seq(Planned(Cfg))
        /\ Wanted(Cfg) \subseteq ToSet(plan(Cfg))
        /\ need_mountns(Cfg) => Len(plan(Cfg)) >= 2 /\ plan(Cfg)[1].op = "UnshareMount"
                                  /\ plan(Cfg)[2].op = "MakeRprivate"
    BY <1>1, ParsedConfig, PlanProperties
  <2>3. ops' \in Seq(Planned(Cfg)')
    BY <1>3, <2>1, <2>2
  <2>4. \A k \in DOMAIN ops' :
          IsMount(ops'[k]) => \E j \in 1 .. k - 1 : ops'[j].op = "MakeRprivate"
    <3>1. PICK q \in Seq(Planned(Cfg)) : q = ops'
      BY <1>3, <2>2
    <3>2. ASSUME NEW k \in DOMAIN q, IsMount(q[k])
          PROVE  2 \in 1 .. k - 1 /\ q[2].op = "MakeRprivate"
      <4>1. k \in 1 .. Len(q) /\ q[k] \in Planned(Cfg)
        OBVIOUS
      <4>2. q[1].op = "UnshareMount" /\ q[2].op = "MakeRprivate"
        BY <1>3, <2>2, <3>1, <3>2, <4>1, PlannedOps
      <4>3. k # 1 /\ k # 2
        BY <3>2, <4>2 DEF IsMount
      <4> QED BY <4>1, <4>2, <4>3
    <3> QED BY <3>1, <3>2
  <2>5. child' = Forked /\ ~child'.skipped /\ child'.shadowed = {} /\ child'.readonly = {}
    BY <1>1 DEF Forked
  <2>6. PlanInv'
    BY <1>3, <2>1, <2>2, <2>3, <2>4, <2>5
    DEF PlanInv, IsMount, AfterApply, AfterDup, AfterSetSid
  <2>7. AttrInv'
    BY <1>3, <2>5
    DEF AttrInv, Forked, AfterSetSid, AfterDup, AfterApply, AfterChDir, AfterGroups, AfterGid,
        AfterUid, AfterLimit
  <2> QED BY <1>1, <1>3, <2>6, <2>7 DEF ChildInv, Keep, Steps, AfterSetSid
<1> QED BY <1>2, <1>3 DEF Prepare, GoTo, Cfg

\* ChildInv holds of every start.
LEMMA ChildInvInductive ==
  /\ Init => ChildInv
  /\ ChildInv /\ [Next]_vars => ChildInv'
<1>1. ASSUME Init PROVE ChildInv
  BY <1>1 DEF Init, ChildInv, Steps, AfterSetSid
<1>2. ASSUME ChildInv, [Next]_vars PROVE ChildInv'
  <2>1. CASE UNCHANGED vars
    <3>1. UNCHANGED <<root, healthy, present, raw, attr, phase, ops, child>>
      BY <2>1 DEF vars
    <3>2. phase \in Steps => PlanInv' /\ AttrInv'
      <4>1. ASSUME phase \in Steps PROVE PlanInv' /\ AttrInv'
        <5>1. PlanInv /\ AttrInv
          BY <1>2, <4>1 DEF ChildInv
        <5>2. PlanInv'
          BY <3>1, <5>1, PlanKept DEF PlanInv
        <5>3. AttrInv'
          BY <3>1, <5>1, FdsKept DEF AttrInv
        <5> QED BY <5>2, <5>3
      <4> QED BY <4>1
    <3> QED BY <1>2, <3>1, <3>2 DEF ChildInv
  <2>2. CASE Load
    BY <1>2, <2>2, LoadInv
  <2>3. CASE Prepare
    BY <1>2, <2>3, PrepareInv
  <2>4. CASE Child
    BY <1>2, <2>4, SigMaskInv, SetSidInv, DupListenersInv, JoinCgroupInv, UnshareMountInv,
       MakeRprivateInv, MountTmpfsInv, BindReadOnlyInv, PrivateDevicesInv, NoNewPrivilegesInv,
       CapBoundingDropInv, AmbientRaiseInv, SeccompInv, ApplyDoneInv, ChDirInv, SetGroupsInv,
       SetGidInv, SetUidInv, UMaskInv, NiceInv, SetRlimitInv, ExecInv
    DEF Child
  <2> QED BY <1>2, <2>1, <2>2, <2>3, <2>4 DEF Next
<1> QED BY <1>1, <1>2

-----------------------------------------------------------------------------
(* A filter that is built is never the empty one, which would be none.     *)

IsList(s) == \E n \in Nat : s = [k \in 1 .. n |-> s[k]]

\* A list, and the concatenation of two.
LEMMA Lists ==
  ASSUME NEW s, IsList(s), NEW t, IsList(t)
  PROVE  /\ s \in Seq({s[k] : k \in DOMAIN s}) /\ Len(s) \in Nat
         /\ IsList(s \o t) /\ Len(s \o t) = Len(s) + Len(t)
<1>1. PICK m \in Nat : s = [k \in 1 .. m |-> s[k]]
  BY DEF IsList
<1>2. PICK n \in Nat : t = [k \in 1 .. n |-> t[k]]
  BY DEF IsList
<1> DEFINE V == {s[k] : k \in 1 .. m} \cup {t[k] : k \in 1 .. n}
<1>3. s \in Seq(V) /\ t \in Seq(V)
  <2>1. s \in [1 .. m -> V]
    BY <1>1
  <2>2. t \in [1 .. n -> V]
    BY <1>2
  <2> HIDE DEF V
  <2> QED BY <2>1, <2>2
<1>4. s \in Seq({s[k] : k \in DOMAIN s})
  <2> DEFINE W == {s[k] : k \in DOMAIN s}
  <2>1. s \in [1 .. m -> W]
    BY <1>1
  <2> HIDE DEF W
  <2>2. s \in Seq(W)
    BY <2>1
  <2> QED BY <2>2 DEF W
<1> HIDE DEF V
<1>5. s \o t \in Seq(V) /\ Len(s \o t) = Len(s) + Len(t) /\ Len(s) \in Nat
  BY <1>3
<1>6. IsList(s \o t)
  <2>1. PICK q \in Seq(V) : q = s \o t
    BY <1>5
  <2>2. q = [k \in 1 .. Len(q) |-> q[k]] /\ Len(q) \in Nat
    OBVIOUS
  <2> QED BY <2>1, <2>2 DEF IsList
<1> QED BY <1>4, <1>5, <1>6

\* Short lists.
LEMMA ShortLists ==
  ASSUME NEW w, NEW x, NEW y, NEW z
  PROVE  IsList(<<>>) /\ IsList(<<w>>) /\ IsList(<<w, x, y, z>>)
<1>1. <<>> = [k \in 1 .. 0 |-> <<>>[k]]
  OBVIOUS
<1>2. <<w>> = [k \in 1 .. 1 |-> <<w>>[k]]
  OBVIOUS
<1>3. <<w, x, y, z>> = [k \in 1 .. 4 |-> <<w, x, y, z>>[k]]
  OBVIOUS
<1> QED BY <1>1, <1>2, <1>3 DEF IsList

\* A function on the first numbers is a list.
LEMMA Tabulated ==
  ASSUME NEW n \in Nat, NEW S, NEW s \in [1 .. n -> S]
  PROVE  IsList(s) /\ Len(s) = n
BY DEF IsList

\* The numbers of system calls are few.
LEMMA FewCalls ==
  ASSUME NEW names
  PROVE  syscall_nr(names) \subseteq 0 .. 329 /\ resolve(names) \subseteq 0 .. 329
<1>1. \A n \in DOMAIN SYSCALLS : SYSCALLS[n] \in 0 .. 329
  BY DEF SYSCALLS
<1>2. \A s : syscall_nr(s) \subseteq 0 .. 329
  BY <1>1 DEF syscall_nr
<1> QED BY <1>2 DEF resolve

\* A set of such numbers is finite.
LEMMA FewAreFinite ==
  ASSUME NEW S \in SUBSET (0 .. 329)
  PROVE  IsFiniteSet(S)
<1>1. \A n \in Nat : IsFiniteSet(0 .. n)
  BY FS_Interval
<1>2. 329 \in Nat
  OBVIOUS
<1>3. IsFiniteSet(0 .. 329)
  BY <1>1, <1>2, Zenon
<1> QED BY <1>3, FS_Subset

\* u is the list s, of n elements, and then the list t, of d.
Follows(u, s, n, t, d) ==
  /\ IsList(u) /\ Len(u) = n + d /\ n \in Nat /\ d \in Nat
  /\ \A k \in 1 .. n : u[k] = s[k]
  /\ \A k \in 1 .. d : u[n + k] = t[k]

\* Two lists one after the other.
LEMMA ListJoin ==
  ASSUME NEW s, IsList(s), NEW t, IsList(t)
  PROVE  Follows(s \o t, s, Len(s), t, Len(t))
<1>a. PICK m \in Nat : s = [k \in 1 .. m |-> s[k]]
  BY DEF IsList
<1>b. PICK n \in Nat : t = [k \in 1 .. n |-> t[k]]
  BY DEF IsList
<1> DEFINE V == {s[k] : k \in 1 .. m} \cup {t[k] : k \in 1 .. n}
<1>1. s \in [1 .. m -> V] /\ t \in [1 .. n -> V]
  BY <1>a, <1>b
<1> HIDE DEF V
<1>2. PICK a \in Seq(V) : a = s
  BY <1>1
<1>3. PICK b \in Seq(V) : b = t
  BY <1>1
<1>4. /\ Len(a \o b) = Len(a) + Len(b) /\ Len(a) \in Nat /\ Len(b) \in Nat
      /\ \A i \in 1 .. Len(a) : (a \o b)[i] = a[i]
      /\ \A i \in 1 .. Len(b) : (a \o b)[Len(a) + i] = b[i]
  OBVIOUS
<1>5. IsList(s \o t)
  BY Lists
<1> QED BY <1>2, <1>3, <1>4, <1>5 DEF Follows

\* What list_gates are: the calls whose arguments count, and where they go
WxGates(f) ==
  [k \in 1..3 |-> <<wx_nrs[k], IF list_denies(f, wx_nrs[k])
                               THEN Tgt("Errno") ELSE Tgt("WxArg")>>]
AfGates(f) ==
  [k \in 1..2 |-> <<af_nrs[k],
                    IF list_denies(f, af_nrs[k]) THEN Tgt("Errno")
                    ELSE IF const_errno(f.af) THEN pick_t(fam_default_errno(f.af))
                    ELSE Tgt("Famarg")>>]

LEMMA GateLists ==
  ASSUME NEW f
  PROVE  /\ gates(f) = (IF f.wx THEN WxGates(f) ELSE <<>>)
                       \o (IF f.af.present THEN AfGates(f) ELSE <<>>)
         /\ IsList(WxGates(f)) /\ Len(WxGates(f)) = 3
         /\ IsList(AfGates(f)) /\ Len(AfGates(f)) = 2
         /\ IsList(gates(f)) /\ Len(gates(f)) \in Nat
         /\ Len(gates(f)) = (IF f.wx THEN 3 ELSE 0) + (IF f.af.present THEN 2 ELSE 0)
<1>1. IsList(WxGates(f)) /\ Len(WxGates(f)) = 3
  <2> DEFINE e(k) == <<wx_nrs[k], IF list_denies(f, wx_nrs[k])
                                  THEN Tgt("Errno") ELSE Tgt("WxArg")>>
  <2>1. [k \in 1 .. 3 |-> e(k)] \in [1 .. 3 -> {e(k) : k \in 1 .. 3}]
    OBVIOUS
  <2> HIDE DEF e
  <2>2. IsList([k \in 1 .. 3 |-> e(k)]) /\ Len([k \in 1 .. 3 |-> e(k)]) = 3
    BY <2>1, Tabulated
  <2> QED BY <2>2 DEF e, WxGates
<1>2. IsList(AfGates(f)) /\ Len(AfGates(f)) = 2
  <2> DEFINE e(k) == <<af_nrs[k],
                       IF list_denies(f, af_nrs[k]) THEN Tgt("Errno")
                       ELSE IF const_errno(f.af) THEN pick_t(fam_default_errno(f.af))
                       ELSE Tgt("Famarg")>>
  <2>1. [k \in 1 .. 2 |-> e(k)] \in [1 .. 2 -> {e(k) : k \in 1 .. 2}]
    OBVIOUS
  <2> HIDE DEF e
  <2>2. IsList([k \in 1 .. 2 |-> e(k)]) /\ Len([k \in 1 .. 2 |-> e(k)]) = 2
    BY <2>1, Tabulated
  <2> QED BY <2>2 DEF e, AfGates
<1>3. gates(f) = (IF f.wx THEN WxGates(f) ELSE <<>>) \o (IF f.af.present THEN AfGates(f) ELSE <<>>)
  BY DEF gates, WxGates, AfGates
<1>4. IsList(<<>>) /\ Len(<<>>) = 0
  BY ShortLists
<1> DEFINE A == IF f.wx THEN WxGates(f) ELSE <<>>
           B == IF f.af.present THEN AfGates(f) ELSE <<>>
<1>5. IsList(A) /\ IsList(B) /\ Len(A) = (IF f.wx THEN 3 ELSE 0)
      /\ Len(B) = (IF f.af.present THEN 2 ELSE 0)
  <2>1. IsList(A) /\ Len(A) = (IF f.wx THEN 3 ELSE 0)
    <3>1. CASE f.wx
      BY <1>1, <3>1
    <3>2. CASE ~f.wx
      BY <1>4, <3>2
    <3> QED BY <3>1, <3>2
  <2>2. IsList(B) /\ Len(B) = (IF f.af.present THEN 2 ELSE 0)
    <3>1. CASE f.af.present
      BY <1>2, <3>1
    <3>2. CASE ~f.af.present
      BY <1>4, <3>2
    <3> QED BY <3>1, <3>2
  <2> QED BY <2>1, <2>2
<1>6. gates(f) = A \o B
  BY <1>3
<1> HIDE DEF A, B
<1>7. IsList(gates(f)) /\ Len(gates(f)) = Len(A) + Len(B) /\ Len(gates(f)) \in Nat
  BY <1>5, <1>6, ListJoin DEF Follows
<1> QED BY <1>1, <1>2, <1>3, <1>5, <1>7

\* The calls that have an entry of their own
Listed(f) ==
  ((f.nrs \ (IF f.af.present THEN ToSet(af_nrs) ELSE {})) \ (IF f.wx THEN ToSet(wx_nrs) ELSE {}))
  \cup (IF f.deny THEN f.extra_deny ELSE syscall_nr(ALLOW_BASE))

\* The numbers of a filter are those of calls and families
Numbered(f) ==
  /\ f.nrs \in SUBSET (0 .. 329) /\ f.extra_deny \in SUBSET (0 .. 329)
  /\ f.af.families \in SUBSET (0 .. 329)

LEMMA EntriesListed ==
  ASSUME NEW f, Numbered(f)
  PROVE  /\ Len(Entries(f)) \in Nat
         /\ Entries(f) = <<>> <=> Len(Entries(f)) = 0
         /\ Listed(f) = {Entries(f)[k] : k \in 1 .. Len(Entries(f))}
<1>1. Entries(f) = Asc(Listed(f))
  BY DEF Entries, Listed
<1>2. Listed(f) \in SUBSET (0 .. 329)
  BY FewCalls DEF Listed, Numbered
<1>3. IsFiniteSet(Listed(f)) /\ Listed(f) \in SUBSET Nat
  BY <1>2, FewAreFinite
<1> DEFINE L == Listed(f)
           n == Cardinality(L)
           s == Asc(L)
<1>4. /\ s \in [1 .. n -> L] /\ \A j, k \in 1 .. n : j < k => s[j] < s[k]
      /\ \A k \in 1 .. n : Rank(L, s[k]) = k - 1
  BY <1>3, AscProperties
<1>5. n \in Nat
  BY <1>3, FS_CardinalityType
<1>6. ASSUME NEW x \in L
      PROVE  \E k \in 1 .. n : s[k] = x
  <2>1. Rank(L, x) \in 0 .. n - 1
    BY <1>3, RankProperties
  <2> DEFINE k == Rank(L, x) + 1
  <2>2. k \in 1 .. n /\ k - 1 = Rank(L, x)
    BY <1>5, <2>1
  <2> HIDE DEF k, s, n, L
  <2>3. s[k] \in L /\ Rank(L, s[k]) = Rank(L, x)
    BY <1>4, <2>2
  <2>4. \A y, z \in L : y < z => Rank(L, y) < Rank(L, z)
    BY <1>3, RankProperties DEF L
  <2>5. \A z \in L : z \in Nat
    BY <1>3 DEF L
  <2>6. \A z \in L : Rank(L, z) \in Nat
    BY <1>3, RankProperties DEF L, n
  <2>7. s[k] = x
    BY <2>3, <2>4, <2>5, <2>6
  <2> QED BY <2>2, <2>7
<1>7. Len(s) = n /\ (s = <<>> <=> n = 0)
  <2> HIDE DEF s, n, L
  <2> QED BY <1>4, <1>5
<1>8. L = {s[k] : k \in 1 .. n}
  <2> HIDE DEF s, n, L
  <2> QED BY <1>4, <1>6
<1> QED BY <1>1, <1>5, <1>7, <1>8

\* The parts of a program, before its targets are resolved
TopPart(f)    == Prologue \o GateChain(f)
PlainPart(f)  == TopPart(f) \o PlainEntries(f, Len(TopPart(f)))
FamilyPart(f) == PlainPart(f) \o FamilyBlock(f)
WxPart(f)     == FamilyPart(f) \o WxBlock(f, Len(FamilyPart(f)))
Symbolic(f)   == WxPart(f) \o Returns

LEMMA BuildAssembles ==
  ASSUME NEW f
  PROVE  build(f) = Assemble(Symbolic(f), Len(PlainPart(f)), Len(FamilyPart(f)))
BY DEF build, Symbolic, WxPart, FamilyPart, PlainPart, TopPart

\* Each block is a list of its own.
LEMMA Blocks ==
  ASSUME NEW f, Numbered(f)
  PROVE  /\ IsList(Prologue) /\ Len(Prologue) = 3
         /\ IsList(GateChain(f)) /\ Len(GateChain(f)) = Len(gates(f))
         /\ \A start : IsList(PlainEntries(f, start)) /\ Len(PlainEntries(f, start)) = Len(Entries(f))
         /\ IsList(FamilyBlock(f))
         /\ Len(FamilyBlock(f)) \in {0, 1 + Cardinality(f.af.families)}
         /\ \A start : IsList(WxBlock(f, start)) /\ Len(WxBlock(f, start)) \in {0, 4}
         /\ IsList(Returns) /\ Len(Returns) = 2
         /\ Cardinality(f.af.families) \in Nat
<1>1. IsList(GateChain(f)) /\ Len(GateChain(f)) = Len(gates(f))
  <2>1. Len(gates(f)) \in Nat
    BY GateLists
  <2> QED BY <2>1 DEF GateChain, IsList
<1>2. \A start : IsList(PlainEntries(f, start)) /\ Len(PlainEntries(f, start)) = Len(Entries(f))
  <2>1. Len(Entries(f)) \in Nat
    BY EntriesListed
  <2> QED BY <2>1 DEF PlainEntries, IsList
<1>3. Cardinality(f.af.families) \in Nat
  <2>1. IsFiniteSet(f.af.families)
    BY FewAreFinite DEF Numbered
  <2> QED BY <2>1, FS_CardinalityType
<1>4. IsList(FamilyBlock(f)) /\ Len(FamilyBlock(f)) \in {0, 1 + Cardinality(f.af.families)}
  <2> DEFINE block == [k \in 1..Cardinality(f.af.families) |->
                        Jeq(Asc(f.af.families)[k], pick_t(f.af.deny), pick_t(fam_default_errno(f.af)))]
             load == <<Ld(Arg0)>>
  <2>1. IsList(block) /\ Len(block) = Cardinality(f.af.families)
    BY <1>3 DEF IsList
  <2>2. IsList(load) /\ IsList(<<>>) /\ Len(load) = 1 /\ Len(<<>>) = 0
    BY DEF IsList
  <2>3. FamilyBlock(f) \in {<<>>, load \o block}
    BY DEF FamilyBlock
  <2> HIDE DEF block, load
  <2>4. IsList(load \o block) /\ Len(load \o block) = Len(load) + Len(block)
    BY <2>1, <2>2, ListJoin DEF Follows
  <2> QED BY <1>3, <2>1, <2>2, <2>3, <2>4
<1>5. ASSUME NEW start
      PROVE  IsList(WxBlock(f, start)) /\ Len(WxBlock(f, start)) \in {0, 4}
  <2> DEFINE a == Ld(Arg2)
             b == Ins("and", {"W", "X"}, Tgt("None"), Tgt("None"))
             c == Ins("jset", "W", At(start + 3), Tgt("Allow"))
             d == Ins("jset", "X", Tgt("Errno"), Tgt("Allow"))
  <2>1. WxBlock(f, start) \in {<<>>, <<a, b, c, d>>}
    BY DEF WxBlock
  <2> HIDE DEF a, b, c, d
  <2>2. IsList(<<a, b, c, d>>) /\ Len(<<a, b, c, d>>) = 4 /\ IsList(<<>>) /\ Len(<<>>) = 0
    BY ShortLists
  <2> QED BY <2>1, <2>2
<1>6. IsList(Returns) /\ Len(Returns) = 2 /\ IsList(Prologue) /\ Len(Prologue) = 3
  BY DEF Returns, Prologue, IsList
<1> QED BY <1>1, <1>2, <1>3, <1>4, <1>5, <1>6

LEMMA Joined ==
  ASSUME NEW s, IsList(s), NEW t, IsList(t), NEW n, Len(s) = n, NEW d, Len(t) = d
  PROVE  Follows(s \o t, s, n, t, d)
<1>1. Follows(s \o t, s, Len(s), t, Len(t))
  BY ListJoin
<1> QED BY <1>1

\* p is the symbolic program of f: g gates, m plain entries, q instructions
\* about families and w about protection bits, in their places.
Laid(f, p, g, m, q, w) ==
  /\ p = Symbolic(f) /\ g = Len(gates(f)) /\ m = Len(Entries(f))
  /\ q = Len(FamilyBlock(f)) /\ w = Len(WxBlock(f, Len(FamilyPart(f))))
  /\ g \in Nat /\ m \in Nat /\ q \in Nat /\ w \in Nat
  /\ IsList(p) /\ Len(p) = 3 + g + m + q + w + 2
  /\ Len(TopPart(f)) = 3 + g
  /\ Len(PlainPart(f)) = 3 + g + m
  /\ Len(FamilyPart(f)) = 3 + g + m + q
  /\ \A k \in 1 .. 3 : p[k] = Prologue[k]
  /\ \A k \in 1 .. g : p[3 + k] = GateChain(f)[k]
  /\ \A k \in 1 .. m : p[3 + g + k] = PlainEntries(f, 3 + g)[k]
  /\ \A k \in 1 .. q : p[3 + g + m + k] = FamilyBlock(f)[k]
  /\ \A k \in 1 .. w : p[3 + g + m + q + k] = WxBlock(f, 3 + g + m + q)[k]
  /\ \A k \in 1 .. 2 : p[3 + g + m + q + w + k] = Returns[k]

\* Where each block is.
LEMMA Layout ==
  ASSUME NEW f, Numbered(f),
         NEW g, g = Len(gates(f)), NEW m, m = Len(Entries(f)),
         NEW q, q = Len(FamilyBlock(f)), NEW w, w = Len(WxBlock(f, Len(FamilyPart(f)))),
         NEW p, p = Symbolic(f)
  PROVE  Laid(f, p, g, m, q, w)
<1> DEFINE P1 == Prologue
           P2 == GateChain(f)
           P3 == PlainEntries(f, Len(TopPart(f)))
           P4 == FamilyBlock(f)
           P5 == WxBlock(f, Len(FamilyPart(f)))
           P6 == Returns
           t == TopPart(f)
           l == PlainPart(f)
           a == FamilyPart(f)
           x == WxPart(f)
<1>1. /\ IsList(P1) /\ IsList(P2) /\ IsList(P3) /\ IsList(P4) /\ IsList(P5) /\ IsList(P6)
      /\ Len(P1) = 3 /\ Len(P2) = g /\ Len(P3) = m /\ Len(P4) = q /\ Len(P5) = w /\ Len(P6) = 2
  BY Blocks
<1>2. t = P1 \o P2 /\ l = t \o P3 /\ a = l \o P4 /\ x = a \o P5 /\ p = x \o P6
  BY DEF Symbolic, WxPart, FamilyPart, PlainPart, TopPart
<1> HIDE DEF P1, P2, P3, P4, P5, P6, t, l, a, x
<1>3. /\ IsList(t) /\ Len(t) = 3 + g /\ g \in Nat
      /\ \A k \in 1 .. 3 : t[k] = P1[k]
      /\ \A k \in 1 .. g : t[3 + k] = P2[k]
  <2>1. IsList(P1) /\ IsList(P2) /\ Len(P1) = 3 /\ Len(P2) = g
    BY <1>1
  <2>2. Follows(P1 \o P2, P1, 3, P2, g) /\ t = P1 \o P2
    BY <1>2, <2>1, Joined
  <2>3. Follows(t, P1, 3, P2, g)
    BY <2>2
  <2> QED BY <2>3 DEF Follows
<1>4. /\ IsList(l) /\ Len(l) = 3 + g + m /\ m \in Nat
      /\ \A k \in 1 .. 3 + g : l[k] = t[k]
      /\ \A k \in 1 .. m : l[3 + g + k] = P3[k]
  <2>1. IsList(t) /\ IsList(P3) /\ Len(t) = 3 + g /\ Len(P3) = m
    BY <1>1, <1>3
  <2>2. Follows(t \o P3, t, 3 + g, P3, m) /\ l = t \o P3
    BY <1>2, <2>1, Joined
  <2>3. Follows(l, t, 3 + g, P3, m)
    BY <2>2
  <2> QED BY <2>3 DEF Follows
<1>5. /\ IsList(a) /\ Len(a) = 3 + g + m + q /\ q \in Nat
      /\ \A k \in 1 .. 3 + g + m : a[k] = l[k]
      /\ \A k \in 1 .. q : a[3 + g + m + k] = P4[k]
  <2>1. IsList(l) /\ IsList(P4) /\ Len(l) = 3 + g + m /\ Len(P4) = q
    BY <1>1, <1>4
  <2>2. Follows(l \o P4, l, 3 + g + m, P4, q) /\ a = l \o P4
    BY <1>2, <2>1, Joined
  <2>3. Follows(a, l, 3 + g + m, P4, q)
    BY <2>2
  <2> QED BY <2>3 DEF Follows
<1>6. /\ IsList(x) /\ Len(x) = 3 + g + m + q + w /\ w \in Nat
      /\ \A k \in 1 .. 3 + g + m + q : x[k] = a[k]
      /\ \A k \in 1 .. w : x[3 + g + m + q + k] = P5[k]
  <2>1. IsList(a) /\ IsList(P5) /\ Len(a) = 3 + g + m + q /\ Len(P5) = w
    BY <1>1, <1>5
  <2>2. Follows(a \o P5, a, 3 + g + m + q, P5, w) /\ x = a \o P5
    BY <1>2, <2>1, Joined
  <2>3. Follows(x, a, 3 + g + m + q, P5, w)
    BY <2>2
  <2> QED BY <2>3 DEF Follows
<1>7. /\ IsList(p) /\ Len(p) = 3 + g + m + q + w + 2
      /\ \A k \in 1 .. 3 + g + m + q + w : p[k] = x[k]
      /\ \A k \in 1 .. 2 : p[3 + g + m + q + w + k] = P6[k]
  <2>1. IsList(x) /\ IsList(P6) /\ Len(x) = 3 + g + m + q + w /\ Len(P6) = 2
    BY <1>1, <1>6
  <2>2. Follows(x \o P6, x, 3 + g + m + q + w, P6, 2) /\ p = x \o P6
    BY <1>2, <2>1, Joined
  <2>3. Follows(p, x, 3 + g + m + q + w, P6, 2)
    BY <2>2
  <2> QED BY <2>3 DEF Follows
<1>8. \A k \in 1 .. 3 : p[k] = P1[k]
  BY <1>3, <1>4, <1>5, <1>6, <1>7
<1>9. \A k \in 1 .. g : p[3 + k] = P2[k]
  <2> SUFFICES ASSUME NEW k \in 1 .. g
               PROVE  p[3 + k] = P2[k]
    OBVIOUS
  <2>1. 3 + k \in 1 .. 3 + g /\ 3 + k \in 1 .. 3 + g + m /\ 3 + k \in 1 .. 3 + g + m + q
        /\ 3 + k \in 1 .. 3 + g + m + q + w
    BY <1>3, <1>4, <1>5, <1>6
  <2> QED BY <2>1, <1>3, <1>4, <1>5, <1>6, <1>7
<1>10. \A k \in 1 .. m : p[3 + g + k] = P3[k]
  <2> SUFFICES ASSUME NEW k \in 1 .. m
               PROVE  p[3 + g + k] = P3[k]
    OBVIOUS
  <2>1. 3 + g + k \in 1 .. 3 + g + m /\ 3 + g + k \in 1 .. 3 + g + m + q
        /\ 3 + g + k \in 1 .. 3 + g + m + q + w
    BY <1>3, <1>4, <1>5, <1>6
  <2> QED BY <2>1, <1>4, <1>5, <1>6, <1>7
<1>11. \A k \in 1 .. q : p[3 + g + m + k] = P4[k]
  <2> SUFFICES ASSUME NEW k \in 1 .. q
               PROVE  p[3 + g + m + k] = P4[k]
    OBVIOUS
  <2>1. 3 + g + m + k \in 1 .. 3 + g + m + q /\ 3 + g + m + k \in 1 .. 3 + g + m + q + w
    BY <1>3, <1>4, <1>5, <1>6
  <2> QED BY <2>1, <1>5, <1>6, <1>7
<1>12. \A k \in 1 .. w : p[3 + g + m + q + k] = P5[k]
  <2> SUFFICES ASSUME NEW k \in 1 .. w
               PROVE  p[3 + g + m + q + k] = P5[k]
    OBVIOUS
  <2>1. 3 + g + m + q + k \in 1 .. 3 + g + m + q + w
    BY <1>3, <1>4, <1>5, <1>6
  <2> QED BY <2>1, <1>6, <1>7
<1>13. P3 = PlainEntries(f, 3 + g) /\ P5 = WxBlock(f, 3 + g + m + q)
  BY <1>3, <1>5 DEF P3, P5, t, a
<1> QED BY <1>3, <1>4, <1>5, <1>6, <1>7, <1>8, <1>9, <1>10, <1>11, <1>12, <1>13
        DEF P1, P2, P4, P6, t, l, a, Laid

\* The configuration of a unit that was parsed names calls and families that
\* have a number.
LEMMA ParsedNumbers ==
  ASSUME NEW r
  PROVE  Numbered(FilterOf(parse_sandbox(r)))
<1> DEFINE c == parse_sandbox(r)
<1>1. c.syscall_nrs \subseteq 0 .. 329
  BY FewCalls DEF parse_sandbox
<1>2. extra_deny(c) \subseteq 0 .. 329
  <2>1. SYSCALLS.personality \in 0 .. 329
    BY DEF SYSCALLS
  <2> HIDE DEF c
  <2> QED BY <2>1, FewCalls DEF extra_deny, suidsgid_nrs
<1>3. c.af.families \subseteq 0 .. 329
  <2>1. \A n \in DOMAIN address_family_number : address_family_number[n] \in 0 .. 329
    BY DEF address_family_number
  <2> QED BY <2>1 DEF parse_sandbox, parse_address_families
<1> HIDE DEF c
<1>4. Numbered(FilterOf(c))
  BY <1>1, <1>2, <1>3 DEF FilterOf, Numbered
<1> QED BY <1>4 DEF c

\* A program ends in its two returns.
LEMMA BuildNotEmpty ==
  ASSUME NEW f, Numbered(f)
  PROVE  build(f) # <<>>
<1>1. PICK p, g, m, q, w :
        /\ p = Symbolic(f) /\ g = Len(gates(f)) /\ m = Len(Entries(f))
        /\ q = Len(FamilyBlock(f)) /\ w = Len(WxBlock(f, Len(FamilyPart(f))))
  OBVIOUS
<1>2. Laid(f, p, g, m, q, w)
  BY <1>1, Layout
<1>3. Len(p) \in Nat /\ Len(p) >= 2
  BY <1>2 DEF Laid
<1>4. build(f) = Assemble(p, Len(PlainPart(f)), Len(FamilyPart(f)))
  BY <1>1, BuildAssembles
<1>5. DOMAIN build(f) = 1 .. Len(p)
  BY <1>4 DEF Assemble
<1>6. 1 \in DOMAIN build(f)
  BY <1>3, <1>5
<1> QED BY <1>6

\* What the plan is made for has been done once the child runs.
LEMMA RunningDone ==
  ASSUME ChildInv, Running
  PROVE  /\ AttrInv /\ raw \in Raws /\ attr \in Attrs
         /\ ~child.skipped => \A o \in Wanted(Cfg) : Done(o)
         /\ child.shadowed \cup child.readonly # {} => child.private
<1>1. phase = "running" /\ phase \in Steps /\ phase \in AfterApply
  BY DEF Running, Steps, AfterApply, AfterDup, AfterSetSid
<1>2. PlanInv /\ AttrInv /\ raw \in Raws /\ attr \in Attrs
  BY <1>1 DEF ChildInv
<1>3. ops = <<>> /\ \A o : o \notin ToSet(ops)
  BY <1>1, <1>2 DEF PlanInv, ToSet
<1> QED BY <1>2, <1>3 DEF PlanInv

\* The mounts.
LEMMA RunningMounts ==
  ASSUME ChildInv, Running, ~child.skipped
  PROVE  /\ TmpfsTargets(Cfg) \subseteq child.shadowed
         /\ root => (ToSet(SystemPaths(Cfg.protect_system)) \cup ToSet(Cfg.read_only_paths)
                     \cup (IF Cfg.protect_home = "ReadOnly" THEN ToSet(HomePaths) ELSE {}))
                    \cap Visible \subseteq child.readonly
<1>1. \A o \in Wanted(Cfg) : Done(o)
  BY RunningDone
<1>2. Cfg.protect_system \in Levels
  BY RunningDone, ParsedConfig
<1>3. /\ ToSet(HomePaths) \subseteq Paths(Cfg)
      /\ ToSet(SystemPaths(Cfg.protect_system)) \subseteq Paths(Cfg)
      /\ ToSet(Cfg.read_only_paths) \subseteq Paths(Cfg)
      /\ {"/tmp", "/var/tmp"} \subseteq Paths(Cfg)
  <2>1. ToSet(HomePaths) = {"/home", "/root", "/run/user"}
    BY DEF HomePaths, ToSet
  <2>2. ToSet(SystemPaths(Cfg.protect_system)) \subseteq {"/usr", "/boot", "/efi", "/etc", "/"}
    BY <1>2 DEF Levels, SystemPaths, ToSet
  <2> QED BY <2>1, <2>2 DEF Paths
<1>4. ASSUME need_mountns(Cfg), NEW p \in Paths(Cfg)
      PROVE  /\ Op("MountTmpfs", p) \in Planned(Cfg) /\ Op("BindReadOnly", p) \in Planned(Cfg)
  BY <1>4 DEF Planned, Op
<1>5. ASSUME Cfg.private_tmp, NEW p \in {"/tmp", "/var/tmp"} PROVE p \in child.shadowed
  <2>1. Op("MountTmpfs", p) \in Wanted(Cfg)
    <3>1. Op("MountTmpfs", p) \in Planned(Cfg)
      BY <1>3, <1>4, <1>5 DEF need_mountns
    <3> QED BY <1>5, <3>1 DEF Wanted, Op
  <2> QED BY <1>1, <2>1 DEF Done, Op
<1>6. ASSUME Cfg.protect_home = "Tmpfs", NEW p \in ToSet(HomePaths) PROVE p \in child.shadowed
  <2>1. Op("MountTmpfs", p) \in Wanted(Cfg)
    <3>1. Op("MountTmpfs", p) \in Planned(Cfg)
      BY <1>3, <1>4, <1>6 DEF need_mountns
    <3> QED BY <1>6, <3>1 DEF Wanted, Op
  <2> QED BY <1>1, <2>1 DEF Done, Op
<1>7. ASSUME root, NEW p \in Visible,
             \/ p \in ToSet(SystemPaths(Cfg.protect_system))
             \/ p \in ToSet(Cfg.read_only_paths)
             \/ Cfg.protect_home = "ReadOnly" /\ p \in ToSet(HomePaths)
      PROVE  p \in child.readonly
  <2>1. need_mountns(Cfg)
    <3>1. ToSet(SystemPaths("No")) = {} /\ ToSet(<<>>) = {}
      BY DEF SystemPaths, ToSet
    <3> QED BY <1>7, <3>1 DEF need_mountns
  <2>2. Op("BindReadOnly", p) \in Wanted(Cfg)
    <3>1. Op("BindReadOnly", p) \in Planned(Cfg)
      BY <1>3, <1>4, <1>7, <2>1
    <3> QED BY <1>7, <3>1 DEF Wanted, Op
  <2> QED BY <1>1, <1>7, <2>2 DEF Done, Op
<1>8. TmpfsTargets(Cfg) \subseteq child.shadowed
  BY <1>5, <1>6 DEF TmpfsTargets
<1> QED BY <1>7, <1>8

\* The privileges, the capabilities and the filter.
LEMMA RunningPrivileges ==
  ASSUME ChildInv, Running, ~child.skipped
  PROVE  /\ Cfg.no_new_privileges => child.nnp
         /\ cap_number(Cfg.bounding_set) # {} =>
              IF Cfg.bounding_invert THEN child.dropped = cap_number(Cfg.bounding_set)
              ELSE (0..LAST_CAP) \ child.dropped = cap_number(Cfg.bounding_set)
         /\ need_seccomp(Cfg) => child.filter # <<>>
<1>1. \A o \in Wanted(Cfg) : Done(o)
  BY RunningDone
<1>2. ASSUME Cfg.no_new_privileges PROVE child.nnp
  <2>1. Op("NoNewPrivileges", "") \in Wanted(Cfg)
    BY <1>2 DEF Wanted, Planned, Op
  <2> QED BY <1>1, <2>1 DEF Done, Op
<1>3. ASSUME cap_number(Cfg.bounding_set) # {}
      PROVE  IF Cfg.bounding_invert THEN child.dropped = cap_number(Cfg.bounding_set)
             ELSE (0..LAST_CAP) \ child.dropped = cap_number(Cfg.bounding_set)
  <2> DEFINE caps == cap_number(Cfg.bounding_set)
             drop == cap_drop_set(caps, Cfg.bounding_invert)
  <2>1. Op("CapBoundingDrop", drop) \in Wanted(Cfg)
    BY <1>3 DEF Wanted, Planned, Op
  <2>2. child.dropped = drop
    BY <1>1, <2>1 DEF Done, Op
  <2>3. caps \subseteq 0 .. LAST_CAP
    BY DEF cap_number, CapNumber, LAST_CAP
  <2>4. drop = IF Cfg.bounding_invert THEN caps ELSE (0 .. LAST_CAP) \ caps
    BY DEF cap_drop_set
  <2> HIDE DEF caps, drop
  <2>5. IF Cfg.bounding_invert THEN child.dropped = caps
        ELSE (0 .. LAST_CAP) \ child.dropped = caps
    BY <2>2, <2>3, <2>4
  <2> QED BY <2>5 DEF caps
<1>4. ASSUME need_seccomp(Cfg) PROVE child.filter # <<>>
  <2>1. Op("Seccomp", build(FilterOf(Cfg))) \in Wanted(Cfg)
    BY <1>4 DEF Wanted, Planned, Op
  <2>2. child.filter = build(FilterOf(Cfg))
    BY <1>1, <2>1 DEF Done, Op
  <2> QED BY <2>2, ParsedNumbers, BuildNotEmpty DEF Cfg
<1> QED BY <1>2, <1>3, <1>4

\* The identity, the limits and the listeners.
LEMMA RunningAttributes ==
  ASSUME ChildInv, Running
  PROVE  RunsAsConfigured /\ ListenersInPlace
<1>1. AttrInv /\ attr \in Attrs /\ phase = "running"
  BY RunningDone DEF Running
<1>2. RunsAsConfigured
  BY <1>1
  DEF AttrInv, RunsAsConfigured, AfterSetSid, AfterDup, AfterApply, AfterChDir, AfterGroups,
      AfterGid, AfterUid, AfterLimit
<1>3. ASSUME NEW i \in 1 .. Len(attr.Listeners)
      PROVE  child.fds[2 + i] = socket_fds_for[i]
  <2>1. DOMAIN socket_fds_for = 1 .. Len(attr.Listeners) /\ Len(attr.Listeners) \in Nat
    BY <1>1, ListenersMoved, AttrsAssumption
  <2>2. socket_fds_for # <<>>
    BY <2>1
  <2>3. child.fds = Moved(socket_fds_for, DOMAIN socket_fds_for)
    BY <1>1, <2>2 DEF AttrInv, AfterSetSid, AfterDup
  <2>4. PICK fds : fds = socket_fds_for
    OBVIOUS
  <2>5. child.fds = Moved(fds, 1 .. Len(attr.Listeners))
    BY <2>1, <2>3, <2>4
  <2>6. Moved(fds, 1 .. Len(attr.Listeners))[2 + i] = fds[(2 + i) - 2]
    BY <1>3, <2>1 DEF Moved
  <2>7. (2 + i) - 2 = i
    BY <2>1
  <2> QED BY <2>4, <2>5, <2>6, <2>7
<1> QED BY <1>2, <1>3 DEF ListenersInPlace

\* apply and spawn: a service that runs has every mount, bounding set and filter
\* of its unit, its identity, directory and limits, and each of its listeners
\* in its place: whichever of the calls on the way are refused, for every unit
\* file, every set of attributes and every machine, whatever is absent from it.
THEOREM RunsAsDescribedCorrect == Spec => []RunsAsDescribed
<1>1. Init => ChildInv
  BY ChildInvInductive
<1>2. ChildInv /\ [Next]_vars => ChildInv'
  BY ChildInvInductive
<1>3. ChildInv => RunsAsDescribed
  <2>1. ASSUME ChildInv PROVE RunningIsSandboxed
    BY <2>1, RunningMounts, RunningPrivileges, RunningDone DEF RunningIsSandboxed
  <2>2. ASSUME ChildInv PROVE RunsAsConfigured /\ ListenersInPlace
    BY <2>2, RunningAttributes DEF RunsAsConfigured, ListenersInPlace
  <2> QED BY <2>1, <2>2 DEF RunsAsDescribed
<1> QED BY <1>1, <1>2, <1>3, PTL DEF Spec

-----------------------------------------------------------------------------
(* What a filter decides.  The run of a program is a function from its      *)
(* instructions on, which exists because every jump goes forward.           *)

\* What the accumulator may hold
Regs == {Arch, Nr, Arg0, Arg2, "masked"}

\* Every jump of the program goes forward and stays inside
Forward(prog) ==
  /\ Len(prog) \in Nat \ {0}
  /\ \A n \in 1 .. Len(prog) :
       /\ prog[n].op \in {"ld", "and", "jeq", "jset", "ret"}
       /\ prog[n].op = "ld" => prog[n].k \in Regs
       /\ prog[n].op \in {"ld", "and"} => n < Len(prog)
       /\ prog[n].op \in {"jeq", "jset"} =>
            /\ prog[n].jt \in Nat /\ n + prog[n].jt < Len(prog)
            /\ prog[n].jf \in Nat /\ n + prog[n].jf < Len(prog)

\* Where the instruction at pc goes on, and with what in the accumulator
Onward(prog, call, pc, a) ==
  LET i == prog[pc + 1]
  IN CASE i.op = "ld"   -> <<pc + 1, i.k>>
       [] i.op = "and"  -> <<pc + 1, "masked">>
       [] i.op = "jeq"  -> <<pc + 1 + (IF Loaded(call, a) = i.k THEN i.jt ELSE i.jf), a>>
       [] i.op = "jset" -> <<pc + 1 + (IF i.k \in Loaded(call, a) THEN i.jt ELSE i.jf), a>>

\* h says what the program decides from each instruction on
Decides(h, prog, call) ==
  \A pc \in 0 .. Len(prog) - 1, a \in Regs :
    h[pc][a] = IF prog[pc + 1].op = "ret" THEN prog[pc + 1].k
               ELSE h[Onward(prog, call, pc, a)[1]][Onward(prog, call, pc, a)[2]]

LEMMA OnwardForward ==
  ASSUME NEW prog, Forward(prog), NEW call, NEW pc \in 0 .. Len(prog) - 1, NEW a \in Regs,
         prog[pc + 1].op # "ret"
  PROVE  /\ Onward(prog, call, pc, a)[1] \in pc + 1 .. Len(prog) - 1
         /\ Onward(prog, call, pc, a)[2] \in Regs
<1> DEFINE i == prog[pc + 1]
<1>1. /\ pc + 1 \in 1 .. Len(prog) /\ Len(prog) \in Nat
      /\ i.op \in {"ld", "and", "jeq", "jset"}
      /\ i.op = "ld" => i.k \in Regs
      /\ i.op \in {"ld", "and"} => pc + 1 < Len(prog)
      /\ i.op \in {"jeq", "jset"} =>
            /\ i.jt \in Nat /\ pc + 1 + i.jt < Len(prog)
            /\ i.jf \in Nat /\ pc + 1 + i.jf < Len(prog)
  BY DEF Forward
<1>2. CASE i.op = "ld"
  <2>1. Onward(prog, call, pc, a) = <<pc + 1, i.k>>
    BY <1>2 DEF Onward
  <2> QED BY <1>1, <1>2, <2>1
<1>3. CASE i.op = "and"
  <2>1. Onward(prog, call, pc, a) = <<pc + 1, "masked">>
    BY <1>3 DEF Onward
  <2> QED BY <1>1, <1>3, <2>1 DEF Regs
<1>4. CASE i.op = "jeq"
  <2>1. Onward(prog, call, pc, a) = <<pc + 1 + (IF Loaded(call, a) = i.k THEN i.jt ELSE i.jf), a>>
    BY <1>4 DEF Onward
  <2> QED BY <1>1, <1>4, <2>1
<1>5. CASE i.op = "jset"
  <2>1. Onward(prog, call, pc, a) = <<pc + 1 + (IF i.k \in Loaded(call, a) THEN i.jt ELSE i.jf), a>>
    BY <1>5 DEF Onward
  <2> QED BY <1>1, <1>5, <2>1
<1> QED BY <1>1, <1>2, <1>3, <1>4, <1>5

LEMMA DecisionExists ==
  ASSUME NEW prog, Forward(prog), NEW call
  PROVE  \E h \in [0 .. Len(prog) - 1 -> [Regs -> {prog[n].k : n \in 1 .. Len(prog)}]] :
           Decides(h, prog, call)
<1> DEFINE N == Len(prog)
           V == {prog[n].k : n \in 1 .. N}
           From(k, h) == \A pc \in N - k .. N - 1, a \in Regs :
                           h[pc][a] = IF prog[pc + 1].op = "ret" THEN prog[pc + 1].k
                                      ELSE h[Onward(prog, call, pc, a)[1]][Onward(prog, call, pc, a)[2]]
           D == {k \in 0 .. N : ~ \E h \in [N - k .. N - 1 -> [Regs -> V]] : From(k, h)}
<1>1. N \in Nat /\ D \in SUBSET Nat
  BY DEF Forward
<1> SUFFICES ASSUME D # {}
             PROVE  FALSE
  <2>1. CASE D = {}
    <3>a. N \in 0 .. N /\ N \notin D
      <4> HIDE DEF D
      <4> QED BY <1>1, <2>1
    <3>1. PICK h \in [N - N .. N - 1 -> [Regs -> V]] : From(N, h)
      <4> HIDE DEF V, From, D, N
      <4> QED BY <3>a DEF D
    <3>2. N - N = 0
      BY <1>1
    <3> HIDE DEF N, V
    <3> QED BY <3>1, <3>2 DEF Decides, N, V
  <2> QED BY <2>1
<1> HIDE DEF D
<1>2. PICK k \in D : \A d \in D : k <= d
  BY <1>1, LeastNatural
<1>3. k \in 0 .. N /\ ~ \E h \in [N - k .. N - 1 -> [Regs -> V]] : From(k, h)
  BY <1>2 DEF D
<1>4. CASE k = 0
  <2> DEFINE h == [pc \in N - k .. N - 1 |-> [a \in Regs |-> prog[pc + 1].k]]
  <2>1. N - k .. N - 1 = {}
    BY <1>1, <1>4
  <2>2. h \in [N - k .. N - 1 -> [Regs -> V]] /\ From(k, h)
    BY <2>1
  <2> HIDE DEF h, V, N
  <2> QED BY <1>3, <2>2
<1>5. CASE k # 0
  <2>1. k - 1 \in 0 .. N /\ k - 1 \notin D /\ N - (k - 1) = N - k + 1
        /\ N - k \in 0 .. N - 1 /\ N - k + 1 \in 1 .. N
    BY <1>1, <1>2, <1>3, <1>5
  <2>2. PICK g \in [N - (k - 1) .. N - 1 -> [Regs -> V]] : From(k - 1, g)
    BY <2>1 DEF D
  <2> DEFINE p == N - k
             first == [a \in Regs |-> IF prog[p + 1].op = "ret" THEN prog[p + 1].k
                                      ELSE g[Onward(prog, call, p, a)[1]][Onward(prog, call, p, a)[2]]]
             h == [pc \in p .. N - 1 |-> IF pc = p THEN first ELSE g[pc]]
  <2>3. first \in [Regs -> V]
    <3> SUFFICES ASSUME NEW a \in Regs
                 PROVE  first[a] \in V
      OBVIOUS
    <3>1. CASE prog[p + 1].op = "ret"
      BY <2>1, <3>1
    <3>2. CASE prog[p + 1].op # "ret"
      <4>1. /\ Onward(prog, call, p, a)[1] \in p + 1 .. N - 1
            /\ Onward(prog, call, p, a)[2] \in Regs
        BY <2>1, <3>2, OnwardForward
      <4> HIDE DEF V, N
      <4> QED BY <2>1, <2>2, <3>2, <4>1
    <3> QED BY <3>1, <3>2
  <2> HIDE DEF first
  <2>4. h \in [p .. N - 1 -> [Regs -> V]]
    <3> SUFFICES ASSUME NEW pc \in p .. N - 1
                 PROVE  h[pc] \in [Regs -> V]
      OBVIOUS
    <3>1. pc # p => pc \in N - (k - 1) .. N - 1
      BY <2>1, <1>1
    <3> HIDE DEF V, N
    <3> QED BY <2>2, <2>3, <3>1
  <2>5. From(k, h)
    <3> SUFFICES ASSUME NEW pc \in p .. N - 1, NEW a \in Regs
                 PROVE  h[pc][a] = IF prog[pc + 1].op = "ret" THEN prog[pc + 1].k
                                   ELSE h[Onward(prog, call, pc, a)[1]][Onward(prog, call, pc, a)[2]]
      OBVIOUS
    <3> DEFINE o == Onward(prog, call, pc, a)
    <3>1. prog[pc + 1].op # "ret" => o[1] \in pc + 1 .. N - 1 /\ o[2] \in Regs
      <4>1. pc \in 0 .. Len(prog) - 1
        BY <2>1, <1>1
      <4> QED BY <4>1, OnwardForward
    <3>2. prog[pc + 1].op # "ret" => h[o[1]] = g[o[1]]
      <4>1. \A q \in pc + 1 .. N - 1 : q \in p .. N - 1 /\ q # p
        BY <2>1, <1>1
      <4> HIDE DEF o, N
      <4> QED BY <3>1, <4>1
    <3>3. CASE pc = p
      <4>1. h[pc][a] = first[a]
        BY <3>3, <2>1, <1>1
      <4>2. first[a] = IF prog[p + 1].op = "ret" THEN prog[p + 1].k ELSE g[o[1]][o[2]]
        BY <3>3 DEF first
      <4> HIDE DEF h, o
      <4> QED BY <3>2, <3>3, <4>1, <4>2 DEF o
    <3>4. CASE pc # p
      <4>1. pc \in N - (k - 1) .. N - 1
        BY <2>1, <1>1, <3>4
      <4>2. h[pc][a] = g[pc][a]
        BY <3>4
      <4>3. g[pc][a] = IF prog[pc + 1].op = "ret" THEN prog[pc + 1].k ELSE g[o[1]][o[2]]
        BY <2>2, <4>1
      <4> HIDE DEF h, o
      <4> QED BY <3>2, <4>2, <4>3 DEF o
    <3> QED BY <3>3, <3>4
  <2> QED BY <1>3, <2>4, <2>5
<1> QED BY <1>4, <1>5

LEMMA RunDecides ==
  ASSUME NEW prog, Forward(prog), NEW call
  PROVE  \E h : Decides(h, prog, call) /\ RunFilter(prog, call) = h[0][Nr]
<1> DEFINE N == Len(prog)
           Value(h, pc, a) ==
             LET i == prog[pc + 1]
             IN CASE i.op = "ld"   -> h[pc + 1][i.k]
                  [] i.op = "and"  -> h[pc + 1]["masked"]
                  [] i.op = "jeq"  -> h[pc + 1 + (IF Loaded(call, a) = i.k THEN i.jt ELSE i.jf)][a]
                  [] i.op = "jset" -> h[pc + 1 + (IF i.k \in Loaded(call, a) THEN i.jt ELSE i.jf)][a]
                  [] i.op = "ret"  -> i.k
           Body(h, pc) == [a \in Regs |-> Value(h, pc, a)]
           F(h) == [pc \in 0 .. N - 1 |-> Body(h, pc)]
           Run == CHOOSE h : h = F(h)
<1>1. RunFilter(prog, call) = Run[0][Nr]
  BY DEF RunFilter, Regs
<1>2. ASSUME NEW h, NEW pc \in 0 .. N - 1, NEW a \in Regs
      PROVE  Value(h, pc, a) = IF prog[pc + 1].op = "ret" THEN prog[pc + 1].k
                                ELSE h[Onward(prog, call, pc, a)[1]][Onward(prog, call, pc, a)[2]]
  <2>1. prog[pc + 1].op \in {"ld", "and", "jeq", "jset", "ret"}
    BY DEF Forward
  <2> QED BY <2>1 DEF Onward
<1>3. PICK h \in [0 .. N - 1 -> [Regs -> {prog[n].k : n \in 1 .. N}]] : Decides(h, prog, call)
  BY DecisionExists
<1> HIDE DEF Value
<1>4. h = F(h)
  <2>1. ASSUME NEW pc \in 0 .. N - 1
        PROVE  h[pc] = Body(h, pc)
    <3>1. \A a \in Regs : h[pc][a] = Value(h, pc, a)
      BY <1>2, <1>3 DEF Decides
    <3>2. h[pc] = [a \in Regs |-> h[pc][a]]
      BY <1>3
    <3> QED BY <3>1, <3>2
  <2> HIDE DEF Body, N
  <2> QED BY <2>1, <1>3
<1>5. Run = F(Run)
  <2> HIDE DEF F
  <2> QED BY <1>4
<1> HIDE DEF Run
<1>6. Decides(Run, prog, call)
  <2> SUFFICES ASSUME NEW pc \in 0 .. Len(prog) - 1, NEW a \in Regs
               PROVE  Run[pc][a] = IF prog[pc + 1].op = "ret" THEN prog[pc + 1].k
                        ELSE Run[Onward(prog, call, pc, a)[1]][Onward(prog, call, pc, a)[2]]
    BY DEF Decides
  <2>1. Run[pc] = Body(Run, pc)
    <3> HIDE DEF Body
    <3> QED BY <1>5
  <2> QED BY <1>2, <2>1
<1> QED BY <1>1, <1>6

-----------------------------------------------------------------------------
(* The assembled program jumps where its targets are.                      *)

\* Where a target of a program is, counted as the program counter is.
Where(f, t) ==
  CASE t.to = "I"      -> t.i
    [] t.to = "Errno"  -> Len(Symbolic(f)) - 2
    [] t.to = "Allow"  -> Len(Symbolic(f)) - 1
    [] t.to = "Famarg" -> Len(PlainPart(f))
    [] t.to = "WxArg"  -> Len(FamilyPart(f))

\* A target that the n-th instruction may jump to.
AheadOf(f, n, t) == t.to # "None" /\ Where(f, t) \in n .. Len(Symbolic(f)) - 1

LEMMA ModSmall ==
  ASSUME NEW d \in Nat, NEW x \in 0 .. d - 1
  PROVE  x % d = x
OBVIOUS

\* The resolved offset of a target that is ahead leads there: no u8 wraps.
LEMMA OffsetLeads ==
  ASSUME NEW f, NEW n \in Nat \ {0}, NEW t, AheadOf(f, n, t),
         Len(Symbolic(f)) \in Nat, Len(Symbolic(f)) <= JumpMod
  PROVE  LET off == (Where(f, t) - (n - 1) - 1) % JumpMod
         IN off \in Nat /\ n + off = Where(f, t)
<1> DEFINE v == Where(f, t)
           x == v - (n - 1) - 1
<1>1. v \in n .. Len(Symbolic(f)) - 1
  BY DEF AheadOf
<1> HIDE DEF v
<1>2. x \in 0 .. JumpMod - 1 /\ JumpMod \in Nat /\ n + x = v
  BY <1>1, JumpModAssumption
<1> HIDE DEF x
<1>3. x % JumpMod = x
  BY <1>2, ModSmall
<1> QED BY <1>2, <1>3 DEF x, v

\* What the assembled instructions are.
LEMMA Assembled ==
  ASSUME NEW f, NEW p, p = Symbolic(f), Len(p) \in Nat, Len(p) <= JumpMod, NEW b, b = build(f)
  PROVE  /\ Len(b) = Len(p)
         /\ \A n \in 1 .. Len(p) :
              /\ b[n].op = p[n].op /\ b[n].k = p[n].k
              /\ AheadOf(f, n, p[n].jt) => b[n].jt \in Nat /\ n + b[n].jt = Where(f, p[n].jt)
              /\ AheadOf(f, n, p[n].jf) => b[n].jf \in Nat /\ n + b[n].jf = Where(f, p[n].jf)
<1> DEFINE abs(t) == CASE t.to = "I" -> t.i
                       [] t.to = "Errno" -> Len(p) - 2
                       [] t.to = "Allow" -> Len(p) - 1
                       [] t.to = "Famarg" -> Len(PlainPart(f))
                       [] t.to = "WxArg" -> Len(FamilyPart(f))
           off(i, t) == IF t.to = "None" THEN 0 ELSE (abs(t) - i - 1) % JumpMod
           code(n) == [op |-> p[n].op, k |-> p[n].k,
                       jt |-> off(n - 1, p[n].jt), jf |-> off(n - 1, p[n].jf)]
<1>1. \A t : abs(t) = Where(f, t)
  BY DEF Where
<1>2. b = [n \in 1 .. Len(p) |-> code(n)]
  <2>1. b = Assemble(p, Len(PlainPart(f)), Len(FamilyPart(f)))
    BY BuildAssembles
  <2> QED BY <2>1 DEF Assemble
<1> HIDE DEF abs
<1>3. Len(b) = Len(p)
  <2> HIDE DEF code
  <2> QED BY <1>2
<1>4. ASSUME NEW n \in 1 .. Len(p), NEW t, AheadOf(f, n, t)
      PROVE  off(n - 1, t) \in Nat /\ n + off(n - 1, t) = Where(f, t)
  <2>1. t.to # "None"
    BY <1>4 DEF AheadOf
  <2>2. off(n - 1, t) = (Where(f, t) - (n - 1) - 1) % JumpMod
    BY <1>1, <2>1
  <2> QED BY <1>4, <2>2, OffsetLeads
<1> HIDE DEF off
<1>5. \A n \in 1 .. Len(p) : /\ b[n].op = p[n].op /\ b[n].k = p[n].k
                             /\ b[n].jt = off(n - 1, p[n].jt) /\ b[n].jf = off(n - 1, p[n].jf)
  BY <1>2
<1> QED BY <1>3, <1>4, <1>5

\* Every instruction of the symbolic program is one of the machine's, and
\* its targets are ahead of it.
Sound(f, n, i) ==
  /\ i.op \in {"ld", "and", "jeq", "jset", "ret"}
  /\ i.op = "ld" => i.k \in Regs
  /\ i.op \in {"ld", "and"} => n < Len(Symbolic(f))
  /\ i.op \in {"jeq", "jset"} => AheadOf(f, n, i.jt) /\ AheadOf(f, n, i.jf)

\* What h, which says what the program decides, says of an instruction.
Follow(f, h, call, n, a, i) ==
  CASE i.op = "ld"   -> h[n][i.k]
    [] i.op = "and"  -> h[n]["masked"]
    [] i.op = "jeq"  -> h[Where(f, IF Loaded(call, a) = i.k THEN i.jt ELSE i.jf)][a]
    [] i.op = "jset" -> h[Where(f, IF i.k \in Loaded(call, a) THEN i.jt ELSE i.jf)][a]
    [] i.op = "ret"  -> i.k

\* A program whose instructions are sound decides along its symbolic targets.
LEMMA SoundDecides ==
  ASSUME NEW f, NEW call, NEW p, p = Symbolic(f), Len(p) \in Nat \ {0}, Len(p) <= JumpMod,
         \A n \in 1 .. Len(p) : Sound(f, n, p[n])
  PROVE  \E h : /\ RunFilter(build(f), call) = h[0][Nr]
                /\ \A n \in 1 .. Len(p), a \in Regs : h[n - 1][a] = Follow(f, h, call, n, a, p[n])
<1> DEFINE b == build(f)
<1>1. /\ Len(b) = Len(p)
      /\ \A n \in 1 .. Len(p) :
           /\ b[n].op = p[n].op /\ b[n].k = p[n].k
           /\ AheadOf(f, n, p[n].jt) => b[n].jt \in Nat /\ n + b[n].jt = Where(f, p[n].jt)
           /\ AheadOf(f, n, p[n].jf) => b[n].jf \in Nat /\ n + b[n].jf = Where(f, p[n].jf)
  BY Assembled
<1> HIDE DEF b
<1>2. Forward(b)
  <2> SUFFICES ASSUME NEW n \in 1 .. Len(p)
               PROVE  /\ b[n].op \in {"ld", "and", "jeq", "jset", "ret"}
                      /\ b[n].op = "ld" => b[n].k \in Regs
                      /\ b[n].op \in {"ld", "and"} => n < Len(b)
                      /\ b[n].op \in {"jeq", "jset"} =>
                           /\ b[n].jt \in Nat /\ n + b[n].jt < Len(b)
                           /\ b[n].jf \in Nat /\ n + b[n].jf < Len(b)
    BY <1>1 DEF Forward
  <2>1. Sound(f, n, p[n])
    OBVIOUS
  <2>2. \A t : AheadOf(f, n, t) => Where(f, t) \in Nat /\ Where(f, t) < Len(p)
    BY DEF AheadOf
  <2> QED BY <1>1, <2>1, <2>2 DEF Sound
<1>3. PICK h : Decides(h, b, call) /\ RunFilter(b, call) = h[0][Nr]
  BY <1>2, RunDecides
<1>4. ASSUME NEW n \in 1 .. Len(p), NEW a \in Regs
      PROVE  h[n - 1][a] = Follow(f, h, call, n, a, p[n])
  <2> DEFINE pc == n - 1
  <2>1. pc \in 0 .. Len(b) - 1 /\ pc + 1 = n
    BY <1>1
  <2>2. h[pc][a] = IF b[pc + 1].op = "ret" THEN b[pc + 1].k
                   ELSE h[Onward(b, call, pc, a)[1]][Onward(b, call, pc, a)[2]]
    BY <1>3, <2>1 DEF Decides
  <2>3. Sound(f, n, p[n])
    OBVIOUS
  <2>4. b[n].op = p[n].op /\ b[n].k = p[n].k
    BY <1>1
  <2> HIDE DEF pc
  <2>5. CASE p[n].op = "ret"
    BY <2>1, <2>2, <2>4, <2>5 DEF pc, Follow
  <2>6. CASE p[n].op = "ld"
    <3>1. Onward(b, call, pc, a) = <<n, p[n].k>>
      BY <2>1, <2>4, <2>6 DEF Onward
    <3> QED BY <2>1, <2>2, <2>4, <2>6, <3>1 DEF pc, Follow
  <2>7. CASE p[n].op = "and"
    <3>1. Onward(b, call, pc, a) = <<n, "masked">>
      BY <2>1, <2>4, <2>7 DEF Onward
    <3> QED BY <2>1, <2>2, <2>4, <2>7, <3>1 DEF pc, Follow
  <2>8. CASE p[n].op = "jeq"
    <3>1. n + b[n].jt = Where(f, p[n].jt) /\ n + b[n].jf = Where(f, p[n].jf)
      BY <1>1, <2>3, <2>8 DEF Sound
    <3>2. Onward(b, call, pc, a)
            = <<n + (IF Loaded(call, a) = p[n].k THEN b[n].jt ELSE b[n].jf), a>>
      BY <2>1, <2>4, <2>8 DEF Onward
    <3>3. Follow(f, h, call, n, a, p[n])
            = h[Where(f, IF Loaded(call, a) = p[n].k THEN p[n].jt ELSE p[n].jf)][a]
      BY <2>8 DEF Follow
    <3>4. CASE Loaded(call, a) = p[n].k
      BY <2>1, <2>2, <2>4, <2>8, <3>1, <3>2, <3>3, <3>4 DEF pc
    <3>5. CASE Loaded(call, a) # p[n].k
      BY <2>1, <2>2, <2>4, <2>8, <3>1, <3>2, <3>3, <3>5 DEF pc
    <3> QED BY <3>4, <3>5
  <2>9. CASE p[n].op = "jset"
    <3>1. n + b[n].jt = Where(f, p[n].jt) /\ n + b[n].jf = Where(f, p[n].jf)
      BY <1>1, <2>3, <2>9 DEF Sound
    <3>2. Onward(b, call, pc, a)
            = <<n + (IF p[n].k \in Loaded(call, a) THEN b[n].jt ELSE b[n].jf), a>>
      BY <2>1, <2>4, <2>9 DEF Onward
    <3>3. Follow(f, h, call, n, a, p[n])
            = h[Where(f, IF p[n].k \in Loaded(call, a) THEN p[n].jt ELSE p[n].jf)][a]
      BY <2>9 DEF Follow
    <3>4. CASE p[n].k \in Loaded(call, a)
      BY <2>1, <2>2, <2>4, <2>9, <3>1, <3>2, <3>3, <3>4 DEF pc
    <3>5. CASE p[n].k \notin Loaded(call, a)
      BY <2>1, <2>2, <2>4, <2>9, <3>1, <3>2, <3>3, <3>5 DEF pc
    <3> QED BY <3>4, <3>5
  <2> QED BY <2>3, <2>5, <2>6, <2>7, <2>8, <2>9 DEF Sound
<1> QED BY <1>3, <1>4 DEF b

\* Where the targets are.
Placed(f, g, m, q, w) ==
  /\ Where(f, Tgt("Errno")) = 3 + g + m + q + w
  /\ Where(f, Tgt("Allow")) = 3 + g + m + q + w + 1
  /\ Where(f, Tgt("Famarg")) = 3 + g + m
  /\ Where(f, Tgt("WxArg")) = 3 + g + m + q
  /\ \A i : Where(f, At(i)) = i

LEMMA Targets ==
  ASSUME NEW f, NEW p, NEW g, NEW m, NEW q, NEW w, Laid(f, p, g, m, q, w)
  PROVE  Placed(f, g, m, q, w)
<1>1. /\ g \in Nat /\ m \in Nat /\ q \in Nat /\ w \in Nat
      /\ Len(Symbolic(f)) = 3 + g + m + q + w + 2
      /\ Len(PlainPart(f)) = 3 + g + m /\ Len(FamilyPart(f)) = 3 + g + m + q
  BY DEF Laid
<1>2. Where(f, Tgt("Errno")) = Len(Symbolic(f)) - 2
  BY DEF Where, Tgt
<1>3. Where(f, Tgt("Allow")) = Len(Symbolic(f)) - 1
  BY DEF Where, Tgt
<1>4. Where(f, Tgt("Famarg")) = Len(PlainPart(f)) /\ Where(f, Tgt("WxArg")) = Len(FamilyPart(f))
  BY DEF Where, Tgt
<1>5. \A i : Where(f, At(i)) = i
  BY DEF Where, At
<1> QED BY <1>1, <1>2, <1>3, <1>4, <1>5 DEF Placed

\* Where a call goes whose protection bits, or whose family, count.
WxTarget(f, nr) == IF list_denies(f, nr) THEN Tgt("Errno") ELSE Tgt("WxArg")
AfTarget(f, nr) == IF list_denies(f, nr) THEN Tgt("Errno")
                   ELSE IF const_errno(f.af) THEN pick_t(fam_default_errno(f.af))
                   ELSE Tgt("Famarg")

\* The numbers of those calls.
GateNumbers == {9, 10, 329, 41, 53}

LEMMA GatedNumbers ==
  /\ wx_nrs = <<9, 10, 329>> /\ af_nrs = <<41, 53>>
  /\ ToSet(wx_nrs) = {9, 10, 329} /\ ToSet(af_nrs) = {41, 53}
<1>1. wx_nrs = <<9, 10, 329>> /\ af_nrs = <<41, 53>>
  BY DEF wx_nrs, af_nrs, SYSCALLS
<1>2. ToSet(<<9, 10, 329>>) = {9, 10, 329} /\ ToSet(<<41, 53>>) = {41, 53}
  BY DEF ToSet
<1> QED BY <1>1, <1>2

\* There is a gate for each of them that a directive restricts, and none for
\* another call.
LEMMA GateShape ==
  ASSUME NEW f
  PROVE  /\ \A k \in 1 .. Len(gates(f)) :
              \/ /\ f.wx /\ gates(f)[k][1] \in {9, 10, 329}
                 /\ gates(f)[k][2] = WxTarget(f, gates(f)[k][1])
              \/ /\ f.af.present /\ gates(f)[k][1] \in {41, 53}
                 /\ gates(f)[k][2] = AfTarget(f, gates(f)[k][1])
         /\ f.wx => \A nr \in {9, 10, 329} : \E k \in 1 .. Len(gates(f)) : gates(f)[k][1] = nr
         /\ f.af.present => \A nr \in {41, 53} : \E k \in 1 .. Len(gates(f)) : gates(f)[k][1] = nr
<1> DEFINE A == IF f.wx THEN WxGates(f) ELSE <<>>
           B == IF f.af.present THEN AfGates(f) ELSE <<>>
<1>1. /\ gates(f) = A \o B
      /\ IsList(WxGates(f)) /\ Len(WxGates(f)) = 3
      /\ IsList(AfGates(f)) /\ Len(AfGates(f)) = 2
  BY GateLists
<1>2. \A k \in 1 .. 3 : /\ WxGates(f)[k][1] \in {9, 10, 329}
                        /\ WxGates(f)[k][2] = WxTarget(f, WxGates(f)[k][1])
  BY GatedNumbers DEF WxGates, WxTarget
<1>3. \A k \in 1 .. 2 : /\ AfGates(f)[k][1] \in {41, 53}
                        /\ AfGates(f)[k][2] = AfTarget(f, AfGates(f)[k][1])
  BY GatedNumbers DEF AfGates, AfTarget
<1>4. \A nr \in {9, 10, 329} : \E k \in 1 .. 3 : WxGates(f)[k][1] = nr
  <2>1. WxGates(f)[1][1] = 9 /\ WxGates(f)[2][1] = 10 /\ WxGates(f)[3][1] = 329
    BY GatedNumbers DEF WxGates
  <2> QED BY <2>1
<1>5. \A nr \in {41, 53} : \E k \in 1 .. 2 : AfGates(f)[k][1] = nr
  <2>1. AfGates(f)[1][1] = 41 /\ AfGates(f)[2][1] = 53
    BY GatedNumbers DEF AfGates
  <2> QED BY <2>1
<1>6. /\ IsList(A) /\ Len(A) \in Nat /\ (f.wx => Len(A) = 3 /\ A = WxGates(f)) /\ (~f.wx => Len(A) = 0)
  <2>1. CASE f.wx
    BY <1>1, <2>1
  <2>2. CASE ~f.wx
    BY ShortLists, <2>2
  <2> QED BY <2>1, <2>2
<1>7. /\ IsList(B) /\ Len(B) \in Nat /\ (f.af.present => Len(B) = 2 /\ B = AfGates(f))
      /\ (~f.af.present => Len(B) = 0)
  <2>1. CASE f.af.present
    BY <1>1, <2>1
  <2>2. CASE ~f.af.present
    BY ShortLists, <2>2
  <2> QED BY <2>1, <2>2
<1> HIDE DEF A, B
<1>8. Follows(A \o B, A, Len(A), B, Len(B))
  BY <1>6, <1>7, ListJoin
<1>9. /\ Len(gates(f)) = Len(A) + Len(B)
      /\ \A k \in 1 .. Len(A) : gates(f)[k] = A[k]
      /\ \A k \in 1 .. Len(B) : gates(f)[Len(A) + k] = B[k]
  BY <1>1, <1>8 DEF Follows
<1>10. ASSUME NEW k \in 1 .. Len(gates(f))
       PROVE  \/ /\ f.wx /\ gates(f)[k][1] \in {9, 10, 329}
                 /\ gates(f)[k][2] = WxTarget(f, gates(f)[k][1])
              \/ /\ f.af.present /\ gates(f)[k][1] \in {41, 53}
                 /\ gates(f)[k][2] = AfTarget(f, gates(f)[k][1])
  <2>1. CASE k <= Len(A)
    <3>1. k \in 1 .. Len(A)
      BY <1>6, <1>7, <1>9, <2>1
    <3>2. f.wx /\ k \in 1 .. 3 /\ gates(f)[k] = WxGates(f)[k]
      BY <1>6, <1>9, <3>1
    <3> QED BY <1>2, <3>2
  <2>2. CASE k > Len(A)
    <3>0. Len(A) \in Nat /\ Len(B) \in Nat /\ k \in 1 .. Len(A) + Len(B)
      BY <1>6, <1>7, <1>9
    <3>1. k - Len(A) \in 1 .. Len(B) /\ Len(A) + (k - Len(A)) = k
      BY <2>2, <3>0
    <3> DEFINE j == k - Len(A)
    <3> HIDE DEF j
    <3>2. gates(f)[Len(A) + j] = B[j] /\ j \in 1 .. Len(B) /\ Len(A) + j = k
      BY <1>9, <3>1 DEF j
    <3>3. f.af.present /\ j \in 1 .. 2 /\ gates(f)[k] = AfGates(f)[j]
      BY <1>7, <3>2
    <3> QED BY <1>3, <3>3
  <2> QED BY <1>6, <2>1, <2>2
<1>11. ASSUME f.wx, NEW nr \in {9, 10, 329}
       PROVE  \E k \in 1 .. Len(gates(f)) : gates(f)[k][1] = nr
  <2>1. PICK k \in 1 .. 3 : WxGates(f)[k][1] = nr
    BY <1>4
  <2>2. Len(A) = 3 /\ A = WxGates(f)
    BY <1>6, <1>11
  <2>3. Len(A) = 3
    BY <2>2
  <2>4. k \in 1 .. Len(A) /\ k \in 1 .. Len(gates(f)) /\ gates(f)[k] = A[k]
    BY <2>3, <1>7, <1>9
  <2> QED BY <2>1, <2>2, <2>4
<1>12. ASSUME f.af.present, NEW nr \in {41, 53}
       PROVE  \E k \in 1 .. Len(gates(f)) : gates(f)[k][1] = nr
  <2>1. PICK k \in 1 .. 2 : AfGates(f)[k][1] = nr
    BY <1>5
  <2>2. k \in 1 .. Len(B) /\ gates(f)[Len(A) + k] = AfGates(f)[k]
    BY <1>7, <1>9, <1>12
  <2>3. Len(A) + k \in 1 .. Len(gates(f))
    BY <1>6, <1>7, <1>9, <2>2
  <2> QED BY <2>1, <2>2, <2>3
<1> QED BY <1>10, <1>11, <1>12

\* The four targets outside the chains are ahead of every instruction that
\* comes before them.
LEMMA SoundParts ==
  ASSUME NEW f, Numbered(f), NEW p, NEW g, NEW m, NEW q, NEW w, Laid(f, p, g, m, q, w)
  PROVE  \A n \in 1 .. Len(p) : Sound(f, n, p[n])
<1> DEFINE N == 3 + g + m + q + w + 2
<1>1. /\ g \in Nat /\ m \in Nat /\ q \in Nat /\ w \in Nat /\ Len(p) = N
      /\ p = Symbolic(f) /\ g = Len(gates(f)) /\ m = Len(Entries(f))
      /\ q = Len(FamilyBlock(f)) /\ w = Len(WxBlock(f, Len(FamilyPart(f))))
  BY DEF Laid
<1>2. /\ Where(f, Tgt("Errno")) = 3 + g + m + q + w
      /\ Where(f, Tgt("Allow")) = 3 + g + m + q + w + 1
      /\ Where(f, Tgt("Famarg")) = 3 + g + m
      /\ Where(f, Tgt("WxArg")) = 3 + g + m + q
      /\ \A i : Where(f, At(i)) = i
  BY Targets DEF Placed
<1>3. \A n \in 1 .. 3 + g + m + q + w : /\ AheadOf(f, n, Tgt("Errno")) /\ AheadOf(f, n, Tgt("Allow"))
                                        /\ \A b : AheadOf(f, n, pick_t(b))
  <2>1. \A n \in 1 .. 3 + g + m + q + w : AheadOf(f, n, Tgt("Errno")) /\ AheadOf(f, n, Tgt("Allow"))
    BY <1>1, <1>2 DEF AheadOf, Tgt
  <2>2. \A b : pick_t(b) \in {Tgt("Errno"), Tgt("Allow")}
    BY DEF pick_t
  <2> QED BY <2>1, <2>2
<1>4. \A n \in 1 .. 3 + g + m + q + w + 1 : AheadOf(f, n, At(n))
  <2>1. \A n : At(n).to # "None"
    BY DEF At
  <2> QED BY <1>1, <1>2, <2>1 DEF AheadOf
<1>5. \A n \in 1 .. 3 + g : AheadOf(f, n, Tgt("Famarg")) /\ AheadOf(f, n, Tgt("WxArg"))
  BY <1>1, <1>2 DEF AheadOf, Tgt
<1>6. ASSUME NEW n \in 1 .. 3
      PROVE  Sound(f, n, p[n])
  <2>1. p[n] = Prologue[n]
    BY DEF Laid
  <2>2. AheadOf(f, 2, At(2)) /\ AheadOf(f, 2, Tgt("Errno"))
    <3>1. 2 \in 1 .. 3 + g + m + q + w /\ 2 \in 1 .. 3 + g + m + q + w + 1
      BY <1>1
    <3> QED BY <1>3, <1>4, <3>1
  <2>3. CASE n = 1
    <3>1. p[n] = Ld(Arch)
      BY <2>1, <2>3 DEF Prologue
    <3> QED BY <1>1, <2>3, <3>1 DEF Sound, Ld, Ins, Regs
  <2>4. CASE n = 2
    <3>1. p[n] = Jeq("x86_64", At(2), Tgt("Errno"))
      BY <2>1, <2>4 DEF Prologue
    <3> QED BY <2>2, <2>4, <3>1 DEF Sound, Jeq, Ins
  <2>5. CASE n = 3
    <3>1. p[n] = Ld(Nr)
      BY <2>1, <2>5 DEF Prologue
    <3> QED BY <1>1, <2>5, <3>1 DEF Sound, Ld, Ins, Regs
  <2> QED BY <2>3, <2>4, <2>5
<1>7. ASSUME NEW n, NEW x, NEW jt, NEW jf, AheadOf(f, n, jt), AheadOf(f, n, jf)
      PROVE  Sound(f, n, Jeq(x, jt, jf)) /\ Sound(f, n, Ins("jset", x, jt, jf))
  BY <1>7 DEF Sound, Jeq, Ins
<1>8. ASSUME NEW k \in 1 .. g
      PROVE  Sound(f, 3 + k, p[3 + k])
  <2> DEFINE plain == IF Entries(f) = <<>> THEN default_t(f) ELSE At(3 + g)
             jf == IF k = g THEN plain ELSE At(3 + k)
             t == gates(f)[k]
  <2>1. p[3 + k] = Jeq(t[1], t[2], jf)
    <3>1. p[3 + k] = GateChain(f)[k]
      BY DEF Laid
    <3> QED BY <1>1, <3>1 DEF GateChain
  <2>2. 3 + k \in 1 .. 3 + g /\ 3 + k \in 1 .. 3 + g + m + q + w /\ 3 + k \in 1 .. 3 + g + m + q + w + 1
    BY <1>1
  <2>3. AheadOf(f, 3 + k, jf)
    <3>1. AheadOf(f, 3 + k, default_t(f))
      BY <1>3, <2>2 DEF default_t
    <3>2. AheadOf(f, 3 + k, At(3 + k))
      BY <1>4, <2>2
    <3>3. CASE k = g
      BY <3>1, <3>2, <3>3
    <3>4. CASE k # g
      BY <3>2, <3>4
    <3> QED BY <3>3, <3>4
  <2>4. AheadOf(f, 3 + k, t[2])
    <3>1. t[2] \in {Tgt("Errno"), Tgt("Allow"), Tgt("Famarg"), Tgt("WxArg")}
      <4>0. k \in 1 .. Len(gates(f))
        BY <1>1
      <4>1. t[2] = WxTarget(f, t[1]) \/ t[2] = AfTarget(f, t[1])
        BY <4>0, GateShape
      <4> HIDE DEF t
      <4> QED BY <4>1 DEF WxTarget, AfTarget, pick_t
    <3> QED BY <1>3, <1>5, <2>2, <3>1
  <2> HIDE DEF t, jf
  <2> QED BY <1>7, <2>1, <2>3, <2>4
<1>9. ASSUME NEW k \in 1 .. m
      PROVE  Sound(f, 3 + g + k, p[3 + g + k])
  <2> DEFINE jf == IF k = m THEN default_t(f) ELSE At(3 + g + k)
             e == Entries(f)[k]
  <2>1. p[3 + g + k] = Jeq(e, match_t(f), jf)
    <3>1. p[3 + g + k] = PlainEntries(f, 3 + g)[k]
      BY DEF Laid
    <3> QED BY <1>1, <3>1 DEF PlainEntries
  <2>2. 3 + g + k \in 1 .. 3 + g + m + q + w /\ 3 + g + k \in 1 .. 3 + g + m + q + w + 1
    BY <1>1
  <2>3. AheadOf(f, 3 + g + k, jf) /\ AheadOf(f, 3 + g + k, match_t(f))
    <3>1. AheadOf(f, 3 + g + k, default_t(f)) /\ AheadOf(f, 3 + g + k, match_t(f))
      BY <1>3, <2>2 DEF default_t, match_t
    <3>2. AheadOf(f, 3 + g + k, At(3 + g + k))
      BY <1>4, <2>2
    <3> QED BY <3>1, <3>2
  <2> HIDE DEF e, jf
  <2> QED BY <1>7, <2>1, <2>3
<1>10. ASSUME NEW k \in 1 .. q
       PROVE  Sound(f, 3 + g + m + k, p[3 + g + m + k])
  <2> DEFINE c == Cardinality(f.af.families)
             load == <<Ld(Arg0)>>
             e(j) == Jeq(Asc(f.af.families)[j], pick_t(f.af.deny), pick_t(fam_default_errno(f.af)))
             block == [j \in 1 .. c |-> e(j)]
  <2>1. p[3 + g + m + k] = FamilyBlock(f)[k]
    BY DEF Laid
  <2>2. 3 + g + m + k \in 1 .. 3 + g + m + q + w /\ 3 + g + m + k < Len(p)
    BY <1>1
  <2>3. FamilyBlock(f) = load \o block
    <3>1. FamilyBlock(f) # <<>>
      <4>1. q # 0
        BY <1>1
      <4> QED BY <1>1, <4>1
    <3> QED BY <3>1 DEF FamilyBlock
  <2>4. c \in Nat /\ IsList(load) /\ IsList(block) /\ Len(load) = 1 /\ Len(block) = c
    <3>1. c \in Nat
      BY Blocks
    <3>2. IsList(load) /\ Len(load) = 1
      BY ShortLists
    <3>3. block \in [1 .. c -> {e(j) : j \in 1 .. c}]
      OBVIOUS
    <3> HIDE DEF block, e, c
    <3>4. IsList(block) /\ Len(block) = c
      BY <3>1, <3>3, Tabulated
    <3> QED BY <3>1, <3>2, <3>4
  <2> HIDE DEF block, load, c
  <2>5. Follows(FamilyBlock(f), load, 1, block, c)
    BY <2>3, <2>4, Joined
  <2>6. CASE k = 1
    <3>1. p[3 + g + m + k] = Ld(Arg0)
      BY <2>1, <2>5, <2>6 DEF Follows, load
    <3> QED BY <1>1, <2>2, <3>1 DEF Sound, Ld, Ins, Regs
  <2>7. CASE k # 1
    <3> DEFINE j == k - 1
    <3>1. j \in 1 .. c /\ 1 + j = k
      <4>1. q = 1 + c
        BY <1>1, <2>5 DEF Follows
      <4> QED BY <2>4, <2>7, <4>1
    <3> HIDE DEF j
    <3>2. FamilyBlock(f)[1 + j] = block[j]
      BY <3>1, <2>5 DEF Follows
    <3>3. p[3 + g + m + k] = e(j)
      BY <2>1, <3>1, <3>2 DEF block
    <3> QED BY <1>3, <1>7, <2>2, <3>3
  <2> QED BY <2>6, <2>7
<1>11. ASSUME NEW k \in 1 .. w
       PROVE  Sound(f, 3 + g + m + q + k, p[3 + g + m + q + k])
  <2> DEFINE s == 3 + g + m + q
             i2 == Ins("and", {"W", "X"}, Tgt("None"), Tgt("None"))
             i3 == Ins("jset", "W", At(s + 3), Tgt("Allow"))
             i4 == Ins("jset", "X", Tgt("Errno"), Tgt("Allow"))
  <2>1. p[s + k] = WxBlock(f, s)[k] /\ Len(FamilyPart(f)) = s
    BY DEF Laid
  <2>2. WxBlock(f, s) = <<Ld(Arg2), i2, i3, i4>>
    <3>1. WxBlock(f, s) # <<>>
      <4>1. w # 0 /\ w = Len(WxBlock(f, s))
        BY <1>1, <2>1
      <4> QED BY <4>1
    <3> QED BY <3>1 DEF WxBlock
  <2>3. w = 4
    <3>1. w = Len(WxBlock(f, s))
      BY <1>1, <2>1
    <3> HIDE DEF s, i2, i3, i4
    <3> QED BY <2>2, <3>1
  <2> HIDE DEF i2, i3, i4
  <2>4. s \in Nat /\ s + k \in 1 .. s + w /\ s + k < Len(p)
    BY <1>1
  <2>5. CASE k = 1
    <3>1. p[s + k] = Ld(Arg2)
      BY <2>1, <2>2, <2>5
    <3> QED BY <1>1, <2>4, <3>1 DEF Sound, Ld, Ins, Regs
  <2>6. CASE k = 2
    <3>1. p[s + k] = i2
      BY <2>1, <2>2, <2>6
    <3> QED BY <1>1, <2>4, <3>1 DEF Sound, i2, Ins
  <2>7. CASE k = 3
    <3>1. p[s + k] = i3
      BY <2>1, <2>2, <2>7
    <3>2. AheadOf(f, s + k, At(s + 3)) /\ AheadOf(f, s + k, Tgt("Allow"))
      BY <1>1, <1>3, <1>4, <2>4, <2>3, <2>7
    <3> QED BY <1>7, <3>1, <3>2 DEF i3
  <2>8. CASE k = 4
    <3>1. p[s + k] = i4
      BY <2>1, <2>2, <2>8
    <3>2. AheadOf(f, s + k, Tgt("Errno")) /\ AheadOf(f, s + k, Tgt("Allow"))
      BY <1>1, <1>3, <2>4, <2>3, <2>8
    <3> QED BY <1>7, <3>1, <3>2 DEF i4
  <2> QED BY <2>3, <2>5, <2>6, <2>7, <2>8
<1>12. ASSUME NEW k \in 1 .. 2
       PROVE  Sound(f, 3 + g + m + q + w + k, p[3 + g + m + q + w + k])
  <2>1. p[3 + g + m + q + w + k] = Returns[k]
    BY DEF Laid
  <2>2. Returns[k].op = "ret"
    BY DEF Returns, Ins
  <2> QED BY <2>1, <2>2 DEF Sound
<1> SUFFICES ASSUME NEW n \in 1 .. N
             PROVE  Sound(f, n, p[n])
  BY <1>1
<1>13. CASE n <= 3
  BY <1>6, <1>13
<1>14. CASE n > 3 /\ n <= 3 + g
  <2>1. n - 3 \in 1 .. g /\ 3 + (n - 3) = n
    BY <1>1, <1>14
  <2> QED BY <1>8, <2>1
<1>15. CASE n > 3 + g /\ n <= 3 + g + m
  <2>1. n - (3 + g) \in 1 .. m /\ 3 + g + (n - (3 + g)) = n
    BY <1>1, <1>15
  <2> QED BY <1>9, <2>1
<1>16. CASE n > 3 + g + m /\ n <= 3 + g + m + q
  <2>1. n - (3 + g + m) \in 1 .. q /\ 3 + g + m + (n - (3 + g + m)) = n
    BY <1>1, <1>16
  <2> QED BY <1>10, <2>1
<1>17. CASE n > 3 + g + m + q /\ n <= 3 + g + m + q + w
  <2>1. n - (3 + g + m + q) \in 1 .. w /\ 3 + g + m + q + (n - (3 + g + m + q)) = n
    BY <1>1, <1>17
  <2> QED BY <1>11, <2>1
<1>18. CASE n > 3 + g + m + q + w
  <2>1. n - (3 + g + m + q + w) \in 1 .. 2 /\ 3 + g + m + q + w + (n - (3 + g + m + q + w)) = n
    BY <1>1, <1>18
  <2> QED BY <1>12, <2>1
<1> QED BY <1>1, <1>13, <1>14, <1>15, <1>16, <1>17, <1>18

-----------------------------------------------------------------------------
(* What each block of a program decides.                                   *)

\* h says what each instruction of f's program leads to.
Traced(f, h, call) ==
  \A n \in 1 .. Len(Symbolic(f)), a \in Regs :
    h[n - 1][a] = Follow(f, h, call, n, a, Symbolic(f)[n])

\* The two returns by the side they are on.
Verdict(errnoSide) == IF errnoSide THEN "errno" ELSE "allow"

LEMMA RunTraced ==
  ASSUME NEW f, Numbered(f), NEW call, Len(Symbolic(f)) <= JumpMod
  PROVE  \E h : Traced(f, h, call) /\ RunFilter(build(f), call) = h[0][Nr]
<1>1. PICK p, g, m, q, w :
        /\ p = Symbolic(f) /\ g = Len(gates(f)) /\ m = Len(Entries(f))
        /\ q = Len(FamilyBlock(f)) /\ w = Len(WxBlock(f, Len(FamilyPart(f))))
  OBVIOUS
<1>2. Laid(f, p, g, m, q, w)
  BY <1>1, Layout
<1>3. Len(p) \in Nat \ {0}
  BY <1>2 DEF Laid
<1>4. \A n \in 1 .. Len(p) : Sound(f, n, p[n])
  BY <1>2, SoundParts
<1> QED BY <1>1, <1>3, <1>4, SoundDecides DEF Traced

\* x is what n tests in a row lead to: a hit goes to its target, the last
\* test to the default.
IsChain(n, x, H, t, d) ==
  \A k \in 1 .. n : x[k] = IF k \in H THEN t[k] ELSE IF k = n THEN d ELSE x[k + 1]

\* A chain of tests ends at one of its hits, or at the default without any.
LEMMA Chain ==
  ASSUME NEW n \in Nat \ {0}, NEW x, NEW H, NEW t, NEW d, IsChain(n, x, H, t, d)
  PROVE  \/ \E k \in 1 .. n : k \in H /\ x[1] = t[k]
         \/ (\A k \in 1 .. n : k \notin H) /\ x[1] = d
<1> DEFINE Ended(i) == \/ \E k \in i .. n : k \in H /\ x[i] = t[k]
                       \/ (\A k \in i .. n : k \notin H) /\ x[i] = d
           D == {j \in 0 .. n - 1 : ~Ended(n - j)}
<1>1. D = {}
  <2> SUFFICES ASSUME D # {}
               PROVE  FALSE
    OBVIOUS
  <2>1. D \in SUBSET Nat
    OBVIOUS
  <2> HIDE DEF D
  <2>2. PICK j \in D : \A i \in D : j <= i
    BY <2>1, LeastNatural
  <2>3. j \in 0 .. n - 1 /\ ~Ended(n - j)
    BY <2>2 DEF D
  <2> DEFINE i == n - j
  <2>4. i \in 1 .. n
    BY <2>3
  <2>5. CASE i \in H
    BY <2>3, <2>4, <2>5 DEF IsChain
  <2>6. CASE i \notin H /\ i = n
    <3>1. x[i] = d /\ i .. n = {i}
      BY <2>4, <2>6 DEF IsChain
    <3> QED BY <2>3, <2>6, <3>1
  <2>7. CASE i \notin H /\ i # n
    <3>1. x[i] = x[i + 1] /\ i + 1 \in 1 .. n
      BY <2>4, <2>7 DEF IsChain
    <3>2. j - 1 \in 0 .. n - 1 /\ n - (j - 1) = i + 1 /\ j - 1 \notin D
      BY <2>1, <2>2, <2>3, <2>7
    <3> HIDE DEF i
    <3>3. Ended(i + 1)
      <4> HIDE DEF Ended
      <4> QED BY <3>2 DEF D
    <3>4. \A k \in i + 1 .. n : k \in i .. n
      BY <2>4
    <3>5. \A k \in i .. n : k = i \/ k \in i + 1 .. n
      BY <2>4
    <3>6. Ended(i)
      BY <2>7, <3>1, <3>3, <3>4, <3>5
    <3> QED BY <2>3, <3>6 DEF i
  <2> QED BY <2>5, <2>6, <2>7
<1>2. n - 1 \in 0 .. n - 1 /\ n - (n - 1) = 1
  OBVIOUS
<1>3. Ended(1)
  <2> HIDE DEF Ended
  <2> QED BY <1>1, <1>2
<1> QED BY <1>3

\* What each kind of instruction leads to.
LEMMA TracedJeq ==
  ASSUME NEW f, NEW h, NEW call, Traced(f, h, call), NEW n \in 1 .. Len(Symbolic(f)), NEW a \in Regs,
         NEW x, NEW jt, NEW jf, Symbolic(f)[n] = Jeq(x, jt, jf)
  PROVE  h[n - 1][a] = IF Loaded(call, a) = x THEN h[Where(f, jt)][a] ELSE h[Where(f, jf)][a]
<1>1. h[n - 1][a] = Follow(f, h, call, n, a, Symbolic(f)[n])
  BY DEF Traced
<1>2. h[n - 1][a] = h[Where(f, IF Loaded(call, a) = x THEN jt ELSE jf)][a]
  BY <1>1 DEF Follow, Jeq, Ins
<1> QED BY <1>2

LEMMA TracedJset ==
  ASSUME NEW f, NEW h, NEW call, Traced(f, h, call), NEW n \in 1 .. Len(Symbolic(f)), NEW a \in Regs,
         NEW x, NEW jt, NEW jf, Symbolic(f)[n] = Ins("jset", x, jt, jf)
  PROVE  h[n - 1][a] = IF x \in Loaded(call, a) THEN h[Where(f, jt)][a] ELSE h[Where(f, jf)][a]
<1>1. h[n - 1][a] = Follow(f, h, call, n, a, Symbolic(f)[n])
  BY DEF Traced
<1>2. h[n - 1][a] = h[Where(f, IF x \in Loaded(call, a) THEN jt ELSE jf)][a]
  BY <1>1 DEF Follow, Ins
<1> QED BY <1>2

LEMMA TracedLd ==
  ASSUME NEW f, NEW h, NEW call, Traced(f, h, call), NEW n \in 1 .. Len(Symbolic(f)), NEW a \in Regs,
         NEW x, Symbolic(f)[n] = Ld(x)
  PROVE  h[n - 1][a] = h[n][x]
BY DEF Traced, Follow, Ld, Ins

LEMMA TracedOther ==
  ASSUME NEW f, NEW h, NEW call, Traced(f, h, call), NEW n \in 1 .. Len(Symbolic(f)), NEW a \in Regs,
         NEW op, NEW x, Symbolic(f)[n] = Ins(op, x, Tgt("None"), Tgt("None"))
  PROVE  /\ op = "and" => h[n - 1][a] = h[n]["masked"]
         /\ op = "ret" => h[n - 1][a] = x
BY DEF Traced, Follow, Ins

\* The returns, and the check of the architecture.
LEMMA TracedEnds ==
  ASSUME NEW f, NEW p, NEW g, NEW m, NEW q, NEW w, Laid(f, p, g, m, q, w),
         NEW h, NEW call, Traced(f, h, call)
  PROVE  /\ \A a \in Regs : /\ h[Where(f, Tgt("Errno"))][a] = "errno"
                            /\ h[Where(f, Tgt("Allow"))][a] = "allow"
                            /\ \A b : h[Where(f, pick_t(b))][a] = Verdict(b)
         /\ h[0][Nr] = IF call.arch = "x86_64" THEN h[3][Nr] ELSE "errno"
<1> DEFINE e == 3 + g + m + q + w
<1>1. /\ g \in Nat /\ m \in Nat /\ q \in Nat /\ w \in Nat /\ Len(p) = e + 2 /\ p = Symbolic(f)
      /\ \A k \in 1 .. 3 : p[k] = Prologue[k]
      /\ \A k \in 1 .. 2 : p[e + k] = Returns[k]
  BY DEF Laid
<1>2. Placed(f, g, m, q, w)
  BY Targets
<1>3. /\ p[e + 1] = Ins("ret", "errno", Tgt("None"), Tgt("None"))
      /\ p[e + 2] = Ins("ret", "allow", Tgt("None"), Tgt("None"))
  BY <1>1 DEF Returns
<1>4. p[1] = Ld(Arch) /\ p[2] = Jeq("x86_64", At(2), Tgt("Errno")) /\ p[3] = Ld(Nr)
  BY <1>1 DEF Prologue
<1> HIDE DEF e
<1>0. e \in Nat /\ e >= 3
  BY <1>1 DEF e
<1>5. ASSUME NEW a \in Regs
      PROVE  /\ h[Where(f, Tgt("Errno"))][a] = "errno"
             /\ h[Where(f, Tgt("Allow"))][a] = "allow"
             /\ \A b : h[Where(f, pick_t(b))][a] = Verdict(b)
  <2>1. e + 1 \in 1 .. Len(p) /\ e + 2 \in 1 .. Len(p) /\ (e + 1) - 1 = e /\ (e + 2) - 1 = e + 1
    BY <1>1, <1>0
  <2>2. h[(e + 1) - 1][a] = "errno" /\ h[(e + 2) - 1][a] = "allow"
    BY <1>1, <1>3, <2>1, TracedOther
  <2>3. h[Where(f, Tgt("Errno"))][a] = "errno" /\ h[Where(f, Tgt("Allow"))][a] = "allow"
    BY <1>2, <2>1, <2>2 DEF Placed, e
  <2>4. ASSUME NEW b PROVE h[Where(f, pick_t(b))][a] = Verdict(b)
    <3>1. CASE b
      BY <2>3, <3>1 DEF pick_t, Verdict
    <3>2. CASE ~b
      BY <2>3, <3>2 DEF pick_t, Verdict
    <3> QED BY <3>1, <3>2
  <2> QED BY <2>3, <2>4
<1>6. h[0][Nr] = IF call.arch = "x86_64" THEN h[3][Nr] ELSE "errno"
  <2>1. Nr \in Regs /\ Arch \in Regs
    BY DEF Regs
  <2>2. 1 \in 1 .. Len(p) /\ 2 \in 1 .. Len(p) /\ 3 \in 1 .. Len(p)
        /\ 1 - 1 = 0 /\ 2 - 1 = 1 /\ 3 - 1 = 2
    BY <1>1, <1>0
  <2>3. h[1 - 1][Nr] = h[1][Arch]
    BY <1>1, <1>4, <2>1, <2>2, TracedLd
  <2>4. h[2 - 1][Arch] = IF Loaded(call, Arch) = "x86_64" THEN h[Where(f, At(2))][Arch]
                         ELSE h[Where(f, Tgt("Errno"))][Arch]
    BY <1>1, <1>4, <2>1, <2>2, TracedJeq
  <2>5. h[3 - 1][Arch] = h[3][Nr]
    BY <1>1, <1>4, <2>1, <2>2, TracedLd
  <2>6. Where(f, At(2)) = 2
    BY <1>2 DEF Placed
  <2>7. Loaded(call, Arch) = call.arch
    BY DEF Loaded, Arch
  <2>8. h[Where(f, Tgt("Errno"))][Arch] = "errno"
    BY <1>5, <2>1
  <2> QED BY <2>2, <2>3, <2>4, <2>5, <2>6, <2>7, <2>8
<1> QED BY <1>5, <1>6

\* The plain entries: a call that is listed is on the side of a match.
LEMMA PlainDecides ==
  ASSUME NEW f, Numbered(f), NEW p, NEW g, NEW m, NEW q, NEW w, Laid(f, p, g, m, q, w),
         NEW h, NEW call, Traced(f, h, call), m # 0, f.deny \in BOOLEAN
  PROVE  h[3 + g][Nr] = Verdict((call.nr \in Listed(f)) <=> f.deny)
<1> DEFINE nr == call.nr
           es == Entries(f)
           x == [k \in 1 .. m |-> h[(3 + g + k) - 1][Nr]]
           t == [k \in 1 .. m |-> Verdict(f.deny)]
           H == {k \in 1 .. m : nr = es[k]}
           d == Verdict(~f.deny)
<1>1. /\ g \in Nat /\ m \in Nat \ {0} /\ q \in Nat /\ w \in Nat /\ Len(p) = 3 + g + m + q + w + 2
      /\ p = Symbolic(f) /\ m = Len(es)
      /\ \A k \in 1 .. m : p[3 + g + k] = PlainEntries(f, 3 + g)[k]
  BY DEF Laid
<1>2. Placed(f, g, m, q, w)
  BY Targets
<1>3. Nr \in Regs /\ Loaded(call, Nr) = nr
  BY DEF Regs, Loaded, Nr
<1>4. \A b : h[Where(f, pick_t(b))][Nr] = Verdict(b)
  BY <1>3, TracedEnds
<1>5. ASSUME NEW k \in 1 .. m
      PROVE  x[k] = IF k \in H THEN t[k] ELSE IF k = m THEN d ELSE x[k + 1]
  <2> DEFINE n == 3 + g + k
             jf == IF k = m THEN default_t(f) ELSE At(n)
  <2>1. p[n] = Jeq(es[k], match_t(f), jf)
    BY <1>1 DEF PlainEntries
  <2>2. n \in 1 .. Len(p)
    BY <1>1
  <2> HIDE DEF n, es
  <2>3. h[n - 1][Nr] = IF Loaded(call, Nr) = es[k] THEN h[Where(f, match_t(f))][Nr] ELSE h[Where(f, jf)][Nr]
    <3> HIDE DEF jf
    <3>1. n \in 1 .. Len(Symbolic(f)) /\ Symbolic(f)[n] = Jeq(es[k], match_t(f), jf)
      BY <1>1, <2>1, <2>2
    <3>2. Nr \in Regs
      BY <1>3
    <3> HIDE DEF x, t, H, d, nr
    <3> QED BY <3>1, <3>2, TracedJeq
  <2>4. h[Where(f, match_t(f))][Nr] = Verdict(f.deny) /\ h[Where(f, default_t(f))][Nr] = d
    BY <1>4 DEF match_t, default_t
  <2>5. Where(f, At(n)) = n
    BY <1>2 DEF Placed
  <2>6. x[k] = h[n - 1][Nr]
    BY DEF n
  <2>7. k # m => x[k + 1] = h[n][Nr]
    <3>1. k # m => k + 1 \in 1 .. m /\ (3 + g + (k + 1)) - 1 = n
      BY <1>1 DEF n
    <3> QED BY <3>1
  <2> HIDE DEF x
  <2>8. CASE nr = es[k]
    BY <1>3, <2>3, <2>4, <2>6, <2>8
  <2>9. CASE nr # es[k] /\ k = m
    BY <1>3, <2>3, <2>4, <2>6, <2>9
  <2>10. CASE nr # es[k] /\ k # m
    BY <1>3, <2>3, <2>5, <2>6, <2>7, <2>10
  <2> QED BY <2>8, <2>9, <2>10
<1>6. \/ \E k \in 1 .. m : k \in H /\ x[1] = t[k]
      \/ (\A k \in 1 .. m : k \notin H) /\ x[1] = d
  <2> HIDE DEF x, t, H, d
  <2>1. IsChain(m, x, H, t, d)
    BY <1>5 DEF IsChain
  <2>2. m \in Nat \ {0}
    BY <1>1
  <2> QED BY <2>1, <2>2, Chain
<1>7. x[1] = h[3 + g][Nr]
  <2>1. 1 \in 1 .. m /\ (3 + g + 1) - 1 = 3 + g
    BY <1>1
  <2> QED BY <2>1
<1>8. Listed(f) = {es[k] : k \in 1 .. m}
  BY <1>1, EntriesListed
<1> HIDE DEF x, es
<1>9. CASE \E k \in 1 .. m : k \in H /\ x[1] = t[k]
  <2>1. nr \in Listed(f) /\ x[1] = Verdict(f.deny)
    BY <1>8, <1>9
  <2> QED BY <1>7, <2>1 DEF Verdict
<1>10. CASE (\A k \in 1 .. m : k \notin H) /\ x[1] = d
  <2>1. nr \notin Listed(f) /\ x[1] = Verdict(~f.deny)
    BY <1>8, <1>10
  <2> QED BY <1>7, <2>1 DEF Verdict
<1> QED BY <1>6, <1>9, <1>10

\* The block on protection bits: both W and X are denied.
LEMMA WxDecides ==
  ASSUME NEW f, NEW p, NEW g, NEW m, NEW q, NEW w, Laid(f, p, g, m, q, w),
         NEW h, NEW call, Traced(f, h, call),
         \E k \in 1 .. Len(gates(f)) : gates(f)[k][2] = Tgt("WxArg")
  PROVE  h[Where(f, Tgt("WxArg"))][Nr] = Verdict({"W", "X"} \subseteq call.arg2)
<1> DEFINE s == 3 + g + m + q
           i2 == Ins("and", {"W", "X"}, Tgt("None"), Tgt("None"))
           i3 == Ins("jset", "W", At(s + 3), Tgt("Allow"))
           i4 == Ins("jset", "X", Tgt("Errno"), Tgt("Allow"))
<1>1. /\ g \in Nat /\ m \in Nat /\ q \in Nat /\ w \in Nat /\ Len(p) = s + w + 2 /\ p = Symbolic(f)
      /\ w = Len(WxBlock(f, s))
      /\ \A k \in 1 .. w : p[s + k] = WxBlock(f, s)[k]
  BY DEF Laid
<1>2. Placed(f, g, m, q, w)
  BY Targets
<1>3. WxBlock(f, s) = <<Ld(Arg2), i2, i3, i4>>
  BY DEF WxBlock
<1> HIDE DEF s, i2, i3, i4
<1>4. PICK n1, n2, n3, n4 : n1 = s + 1 /\ n2 = s + 2 /\ n3 = s + 3 /\ n4 = s + 4
  OBVIOUS
<1>5. w = 4 /\ p[n1] = Ld(Arg2) /\ p[n2] = i2 /\ p[n3] = i3 /\ p[n4] = i4
  <2>1. PICK b : b = WxBlock(f, s)
    OBVIOUS
  <2>2. b[1] = Ld(Arg2) /\ b[2] = i2 /\ b[3] = i3 /\ b[4] = i4 /\ Len(b) = 4
    BY <1>3, <2>1
  <2>3. w = 4 /\ \A k \in 1 .. w : p[s + k] = b[k]
    BY <1>1, <2>1, <2>2
  <2>4. p[s + 1] = b[1] /\ p[s + 2] = b[2] /\ p[s + 3] = b[3] /\ p[s + 4] = b[4]
    BY <2>3
  <2> QED BY <1>4, <2>2, <2>3, <2>4
<1>6. /\ n1 \in 1 .. Len(p) /\ n2 \in 1 .. Len(p) /\ n3 \in 1 .. Len(p) /\ n4 \in 1 .. Len(p)
      /\ n1 - 1 = s /\ n2 - 1 = n1 /\ n3 - 1 = n2 /\ n4 - 1 = n3
  <2>1. s \in Nat
    BY <1>1 DEF s
  <2>2. w = 4 /\ Len(p) = s + w + 2
    BY <1>1, <1>5
  <2> QED BY <1>4, <2>1, <2>2
<1>7. Nr \in Regs /\ Arg2 \in Regs /\ "masked" \in Regs
  BY DEF Regs
<1>8. h[n1 - 1][Nr] = h[n1][Arg2]
  <2>1. p = Symbolic(f) /\ p[n1] = Ld(Arg2) /\ n1 \in 1 .. Len(p)
    BY <1>1, <1>5, <1>6
  <2> QED BY <1>7, <2>1, TracedLd
<1>9. h[n2 - 1][Arg2] = h[n2]["masked"]
  BY <1>1, <1>5, <1>6, <1>7, TracedOther DEF i2
<1>10. h[n3 - 1]["masked"] = IF "W" \in Loaded(call, "masked") THEN h[Where(f, At(s + 3))]["masked"]
                             ELSE h[Where(f, Tgt("Allow"))]["masked"]
  BY <1>1, <1>5, <1>6, <1>7, TracedJset DEF i3
<1>11. h[n4 - 1]["masked"] = IF "X" \in Loaded(call, "masked") THEN h[Where(f, Tgt("Errno"))]["masked"]
                             ELSE h[Where(f, Tgt("Allow"))]["masked"]
  BY <1>1, <1>5, <1>6, <1>7, TracedJset DEF i4
<1>12. Where(f, At(s + 3)) = n3 /\ Where(f, Tgt("WxArg")) = s
  BY <1>2, <1>4 DEF Placed, s
<1>13. Loaded(call, "masked") = call.arg2 \cap {"W", "X"}
  BY DEF Loaded
<1>14. h[Where(f, Tgt("Errno"))]["masked"] = "errno" /\ h[Where(f, Tgt("Allow"))]["masked"] = "allow"
  BY <1>7, TracedEnds
<1>15. h[s][Nr] = IF "W" \in call.arg2 /\ "X" \in call.arg2 THEN "errno" ELSE "allow"
  BY <1>6, <1>8, <1>9, <1>10, <1>11, <1>12, <1>13, <1>14
<1> QED BY <1>12, <1>15 DEF Verdict

\* The block on families, with one family.
LEMMA FamilyDecides ==
  ASSUME NEW f, Numbered(f), NEW p, NEW g, NEW m, NEW q, NEW w, Laid(f, p, g, m, q, w),
         NEW h, NEW call, Traced(f, h, call), NEW fam, f.af.families = {fam},
         \E k \in 1 .. Len(gates(f)) : gates(f)[k][2] = Tgt("Famarg")
  PROVE  h[Where(f, Tgt("Famarg"))][Nr]
           = IF call.arg0 = fam THEN Verdict(f.af.deny) ELSE Verdict(fam_default_errno(f.af))
<1> DEFINE s == 3 + g + m
           e == Jeq(fam, pick_t(f.af.deny), pick_t(fam_default_errno(f.af)))
<1>1. /\ g \in Nat /\ m \in Nat /\ q \in Nat /\ w \in Nat /\ Len(p) = s + q + w + 2 /\ p = Symbolic(f)
      /\ q = Len(FamilyBlock(f))
      /\ \A k \in 1 .. q : p[s + k] = FamilyBlock(f)[k]
  BY DEF Laid
<1>2. Placed(f, g, m, q, w)
  BY Targets
<1>3. Cardinality(f.af.families) = 1 /\ Asc(f.af.families)[1] = fam
  <2> DEFINE S == f.af.families
  <2>1. Cardinality(S) = 1
    BY FS_Singleton
  <2>2. S \in SUBSET (0 .. 329)
    BY DEF Numbered
  <2>3. IsFiniteSet(S) /\ S \in SUBSET Nat
    <3> HIDE DEF S
    <3> QED BY <2>2, FewAreFinite
  <2>4. Asc(S) \in [1 .. Cardinality(S) -> S]
    BY <2>3, AscProperties
  <2>5. 1 \in 1 .. Cardinality(S)
    BY <2>1
  <2>6. Asc(S)[1] \in S
    BY <2>4, <2>5
  <2> QED BY <2>1, <2>6
<1>4. FamilyBlock(f) = <<Ld(Arg0)>> \o [k \in 1 .. 1 |-> Jeq(Asc(f.af.families)[k], pick_t(f.af.deny),
                                                            pick_t(fam_default_errno(f.af)))]
  BY <1>3 DEF FamilyBlock
<1>5. [k \in 1 .. 1 |-> Jeq(Asc(f.af.families)[k], pick_t(f.af.deny),
                            pick_t(fam_default_errno(f.af)))] = <<e>>
  BY <1>3
<1> HIDE DEF s, e
<1>6. PICK n1, n2 : n1 = s + 1 /\ n2 = s + 2
  OBVIOUS
<1>7. q = 2 /\ p[n1] = Ld(Arg0) /\ p[n2] = e
  <2> DEFINE l == Ld(Arg0)
  <2>1. FamilyBlock(f) = <<l>> \o <<e>>
    BY <1>4, <1>5
  <2> HIDE DEF l
  <2>2. IsList(<<l>>) /\ IsList(<<e>>) /\ Len(<<l>>) = 1 /\ Len(<<e>>) = 1
    BY ShortLists
  <2>3. PICK a, b : a = <<l>> /\ b = <<e>>
    OBVIOUS
  <2>4. Follows(a \o b, a, 1, b, 1)
    BY <2>2, <2>3, Joined
  <2>5. q = 2 /\ FamilyBlock(f)[1] = l /\ FamilyBlock(f)[1 + 1] = e
    BY <1>1, <2>1, <2>3, <2>4 DEF Follows
  <2> QED BY <1>1, <1>6, <2>5 DEF l
<1>8. n1 \in 1 .. Len(p) /\ n2 \in 1 .. Len(p) /\ n1 - 1 = s /\ n2 - 1 = n1
  <2>1. s \in Nat
    BY <1>1 DEF s
  <2>2. w \in Nat /\ q = 2 /\ Len(p) = s + q + w + 2
    BY <1>1, <1>7
  <2> QED BY <1>6, <2>1, <2>2
<1>9. Nr \in Regs /\ Arg0 \in Regs
  BY DEF Regs
<1>10. h[n1 - 1][Nr] = h[n1][Arg0]
  <2>1. p = Symbolic(f) /\ p[n1] = Ld(Arg0) /\ n1 \in 1 .. Len(p)
    BY <1>1, <1>7, <1>8
  <2> QED BY <1>9, <2>1, TracedLd
<1>11. h[n2 - 1][Arg0] = IF Loaded(call, Arg0) = fam THEN h[Where(f, pick_t(f.af.deny))][Arg0]
                         ELSE h[Where(f, pick_t(fam_default_errno(f.af)))][Arg0]
  <2>1. PICK jt, jf : jt = pick_t(f.af.deny) /\ jf = pick_t(fam_default_errno(f.af))
    OBVIOUS
  <2>2. p[n2] = Jeq(fam, jt, jf)
    BY <1>7, <2>1 DEF e
  <2>3. h[n2 - 1][Arg0] = IF Loaded(call, Arg0) = fam THEN h[Where(f, jt)][Arg0]
                          ELSE h[Where(f, jf)][Arg0]
    <3>1. Symbolic(f)[n2] = Jeq(fam, jt, jf) /\ n2 \in 1 .. Len(Symbolic(f))
      BY <1>1, <1>8, <2>2
    <3> QED BY <1>9, <3>1, TracedJeq
  <2> QED BY <2>1, <2>3
<1>12. Loaded(call, Arg0) = call.arg0
  BY DEF Loaded, Arg0
<1>13. Where(f, Tgt("Famarg")) = s
  BY <1>2 DEF Placed, s
<1>14. \A b : h[Where(f, pick_t(b))][Arg0] = Verdict(b)
  BY <1>9, TracedEnds
<1> QED BY <1>8, <1>10, <1>11, <1>12, <1>13, <1>14

\* The gates: a call that has one goes to its target, the others go on to the
\* plain entries.
LEMMA GatesDecide ==
  ASSUME NEW f, Numbered(f), NEW p, NEW g, NEW m, NEW q, NEW w, Laid(f, p, g, m, q, w),
         NEW h, NEW call, Traced(f, h, call), g # 0
  PROVE  \/ \E k \in 1 .. g : /\ gates(f)[k][1] = call.nr
                              /\ h[3][Nr] = h[Where(f, gates(f)[k][2])][Nr]
         \/ /\ \A k \in 1 .. g : gates(f)[k][1] # call.nr
            /\ h[3][Nr] = IF m = 0 THEN Verdict(~f.deny) ELSE h[3 + g][Nr]
<1> DEFINE nr == call.nr
           gs == gates(f)
           x == [k \in 1 .. g |-> h[(3 + k) - 1][Nr]]
           t == [k \in 1 .. g |-> h[Where(f, gs[k][2])][Nr]]
           H == {k \in 1 .. g : nr = gs[k][1]}
           d == IF m = 0 THEN Verdict(~f.deny) ELSE h[3 + g][Nr]
<1>1. /\ g \in Nat \ {0} /\ m \in Nat /\ q \in Nat /\ w \in Nat /\ Len(p) = 3 + g + m + q + w + 2
      /\ p = Symbolic(f) /\ g = Len(gs) /\ m = Len(Entries(f))
      /\ \A k \in 1 .. g : p[3 + k] = GateChain(f)[k]
  BY DEF Laid
<1>2. Placed(f, g, m, q, w)
  BY Targets
<1>3. Nr \in Regs /\ Loaded(call, Nr) = nr
  BY DEF Regs, Loaded, Nr
<1>4. \A b : h[Where(f, pick_t(b))][Nr] = Verdict(b)
  BY <1>3, TracedEnds
<1>5. Entries(f) = <<>> <=> m = 0
  BY <1>1, EntriesListed
<1>6. ASSUME NEW k \in 1 .. g
      PROVE  x[k] = IF k \in H THEN t[k] ELSE IF k = g THEN d ELSE x[k + 1]
  <2> DEFINE n == 3 + k
             plain == IF Entries(f) = <<>> THEN default_t(f) ELSE At(3 + g)
             jf == IF k = g THEN plain ELSE At(n)
  <2>1. p[n] = Jeq(gs[k][1], gs[k][2], jf)
    BY <1>1 DEF GateChain
  <2>2. n \in 1 .. Len(p)
    BY <1>1
  <2> HIDE DEF n, gs
  <2>3. h[n - 1][Nr] = IF Loaded(call, Nr) = gs[k][1] THEN h[Where(f, gs[k][2])][Nr] ELSE h[Where(f, jf)][Nr]
    <3> HIDE DEF jf
    <3>1. PICK y, jt : y = gs[k][1] /\ jt = gs[k][2]
      OBVIOUS
    <3>2. p[n] = Jeq(y, jt, jf) /\ p = Symbolic(f)
      BY <1>1, <2>1, <3>1
    <3>3. h[n - 1][Nr] = IF Loaded(call, Nr) = y THEN h[Where(f, jt)][Nr] ELSE h[Where(f, jf)][Nr]
      BY <1>3, <2>2, <3>2, TracedJeq
    <3> QED BY <3>1, <3>3
  <2>4. h[Where(f, plain)][Nr] = d
    <3>1. h[Where(f, default_t(f))][Nr] = Verdict(~f.deny)
      BY <1>4 DEF default_t
    <3>2. Where(f, At(3 + g)) = 3 + g
      BY <1>2 DEF Placed
    <3>3. CASE m = 0
      BY <1>5, <3>1, <3>3
    <3>4. CASE m # 0
      BY <1>5, <3>2, <3>4
    <3> QED BY <3>3, <3>4
  <2>5. Where(f, At(n)) = n
    BY <1>2 DEF Placed
  <2>6. x[k] = h[n - 1][Nr] /\ t[k] = h[Where(f, gs[k][2])][Nr]
    BY DEF n
  <2>7. k # g => x[k + 1] = h[n][Nr]
    <3>1. k # g => k + 1 \in 1 .. g /\ (3 + (k + 1)) - 1 = n
      BY <1>1 DEF n
    <3> QED BY <3>1
  <2> HIDE DEF x, t, d, plain
  <2>8. CASE nr = gs[k][1]
    BY <1>3, <2>3, <2>6, <2>8
  <2>9. CASE nr # gs[k][1] /\ k = g
    BY <1>3, <2>3, <2>4, <2>6, <2>9
  <2>10. CASE nr # gs[k][1] /\ k # g
    BY <1>3, <2>3, <2>5, <2>6, <2>7, <2>10
  <2> QED BY <2>8, <2>9, <2>10
<1>7. \/ \E k \in 1 .. g : k \in H /\ x[1] = t[k]
      \/ (\A k \in 1 .. g : k \notin H) /\ x[1] = d
  <2> HIDE DEF x, t, H, d
  <2>1. IsChain(g, x, H, t, d)
    BY <1>6 DEF IsChain
  <2>2. g \in Nat \ {0}
    BY <1>1
  <2> QED BY <2>1, <2>2, Chain
<1>8. x[1] = h[3][Nr]
  <2>1. 1 \in 1 .. g /\ (3 + 1) - 1 = 3
    BY <1>1
  <2> QED BY <2>1
<1> HIDE DEF x, d, gs
<1>9. CASE \E k \in 1 .. g : k \in H /\ x[1] = t[k]
  BY <1>8, <1>9 DEF gs
<1>10. CASE (\A k \in 1 .. g : k \notin H) /\ x[1] = d
  BY <1>8, <1>10 DEF gs, d
<1> QED BY <1>7, <1>9, <1>10

\* A call that no gate is about.
LEMMA UngatedDecides ==
  ASSUME NEW f, Numbered(f), NEW p, NEW g, NEW m, NEW q, NEW w, Laid(f, p, g, m, q, w),
         NEW h, NEW call, Traced(f, h, call), f.deny \in BOOLEAN, g # 0 \/ m # 0,
         f.wx => call.nr \notin {9, 10, 329}, f.af.present => call.nr \notin {41, 53}
  PROVE  h[3][Nr] = Verdict((call.nr \in Listed(f)) <=> f.deny)
<1>1. g \in Nat /\ m \in Nat /\ g = Len(gates(f)) /\ m = Len(Entries(f))
  BY DEF Laid
<1>2. \A k \in 1 .. g : gates(f)[k][1] # call.nr
  BY <1>1, GateShape
<1>3. m = 0 => Listed(f) = {}
  <2>1. PICK es : es = Entries(f)
    OBVIOUS
  <2>2. Listed(f) = {es[k] : k \in 1 .. m}
    BY <1>1, <2>1, EntriesListed
  <2>3. m = 0 => 1 .. m = {}
    OBVIOUS
  <2> QED BY <2>2, <2>3
<1>4. m # 0 => h[3 + g][Nr] = Verdict((call.nr \in Listed(f)) <=> f.deny)
  BY PlainDecides
<1>5. CASE g = 0
  BY <1>1, <1>4, <1>5
<1>6. CASE g # 0
  <2>1. h[3][Nr] = IF m = 0 THEN Verdict(~f.deny) ELSE h[3 + g][Nr]
    BY <1>2, <1>6, GatesDecide
  <2>2. CASE m = 0
    BY <1>3, <2>1, <2>2 DEF Verdict
  <2>3. CASE m # 0
    BY <1>4, <2>1, <2>3
  <2> QED BY <2>2, <2>3
<1> QED BY <1>5, <1>6

\* Where the gate k of the filter f leads.
LEMMA GateLeads ==
  ASSUME NEW f, NEW k \in 1 .. Len(gates(f))
  PROVE  \/ gates(f)[k][1] \in {9, 10, 329} /\ gates(f)[k][2] = WxTarget(f, gates(f)[k][1])
         \/ gates(f)[k][1] \in {41, 53} /\ gates(f)[k][2] = AfTarget(f, gates(f)[k][1])
BY GateShape

\* The call nr has a gate in the filter f.
Gated(f, nr) ==
  \E k \in 1 .. Len(gates(f)) : gates(f)[k][1] = nr

\* The calls whose arguments are looked at have one.
LEMMA GateFound ==
  ASSUME NEW f, NEW nr,
         \/ f.wx /\ nr \in {9, 10, 329}
         \/ f.af.present /\ nr \in {41, 53}
  PROVE  Gated(f, nr)
BY GateShape DEF Gated

\* A call that a gate is about.
LEMMA GatedDecides ==
  ASSUME NEW f, Numbered(f), NEW p, NEW g, NEW m, NEW q, NEW w, Laid(f, p, g, m, q, w),
         NEW h, NEW call, Traced(f, h, call)
  PROVE  /\ f.wx /\ call.nr \in {9, 10, 329} =>
              h[3][Nr] = IF list_denies(f, call.nr) THEN "errno"
                         ELSE Verdict({"W", "X"} \subseteq call.arg2)
         /\ f.af.present /\ call.nr \in {41, 53} =>
              h[3][Nr] = IF list_denies(f, call.nr) THEN "errno"
                         ELSE IF const_errno(f.af) THEN Verdict(fam_default_errno(f.af))
                         ELSE h[Where(f, Tgt("Famarg"))][Nr]
         /\ f.af.present /\ call.nr \in {41, 53} /\ ~list_denies(f, call.nr) /\ ~const_errno(f.af) =>
              \E k \in 1 .. Len(gates(f)) : gates(f)[k][2] = Tgt("Famarg")
<1> DEFINE nr == call.nr
<1>1. g \in Nat /\ g = Len(gates(f))
  BY DEF Laid
<1>2. Nr \in Regs
  BY DEF Regs
<1>3. /\ \A b : h[Where(f, pick_t(b))][Nr] = Verdict(b)
      /\ h[Where(f, Tgt("Errno"))][Nr] = "errno"
  BY <1>2, TracedEnds
<1>4. ASSUME Gated(f, nr)
      PROVE  \E k \in 1 .. g : gates(f)[k][1] = nr /\ h[3][Nr] = h[Where(f, gates(f)[k][2])][Nr]
  <2>0. \E k \in 1 .. g : gates(f)[k][1] = nr
    BY <1>1, <1>4 DEF Gated
  <2>1. g # 0
    BY <1>1, <2>0
  <2> QED BY <2>0, <2>1, GatesDecide
<1>5. ASSUME f.wx, nr \in {9, 10, 329}
      PROVE  h[3][Nr] = IF list_denies(f, nr) THEN "errno" ELSE Verdict({"W", "X"} \subseteq call.arg2)
  <2>1. PICK k \in 1 .. g : gates(f)[k][1] = nr /\ h[3][Nr] = h[Where(f, gates(f)[k][2])][Nr]
    <3>1. Gated(f, nr)
      BY <1>5, GateFound
    <3> QED BY <1>4, <3>1
  <2>2. gates(f)[k][2] = WxTarget(f, nr)
    <3>1. gates(f)[k][1] \notin {41, 53}
      BY <1>5, <2>1
    <3>2. \/ gates(f)[k][1] \in {9, 10, 329} /\ gates(f)[k][2] = WxTarget(f, gates(f)[k][1])
          \/ gates(f)[k][1] \in {41, 53}
      <4>1. k \in 1 .. Len(gates(f))
        BY <1>1
      <4> QED BY <4>1, GateLeads
    <3> QED BY <2>1, <3>1, <3>2
  <2>3. CASE list_denies(f, nr)
    BY <1>3, <2>1, <2>2, <2>3 DEF WxTarget
  <2>4. CASE ~list_denies(f, nr)
    <3>1. gates(f)[k][2] = Tgt("WxArg")
      BY <2>2, <2>4 DEF WxTarget
    <3>2. h[Where(f, Tgt("WxArg"))][Nr] = Verdict({"W", "X"} \subseteq call.arg2)
      BY <1>1, <3>1, WxDecides
    <3> QED BY <2>1, <2>4, <3>1, <3>2
  <2> QED BY <2>3, <2>4
<1>6. ASSUME f.af.present, nr \in {41, 53}
      PROVE  /\ h[3][Nr] = IF list_denies(f, nr) THEN "errno"
                           ELSE IF const_errno(f.af) THEN Verdict(fam_default_errno(f.af))
                           ELSE h[Where(f, Tgt("Famarg"))][Nr]
             /\ ~list_denies(f, nr) /\ ~const_errno(f.af) =>
                  \E k \in 1 .. Len(gates(f)) : gates(f)[k][2] = Tgt("Famarg")
  <2>1. PICK k \in 1 .. g : gates(f)[k][1] = nr /\ h[3][Nr] = h[Where(f, gates(f)[k][2])][Nr]
    <3>1. Gated(f, nr)
      BY <1>6, GateFound
    <3> QED BY <1>4, <3>1
  <2>2. gates(f)[k][2] = AfTarget(f, nr)
    <3>1. gates(f)[k][1] \notin {9, 10, 329}
      BY <1>6, <2>1
    <3>2. \/ gates(f)[k][1] \in {9, 10, 329}
          \/ gates(f)[k][1] \in {41, 53} /\ gates(f)[k][2] = AfTarget(f, gates(f)[k][1])
      <4>1. k \in 1 .. Len(gates(f))
        BY <1>1
      <4> QED BY <4>1, GateLeads
    <3> QED BY <2>1, <3>1, <3>2
  <2>3. CASE list_denies(f, nr)
    BY <1>3, <2>1, <2>2, <2>3 DEF AfTarget
  <2>4. CASE ~list_denies(f, nr) /\ const_errno(f.af)
    BY <1>3, <2>1, <2>2, <2>4 DEF AfTarget
  <2>5. CASE ~list_denies(f, nr) /\ ~const_errno(f.af)
    BY <1>1, <2>1, <2>2, <2>5 DEF AfTarget
  <2> QED BY <2>3, <2>4, <2>5
<1> QED BY <1>5, <1>6

\* The calls that a directive adds to a deny-list, and those that every
\* allow-list has, where they meet the gates.
LEMMA BaseNumbers ==
  ASSUME NEW c
  PROVE  /\ extra_deny(c) \cap {9, 10, 329, 41, 53} = {}
         /\ syscall_nr(ALLOW_BASE) \cap {9, 10, 329, 41, 53} = {9, 10}
         /\ syscall_nr(ALLOW_BASE) \cap extra_deny(c) = {}
         /\ c.restrict_realtime \/ c.lock_personality \/ c.restrict_suidsgid => extra_deny(c) # {}
<1>1. syscall_nr(RT_DENY) = {142, 144, 314}
  BY DEF syscall_nr, RT_DENY, SYSCALLS
<1>2. suidsgid_nrs = {90, 91, 92, 93, 94, 260, 268}
  BY DEF syscall_nr, suidsgid_nrs, SYSCALLS
<1>3. SYSCALLS.personality = 135
  BY DEF SYSCALLS
<1>4. syscall_nr(ALLOW_BASE) = {231, 9, 10, 0, 1}
  BY DEF syscall_nr, ALLOW_BASE, SYSCALLS
<1> QED BY <1>1, <1>2, <1>3, <1>4 DEF extra_deny

\* For the directives that the compiler gets right, the program answers every call as they say.
LEMMA BuiltDecides ==
  ASSUME NEW c, Numbered(FilterOf(c)), need_seccomp(c), Decidable(c), NEW call
  PROVE  RunFilter(build(FilterOf(c)), call) = Decision(c, call)
<1>1. PICK f : f = FilterOf(c)
  OBVIOUS
<1>2. /\ f.nrs = c.syscall_nrs /\ (f.deny <=> c.syscall_nrs = {} \/ c.syscall_deny)
      /\ f.deny \in BOOLEAN /\ f.extra_deny = extra_deny(c) /\ f.af = c.af
      /\ f.wx = c.memory_deny_write_execute
  BY <1>1 DEF FilterOf
<1>3. PICK p, g, m, q, w :
        /\ p = Symbolic(f) /\ g = Len(gates(f)) /\ m = Len(Entries(f))
        /\ q = Len(FamilyBlock(f)) /\ w = Len(WxBlock(f, Len(FamilyPart(f))))
  OBVIOUS
<1>4. Numbered(f)
  BY <1>1
<1>5. Laid(f, p, g, m, q, w)
  BY <1>3, <1>4, Layout
<1>6. Len(p) \in Nat /\ Len(p) <= JumpMod
  <2>1. Len(p) \in Nat
    BY <1>5 DEF Laid
  <2>2. Len(build(f)) = Len(p)
    <3>1. build(f) = Assemble(p, Len(PlainPart(f)), Len(FamilyPart(f)))
      BY <1>3, BuildAssembles
    <3>2. Len(Assemble(p, Len(PlainPart(f)), Len(FamilyPart(f)))) = Len(p)
      BY <2>1 DEF Assemble
    <3> QED BY <3>1, <3>2
  <2> QED BY <1>1, <2>1, <2>2 DEF Decidable
<1>7. PICK h : Traced(f, h, call) /\ RunFilter(build(f), call) = h[0][Nr]
  BY <1>3, <1>4, <1>6, RunTraced
<1>8. h[0][Nr] = IF call.arch = "x86_64" THEN h[3][Nr] ELSE "errno"
  BY <1>5, <1>7, TracedEnds
<1>9. g # 0 \/ m # 0
  <2> SUFFICES ASSUME g = 0, m = 0
               PROVE  FALSE
    OBVIOUS
  <2>1. ~f.wx /\ ~f.af.present
    <3>1. g = (IF f.wx THEN 3 ELSE 0) + (IF f.af.present THEN 2 ELSE 0)
      BY <1>3, GateLists
    <3>2. CASE f.wx
      <4>1. g \in {3, 5}
        BY <3>1, <3>2
      <4> QED BY <4>1
    <3>3. CASE ~f.wx /\ f.af.present
      BY <3>1, <3>3
    <3> QED BY <3>2, <3>3
  <2>2. Listed(f) = {}
    <3>1. PICK es : es = Entries(f)
      OBVIOUS
    <3>2. Listed(f) = {es[k] : k \in 1 .. m}
      BY <1>3, <1>4, <3>1, EntriesListed
    <3>3. 1 .. m = {}
      OBVIOUS
    <3> QED BY <3>2, <3>3
  <2>3. f.nrs = {} /\ (f.deny => f.extra_deny = {})
    BY <2>1, <2>2 DEF Listed
  <2> QED BY <1>2, <2>1, <2>3, BaseNumbers DEF need_seccomp
<1> DEFINE nr == call.nr
<1>10. /\ Decision(c, call) = IF /\ call.arch = "x86_64" /\ ListAllows(c, nr)
                                 /\ f.af.present /\ nr \in {41, 53} => FamilyAllowed(f.af, call.arg0)
                                 /\ f.wx /\ nr \in {9, 10, 329} => ~({"W", "X"} \subseteq call.arg2)
                              THEN "allow" ELSE "errno"
       /\ ListAllows(c, nr) <=> IF f.deny THEN nr \notin f.nrs \cup f.extra_deny
                                ELSE nr \in f.nrs \cup syscall_nr(ALLOW_BASE)
  <2>1. ListAllows(c, nr) <=> IF f.deny THEN nr \notin f.nrs \cup f.extra_deny
                              ELSE nr \in f.nrs \cup syscall_nr(ALLOW_BASE)
    <3>1. CASE f.deny
      BY <1>2, <3>1 DEF ListAllows
    <3>2. CASE ~f.deny
      <4>1. f.nrs \cap f.extra_deny = {}
        BY <1>2, <3>2 DEF Decidable
      <4>2. syscall_nr(ALLOW_BASE) \cap f.extra_deny = {}
        BY <1>2, BaseNumbers
      <4> QED BY <1>2, <3>2, <4>1, <4>2 DEF ListAllows
    <3> QED BY <3>1, <3>2
  <2>2. Decision(c, call) = IF /\ call.arch = "x86_64" /\ ListAllows(c, nr)
                               /\ f.af.present /\ nr \in {41, 53} => FamilyAllowed(f.af, call.arg0)
                               /\ f.wx /\ nr \in {9, 10, 329} => ~({"W", "X"} \subseteq call.arg2)
                            THEN "allow" ELSE "errno"
    BY <1>2, GatedNumbers DEF Decision
  <2> QED BY <2>1, <2>2
<1>11. CASE call.arch # "x86_64"
  BY <1>1, <1>7, <1>8, <1>10, <1>11
<1>12. CASE call.arch = "x86_64" /\ f.wx /\ nr \in {9, 10, 329}
  <2>1. h[3][Nr] = IF list_denies(f, nr) THEN "errno" ELSE Verdict({"W", "X"} \subseteq call.arg2)
    BY <1>4, <1>5, <1>7, <1>12, GatedDecides
  <2>2. ListAllows(c, nr) <=> ~list_denies(f, nr)
    <3>1. nr \notin f.extra_deny
      BY <1>2, <1>12, BaseNumbers
    <3>2. ~f.deny => 9 \in f.nrs /\ 10 \in f.nrs
      <4>1. SYSCALLS.mmap = 9 /\ SYSCALLS.mprotect = 10
        BY DEF SYSCALLS
      <4> QED BY <1>2, <1>12, <4>1 DEF Decidable
    <3>3. nr \in syscall_nr(ALLOW_BASE) => nr \in {9, 10}
      BY <1>12, BaseNumbers
    <3> QED BY <1>10, <3>1, <3>2, <3>3 DEF list_denies
  <2>3. nr \notin {41, 53}
    BY <1>12
  <2> QED BY <1>1, <1>7, <1>8, <1>10, <1>12, <2>1, <2>2, <2>3 DEF Verdict
<1>13. CASE call.arch = "x86_64" /\ f.af.present /\ nr \in {41, 53}
  <2>1. /\ h[3][Nr] = IF list_denies(f, nr) THEN "errno"
                      ELSE IF const_errno(f.af) THEN Verdict(fam_default_errno(f.af))
                      ELSE h[Where(f, Tgt("Famarg"))][Nr]
        /\ ~list_denies(f, nr) /\ ~const_errno(f.af) =>
             \E k \in 1 .. Len(gates(f)) : gates(f)[k][2] = Tgt("Famarg")
    BY <1>4, <1>5, <1>7, <1>13, GatedDecides
  <2>2. ListAllows(c, nr) <=> ~list_denies(f, nr)
    <3>1. nr \notin f.extra_deny
      BY <1>2, <1>13, BaseNumbers
    <3>2. nr \notin syscall_nr(ALLOW_BASE)
      BY <1>13, BaseNumbers
    <3> QED BY <1>10, <3>1, <3>2 DEF list_denies
  <2>3. nr \notin {9, 10, 329}
    BY <1>13
  <2>4. Decision(c, call) = IF ~list_denies(f, nr) /\ FamilyAllowed(f.af, call.arg0)
                            THEN "allow" ELSE "errno"
    BY <1>10, <1>13, <2>2, <2>3
  <2>5. CASE list_denies(f, nr)
    BY <1>1, <1>7, <1>8, <1>13, <2>1, <2>4, <2>5
  <2>6. CASE ~list_denies(f, nr) /\ const_errno(f.af)
    <3>1. FamilyAllowed(f.af, call.arg0) <=> ~fam_default_errno(f.af)
      BY <2>6 DEF FamilyAllowed, fam_default_errno, const_errno
    <3> QED BY <1>1, <1>7, <1>8, <1>13, <2>1, <2>4, <2>6, <3>1 DEF Verdict
  <2>7. CASE ~list_denies(f, nr) /\ ~const_errno(f.af)
    <3>0. f.af.families # {} /\ \A x, y \in f.af.families : x = y
      BY <1>2, <2>7 DEF const_errno, Decidable
    <3>9. PICK fam : fam \in f.af.families
      BY <3>0
    <3>1. f.af.families = {fam}
      BY <3>0, <3>9
    <3>2. h[Where(f, Tgt("Famarg"))][Nr]
            = IF call.arg0 = fam THEN Verdict(f.af.deny) ELSE Verdict(fam_default_errno(f.af))
      BY <1>4, <1>5, <1>7, <2>1, <2>7, <3>1, FamilyDecides
    <3>3. ~f.af.deny_all
      BY <2>7 DEF const_errno
    <3>4. FamilyAllowed(f.af, call.arg0) <=> IF call.arg0 = fam THEN ~f.af.deny ELSE ~fam_default_errno(f.af)
      BY <3>1, <3>3 DEF FamilyAllowed, fam_default_errno
    <3> QED BY <1>1, <1>7, <1>8, <1>13, <2>1, <2>4, <2>7, <3>2, <3>4 DEF Verdict
  <2> QED BY <2>5, <2>6, <2>7
<1>14. CASE /\ call.arch = "x86_64" /\ (f.wx => nr \notin {9, 10, 329})
            /\ f.af.present => nr \notin {41, 53}
  <2>1. h[3][Nr] = Verdict((nr \in Listed(f)) <=> f.deny)
    BY <1>2, <1>4, <1>5, <1>7, <1>9, <1>14, UngatedDecides
  <2>2. nr \in Listed(f) <=> nr \in f.nrs \cup (IF f.deny THEN f.extra_deny ELSE syscall_nr(ALLOW_BASE))
    BY <1>14, GatedNumbers DEF Listed
  <2>3. ListAllows(c, nr) <=> ~((nr \in Listed(f)) <=> f.deny)
    <3>1. CASE f.deny
      BY <1>10, <2>2, <3>1
    <3>2. CASE ~f.deny
      BY <1>10, <2>2, <3>2
    <3> QED BY <3>1, <3>2
  <2> QED BY <1>1, <1>7, <1>8, <1>10, <1>14, <2>1, <2>3 DEF Verdict
<1> QED BY <1>11, <1>12, <1>13, <1>14

-----------------------------------------------------------------------------
(* The filter of a child is the one that its unit describes.               *)

\* A child comes from a unit that was parsed, and has no filter or the one
\* that is built for its directives.
FilterInv ==
  phase \notin {"load"} \cup Ends =>
    /\ ~ParseFails(raw)
    /\ child.filter # <<>> => need_seccomp(Cfg) /\ child.filter = build(FilterOf(Cfg))

\* A step that leaves the filter alone.
LEMMA FilterKept ==
  ASSUME FilterInv, phase \notin {"load"} \cup Ends, Keep,
         phase' \in Ends \/ child'.filter = child.filter
  PROVE  FilterInv'
BY DEF FilterInv, Keep, Cfg

\* FilterInv holds of every start: only the operation Seccomp installs a
\* filter, and a plan has it only where it is needed.
LEMMA FilterInvInductive ==
  /\ Init => FilterInv
  /\ ChildInv /\ FilterInv /\ [Next]_vars => FilterInv'
<1>1. ASSUME Init PROVE FilterInv
  BY <1>1 DEF Init, FilterInv
<1>2. ASSUME ChildInv, FilterInv, [Next]_vars PROVE FilterInv'
  <2>1. CASE UNCHANGED vars
    BY <1>2, <2>1 DEF FilterInv, vars, Cfg
  <2>2. CASE Load
    <3>1. phase = "load" /\ child' = child /\ phase' = IF ParseFails(raw') THEN "error" ELSE "plan"
      BY <2>2 DEF Load, GoTo
    <3>2. child.filter = <<>>
      BY <1>2, <3>1 DEF ChildInv, Forked
    <3>3. phase' \notin Ends => ~ParseFails(raw)'
      BY <3>1 DEF Ends
    <3> QED BY <3>1, <3>2, <3>3 DEF FilterInv
  <2>3. CASE Prepare
    <3>1. phase = "plan" /\ Keep /\ child' = child
      BY <2>3 DEF Prepare
    <3> QED BY <1>2, <3>1, FilterKept DEF Ends
  <2>4. DOMAIN child = DOMAIN Forked
    BY <1>2 DEF ChildInv
  <2>5. CASE SigMask \/ SetSid \/ DupListeners \/ JoinCgroup \/ ChDir \/ SetGroups \/ SetGid
             \/ SetUid \/ UMask \/ Nice \/ SetRlimit \/ Exec
    <3>1. /\ Keep /\ phase \notin {"load"} \cup Ends
          /\ phase' = "failed" \/ child'.filter = child.filter
      <4>1. CASE SigMask
        BY <2>4, <4>1, ForkedFields DEF SigMask, HardStep, Fail, Ends
      <4>2. CASE SetSid
        BY <2>4, <4>2, ForkedFields DEF SetSid, HardStep, Fail, Ends
      <4>3. CASE DupListeners
        <5> DEFINE fds == DupAll(socket_fds_for)
                   some == socket_fds_for # <<>>
        <5>1. HardStep("dup2", "cgroup", some, TRUE, [child EXCEPT !.fds = fds])
          BY <4>3 DEF DupListeners
        <5> HIDE DEF fds, some
        <5> QED BY <2>4, <5>1, ForkedFields DEF HardStep, Fail, Ends
      <4>4. CASE JoinCgroup
        BY <2>4, <4>4, ForkedFields DEF JoinCgroup, SoftStep, Ends
      <4>5. CASE ChDir
        BY <2>4, <4>5, ForkedFields DEF ChDir, HardStep, Fail, Ends
      <4>6. CASE SetGroups
        BY <2>4, <4>6, ForkedFields DEF SetGroups, HardStep, Fail, Ends
      <4>7. CASE SetGid
        BY <2>4, <4>7, ForkedFields DEF SetGid, HardStep, Fail, Ends
      <4>8. CASE SetUid
        BY <2>4, <4>8, ForkedFields DEF SetUid, HardStep, Fail, Ends
      <4>9. CASE UMask
        BY <2>4, <4>9, ForkedFields DEF UMask, SoftStep, Ends
      <4>10. CASE Nice
        BY <2>4, <4>10, ForkedFields DEF Nice, SoftStep, Ends
      <4>11. CASE SetRlimit
        BY <2>4, <4>11, ForkedFields DEF SetRlimit, HardStep, Fail, Ends
      <4>12. CASE Exec
        BY <2>4, <4>12 DEF Exec, HardStep, Fail, Ends
      <4> QED BY <2>5, <4>1, <4>2, <4>3, <4>4, <4>5, <4>6, <4>7, <4>8, <4>9, <4>10, <4>11, <4>12
    <3>2. phase' \in Ends \/ child'.filter = child.filter
      BY <3>1 DEF Ends
    <3> QED BY <1>2, <3>1, <3>2, FilterKept
  <2>6. CASE UnshareMount \/ MakeRprivate \/ MountTmpfs \/ BindReadOnly \/ PrivateDevices
             \/ NoNewPrivileges \/ CapBoundingDrop \/ AmbientRaise \/ ApplyDone
    <3>1. /\ Keep /\ phase \notin {"load"} \cup Ends
          /\ phase' = "failed" \/ child'.filter = child.filter
      <4>1. CASE UnshareMount
        BY <2>4, <4>1, ForkedFields DEF UnshareMount, NextOp, Applied, Fail, Ends
      <4>2. CASE MakeRprivate
        BY <2>4, <4>2, ForkedFields DEF MakeRprivate, NextOp, HardOp, Applied, Fail, Ends
      <4>3. CASE MountTmpfs
        BY <2>4, <4>3, ForkedFields DEF MountTmpfs, NextOp, HardOp, Applied, Fail, Ends
      <4>4. CASE BindReadOnly
        BY <2>4, <4>4, ForkedFields DEF BindReadOnly, NextOp, HardOp, Applied, Fail, Ends
      <4>5. CASE PrivateDevices
        BY <2>4, <4>5, ForkedFields DEF PrivateDevices, NextOp, Applied, Ends
      <4>6. CASE NoNewPrivileges
        BY <2>4, <4>6, ForkedFields DEF NoNewPrivileges, NextOp, HardOp, Applied, Fail, Ends
      <4>7. CASE CapBoundingDrop
        BY <2>4, <4>7, ForkedFields DEF CapBoundingDrop, NextOp, HardOp, Applied, Fail, Ends
      <4>8. CASE AmbientRaise
        BY <2>4, <4>8, ForkedFields DEF AmbientRaise, NextOp, Applied, Ends
      <4>9. CASE ApplyDone
        BY <4>9 DEF ApplyDone, Ends
      <4> QED BY <2>6, <4>1, <4>2, <4>3, <4>4, <4>5, <4>6, <4>7, <4>8, <4>9
    <3>2. phase' \in Ends \/ child'.filter = child.filter
      BY <3>1 DEF Ends
    <3> QED BY <1>2, <3>1, <3>2, FilterKept
  <2>7. CASE Seccomp
    <3>1. PICK o : o = Head(ops)
      OBVIOUS
    <3>2. /\ phase = "sandbox" /\ Keep /\ o \in Planned(Cfg) /\ o.op = "Seccomp"
      BY <1>2, <2>7, <3>1, AtOp DEF Seccomp
    <3>3. phase \notin {"load"} \cup Ends
      BY <3>2 DEF Ends
    <3>4. CASE Fail
      <4>1. phase' \in Ends
        BY <3>4 DEF Fail, Ends
      <4> QED BY <1>2, <3>2, <3>3, <4>1, FilterKept
    <3>5. CASE Applied([child EXCEPT !.filter = Head(ops).arg])
      <4>1. child'.filter = o.arg
        BY <2>4, <3>1, <3>5, ForkedFields DEF Applied
      <4>2. need_seccomp(Cfg) /\ o.arg = build(FilterOf(Cfg))
        BY <3>2, PlannedOps
      <4>3. Cfg' = Cfg /\ raw' = raw
        BY <3>2 DEF Cfg, Keep
      <4>4. ~ParseFails(raw)
        BY <1>2, <3>3 DEF FilterInv
      <4> QED BY <4>1, <4>2, <4>3, <4>4 DEF FilterInv
    <3> QED BY <2>7, <3>4, <3>5 DEF Seccomp, HardOp
  <2> QED BY <1>2, <2>1, <2>2, <2>3, <2>5, <2>6, <2>7 DEF Next, Child
<1> QED BY <1>1, <1>2

\* build() and install: the filter of a child answers every call as the
\* directives of its unit say, for every unit file whose directives are among
\* those that the compiler gets right, every set of attributes and every width
\* of a jump.
THEOREM FilterDecidesCorrect ==
  ASSUME \A r \in Raws : ParseFails(r) \/ Decidable(parse_sandbox(r))
  PROVE  Spec => []FilterDecides
<1>1. Init => ChildInv /\ FilterInv
  BY ChildInvInductive, FilterInvInductive
<1>2. ChildInv /\ FilterInv /\ [Next]_vars => ChildInv' /\ FilterInv'
  BY ChildInvInductive, FilterInvInductive
<1>3. ChildInv /\ FilterInv => FilterDecides
  <2> SUFFICES ASSUME ChildInv, FilterInv, JustInstalled, NEW call \in Calls
               PROVE  RunFilter(child.filter, call) = Decision(Cfg, call)
    BY DEF FilterDecides
  <2>1. phase = "chdir" /\ child.filter # <<>>
    BY DEF JustInstalled
  <2>2. raw \in Raws
    BY <2>1 DEF ChildInv
  <2>3. ~ParseFails(raw) /\ need_seccomp(Cfg) /\ child.filter = build(FilterOf(Cfg))
    BY <2>1 DEF FilterInv, Ends
  <2>4. Decidable(Cfg) /\ Numbered(FilterOf(Cfg))
    BY <2>2, <2>3, ParsedNumbers DEF Cfg
  <2> QED BY <2>3, <2>4, BuiltDecides
<1> QED BY <1>1, <1>2, <1>3, PTL DEF Spec


=============================================================================
