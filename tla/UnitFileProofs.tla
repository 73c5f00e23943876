--------------------------- MODULE UnitFileProofs ---------------------------
(***************************************************************************)
(* Proofs about the unit files, for every set of names, every search path  *)
(* and every content: the directories never show a torn file, masking and  *)
(* unmasking are inverse, and a reload loads what the search path shows.   *)
(***************************************************************************)
EXTENDS UnitFiles, FoldLemmas, FiniteSetTheorems

USE UnitFilesAssumption

\* The directories, and what one more step of enable or disable may hand on.
Fs       == [Dirs -> [Names -> Entry]]
Outcomes == {"run", "ok", "error", "abort"}
Results  == [fs : Fs, links : SUBSET LinkRec, at : Names, out : Outcomes]

\* Every entry and every link points into the search path, and a write in progress is
\* either cut short or has all of its text.
FileInv ==
  /\ fs \in Fs
  /\ links \in SUBSET LinkRec
  /\ staged # NoPath => /\ staged \in Edited \X Contents \X (Contents \cup {Torn})
                        /\ staged[3] \in {Torn, staged[2]}

-----------------------------------------------------------------------------
(* Paths and entries.                                                      *)

\* What the kind of an entry says of it.
LEMMA EntryKinds ==
  ASSUME NEW e \in Entry
  PROVE  /\ e.t = "link" => e.p \in Path
         /\ e.t = "reg"  => e.c \in Contents /\ e # None
<1>1. CASE e = None
  BY <1>1 DEF None
<1>2. CASE e = NullLink
  BY <1>2 DEF NullLink
<1>3. ASSUME NEW c \in Contents, e = Reg(c)
      PROVE  e.t = "reg" /\ e.c \in Contents /\ e # None
  <2>1. e.t = "reg" /\ e.c = c
    BY <1>3 DEF Reg
  <2>2. None.t = "none"
    BY DEF None
  <2> QED BY <2>1, <2>2
<1>4. ASSUME NEW p \in Path, e = Link(p)
      PROVE  e.t = "link" /\ e.p \in Path
  BY <1>4 DEF Link
<1> QED BY <1>1, <1>2, <1>3, <1>4 DEF Entry

\* Following a link stays in the search path ...
LEMMA HopStays ==
  ASSUME NEW f \in Fs, NEW p \in Path
  PROVE  Hop(f, p) \in Path
<1>1. p[1] \in Dirs /\ p[2] \in Names
  BY DEF Path
<1>2. f[p[1]][p[2]] \in Entry
  BY <1>1 DEF Fs
<1> QED BY <1>2, EntryKinds DEF Hop

\* ... so it ends at a file with a content or at none.
LEMMA ResolveStays ==
  ASSUME NEW f \in Fs, NEW p \in Path
  PROVE  Resolve(f, p) # None => Resolve(f, p).c \in Contents
<1> DEFINE q == Hop(f, Hop(f, Hop(f, p)))
<1>1. q \in Path
  BY HopStays
<1>2. q[1] \in Dirs /\ q[2] \in Names
  BY <1>1 DEF Path
<1>3. f[q[1]][q[2]] \in Entry
  BY <1>2 DEF Fs
<1>4. Resolve(f, p) = IF f[q[1]][q[2]].t = "reg" THEN f[q[1]][q[2]] ELSE None
  BY DEF Resolve
<1> HIDE DEF q
<1> QED BY <1>3, <1>4, EntryKinds

\* The directory that the search finds is the first one that has the file.
LEMMA FirstDirIsFirst ==
  ASSUME NEW f, NEW n \in Names
  PROVE  \/ FirstDir(f, n) = NoPath /\ \A d \in Dirs : ~is_file(f, <<d, n>>)
         \/ \E d \in Dirs : /\ FirstDir(f, n) = <<d, n>> /\ is_file(f, <<d, n>>)
                            /\ \A o \in Dirs : is_file(f, <<o, n>>) => d <= o
<1> DEFINE ds == {d \in Dirs : is_file(f, <<d, n>>)}
<1>1. CASE ds = {}
  BY <1>1 DEF FirstDir
<1>2. CASE ds # {}
  <2>1. ds \in SUBSET Nat
    OBVIOUS
  <2>2. PICK k \in ds : \A o \in ds : k <= o
    BY <1>2, <2>1, LeastNatural
  <2> DEFINE d == CHOOSE x \in ds : \A o \in ds : x <= o
  <2>3. d \in ds /\ \A o \in ds : d <= o
    BY <2>2
  <2>4. FirstDir(f, n) = <<d, n>>
    BY <1>2 DEF FirstDir
  <2> HIDE DEF d
  <2> QED BY <2>3, <2>4
<1> QED BY <1>1, <1>2

\* Nothing found is not a path.
LEMMA NoPathIsNone == ASSUME NEW p \in Path PROVE p # NoPath
<1>1. PICK d \in Dirs, n \in Names : p = <<d, n>>
  BY DEF Path
<1>2. Len(<<d, n>>) = 2 /\ Len(<<>>) = 0
  OBVIOUS
<1> QED BY <1>1, <1>2 DEF NoPath

LEMMA find_unit_Path ==
  ASSUME NEW f, NEW n \in Names, find_unit(f, n) # NoPath
  PROVE  find_unit(f, n) \in Path
<1>1. \A m \in Names : FirstDir(f, m) # NoPath => FirstDir(f, m) \in Path
  <2> SUFFICES ASSUME NEW m \in Names, FirstDir(f, m) # NoPath
               PROVE  FirstDir(f, m) \in Path
    OBVIOUS
  <2>1. PICK d \in Dirs : FirstDir(f, m) = <<d, m>>
    BY FirstDirIsFirst
  <2> QED BY <2>1 DEF Path
<1>2. CASE FirstDir(f, n) # NoPath \/ Template[n] = NoName
  BY <1>1, <1>2 DEF find_unit
<1>3. CASE ~(FirstDir(f, n) # NoPath \/ Template[n] = NoName)
  BY <1>1, <1>3 DEF find_unit
<1> QED BY <1>2, <1>3

\* The file that was found has an [Install] section with names in it.
LEMMA InstallSection ==
  ASSUME NEW f \in Fs, NEW p \in Path, install_section(f, p) # None
  PROVE  /\ install_section(f, p).c \in Contents
         /\ InstallTargets(install_section(f, p).c) \in SUBSET Targets
         /\ install_section(f, p).c.alias \in Names \cup {NoName}
         /\ install_section(f, p).c.also \in Names \cup {NoName}
<1>1. install_section(f, p) = Resolve(f, p) /\ Resolve(f, p) # None
  BY DEF install_section
<1>2. Resolve(f, p).c \in Contents
  BY <1>1, ResolveStays
<1>3. \A c \in Contents : /\ c.wanted_by \in SUBSET Targets /\ c.required_by \in SUBSET Targets
                          /\ c.alias \in Names \cup {NoName} /\ c.also \in Names \cup {NoName}
  OBVIOUS
<1> QED BY <1>1, <1>2, <1>3 DEF InstallTargets

LEMMA NormalizeFileName_Names ==
  ASSUME NEW n \in Names PROVE NormalizeFileName(n) \in Names
BY DEF NormalizeFileName

\* One entry of one directory replaced by another entry.
LEMMA WriteEntry ==
  ASSUME NEW f \in Fs, NEW n \in Names, NEW e \in Entry
  PROVE  [f EXCEPT ![Config][n] = e] \in Fs
BY DEF Fs

LEMMA EntryForms ==
  /\ None \in Entry /\ NullLink \in Entry
  /\ \A c \in Contents : Reg(c) \in Entry
  /\ \A p \in Path : Link(p) \in Entry
BY DEF Entry

-----------------------------------------------------------------------------
(* Enable and disable, one unit and then the units it names in Also=.      *)

LEMMA EnableOneStays ==
  ASSUME NEW s \in Results
  PROVE  EnableOne(s) \in Results
<1> DEFINE p == find_unit(s.fs, s.at)
           e == IF p = NoPath THEN None ELSE install_section(s.fs, p)
           kind(t) == IF t \in e.c.wanted_by THEN "wants" ELSE "requires"
           new == {[target |-> t, kind |-> kind(t), name |-> s.at, to |-> p] : t \in InstallTargets(e.c)}
           kept == {k \in s.links : ~(k.name = s.at /\ k.target \in InstallTargets(e.c) /\ k.kind = kind(k.target))}
           f2 == IF e.c.alias = NoName THEN s.fs
                 ELSE [s.fs EXCEPT ![Config][NormalizeFileName(e.c.alias)] = Link(p)]
           at2 == IF e.c.also = NoName THEN s.at ELSE NormalizeFileName(e.c.also)
           out2 == IF e.c.also = NoName THEN "ok" ELSE "run"
<1>1. s.fs \in Fs /\ s.links \in SUBSET LinkRec /\ s.at \in Names
  BY DEF Results
<1>2. CASE e = None
  <2>1. EnableOne(s) = [s EXCEPT !.out = "error"]
    BY <1>2 DEF EnableOne
  <2> QED BY <2>1 DEF Results, Outcomes
<1>3. CASE e # None
  <2>1. EnableOne(s) = [fs |-> f2, links |-> kept \cup new, at |-> at2, out |-> out2]
    BY <1>3 DEF EnableOne
  <2>2. p # NoPath /\ e = install_section(s.fs, p)
    BY <1>3
  <2>3. p \in Path
    BY <1>1, <2>2, find_unit_Path
  <2>4. /\ InstallTargets(e.c) \in SUBSET Targets
        /\ e.c.alias \in Names \cup {NoName} /\ e.c.also \in Names \cup {NoName}
    BY <1>1, <1>3, <2>2, <2>3, InstallSection
  <2>5. f2 \in Fs
    <3>1. CASE e.c.alias = NoName
      BY <1>1, <3>1
    <3>2. CASE e.c.alias # NoName
      <4>1. NormalizeFileName(e.c.alias) \in Names
        BY <2>4, <3>2, NormalizeFileName_Names
      <4>2. Link(p) \in Entry
        BY <2>3, EntryForms
      <4> HIDE DEF e, p
      <4> QED BY <1>1, <3>2, <4>1, <4>2, WriteEntry
    <3> QED BY <3>1, <3>2
  <2>6. at2 \in Names
    BY <1>1, <2>4, NormalizeFileName_Names
  <2>7. new \in SUBSET LinkRec
    <3> SUFFICES ASSUME NEW t \in InstallTargets(e.c)
                 PROVE  [target |-> t, kind |-> kind(t), name |-> s.at, to |-> p] \in LinkRec
      OBVIOUS
    <3>1. t \in Targets /\ kind(t) \in Kinds
      BY <2>4 DEF Kinds
    <3> HIDE DEF e, p, kind
    <3> QED BY <1>1, <2>3, <3>1 DEF LinkRec
  <2>8. kept \in SUBSET LinkRec
    BY <1>1
  <2>9. out2 \in Outcomes
    BY DEF Outcomes
  <2> HIDE DEF f2, at2, out2, new, kept
  <2> QED BY <2>1, <2>5, <2>6, <2>7, <2>8, <2>9 DEF Results
<1> QED BY <1>2, <1>3

LEMMA DisableOneStays ==
  ASSUME NEW s \in Results
  PROVE  DisableOne(s) \in Results
<1> DEFINE p == find_unit(s.fs, s.at)
           e == IF p = NoPath THEN None ELSE install_section(s.fs, p)
           kept == {k \in s.links : ~(k.name = s.at /\ k.target \in InstallTargets(e.c))}
           f2 == IF e.c.alias = NoName THEN s.fs
                 ELSE [s.fs EXCEPT ![Config][NormalizeFileName(e.c.alias)] = None]
           at2 == IF e.c.also = NoName THEN s.at ELSE NormalizeFileName(e.c.also)
           out2 == IF e.c.also = NoName THEN "ok" ELSE "run"
<1>1. s.fs \in Fs /\ s.links \in SUBSET LinkRec /\ s.at \in Names
  BY DEF Results
<1>2. CASE e = None
  <2>1. DisableOne(s) = [s EXCEPT !.out = "ok"]
    BY <1>2 DEF DisableOne
  <2> QED BY <2>1 DEF Results, Outcomes
<1>3. CASE e # None
  <2>1. DisableOne(s) = [fs |-> f2, links |-> kept, at |-> at2, out |-> out2]
    BY <1>3 DEF DisableOne
  <2>2. p # NoPath /\ e = install_section(s.fs, p)
    BY <1>3
  <2>3. p \in Path
    BY <1>1, <2>2, find_unit_Path
  <2>4. e.c.alias \in Names \cup {NoName} /\ e.c.also \in Names \cup {NoName}
    BY <1>1, <1>3, <2>2, <2>3, InstallSection
  <2>5. f2 \in Fs
    <3>1. CASE e.c.alias = NoName
      BY <1>1, <3>1
    <3>2. CASE e.c.alias # NoName
      <4>1. NormalizeFileName(e.c.alias) \in Names
        BY <2>4, <3>2, NormalizeFileName_Names
      <4> HIDE DEF e, p
      <4> QED BY <1>1, <3>2, <4>1, EntryForms, WriteEntry
    <3> QED BY <3>1, <3>2
  <2>6. at2 \in Names
    BY <1>1, <2>4, NormalizeFileName_Names
  <2>7. kept \in SUBSET LinkRec
    BY <1>1
  <2>8. out2 \in Outcomes
    BY DEF Outcomes
  <2> HIDE DEF f2, at2, out2, kept
  <2> QED BY <2>1, <2>5, <2>6, <2>7, <2>8 DEF Results
<1> QED BY <1>2, <1>3

\* Cardinality(Names) bounds the chain, and is a number.
LEMMA MaxAlso_Nat == MaxAlso \in Nat
BY FS_CardinalityType DEF MaxAlso

\* The whole chain of Also= of an enable ...
LEMMA EnableFollows ==
  ASSUME NEW f \in Fs, NEW l \in SUBSET LinkRec, NEW n \in Names
  PROVE  Follow(EnableOne, f, l, n) \in Results
<1> DEFINE base == [fs |-> f, links |-> l, at |-> NormalizeFileName(n), out |-> "run"]
           step == [r \in Results |-> IF r.out = "run" THEN EnableOne(r) ELSE r]
           R[k \in 0..MaxAlso] ==
             IF k = 0 THEN base
             ELSE LET r == R[k - 1] IN IF r.out = "run" THEN EnableOne(r) ELSE r
<1>1. base \in Results
  BY NormalizeFileName_Names DEF Results, Outcomes
<1>2. step \in [Results -> Results]
  BY EnableOneStays
<1>3. Follow(EnableOne, f, l, n) =
        IF R[MaxAlso].out = "run" THEN [R[MaxAlso] EXCEPT !.out = "abort"] ELSE R[MaxAlso]
  BY DEF Follow
<1>4. PICK h \in [0 .. MaxAlso -> Results] : Iterates(h, MaxAlso, base, step)
  <2> HIDE DEF base, step
  <2> QED BY <1>1, <1>2, MaxAlso_Nat, IterateExists
<1>5. \A k \in 0 .. MaxAlso : k # 0 => k - 1 \in 0 .. MaxAlso
  BY MaxAlso_Nat
<1>6. \A k \in 0 .. MaxAlso :
        h[k] = IF k = 0 THEN base ELSE IF h[k - 1].out = "run" THEN EnableOne(h[k - 1]) ELSE h[k - 1]
  <2> SUFFICES ASSUME NEW k \in 0 .. MaxAlso, k # 0
               PROVE  h[k] = IF h[k - 1].out = "run" THEN EnableOne(h[k - 1]) ELSE h[k - 1]
    BY <1>4 DEF Iterates
  <2>1. h[k] = step[h[k - 1]] /\ h[k - 1] \in Results
    BY <1>4, <1>5 DEF Iterates
  <2> QED BY <2>1
<1>7. h = [k \in 0 .. MaxAlso |->
             IF k = 0 THEN base
             ELSE IF h[k - 1].out = "run" THEN EnableOne(h[k - 1]) ELSE h[k - 1]]
  BY <1>6
<1>8. R = [k \in 0 .. MaxAlso |->
             IF k = 0 THEN base
             ELSE IF R[k - 1].out = "run" THEN EnableOne(R[k - 1]) ELSE R[k - 1]]
  <2> HIDE DEF base
  <2> QED BY <1>7
<1>9. \A k \in 0 .. MaxAlso :
        R[k] = IF k = 0 THEN base ELSE IF R[k - 1].out = "run" THEN EnableOne(R[k - 1]) ELSE R[k - 1]
  <2> HIDE DEF base, R
  <2> QED BY <1>8
<1> HIDE DEF base, R
<1>10. R[MaxAlso] \in Results
  <2>1. R[0] \in Results
    BY <1>1, <1>9, MaxAlso_Nat
  <2>2. ASSUME NEW k \in 1 .. MaxAlso, R[k - 1] \in Results
        PROVE  R[k] \in Results
    <3>1. k \in 0 .. MaxAlso /\ k # 0
      BY MaxAlso_Nat
    <3>2. R[k] = IF R[k - 1].out = "run" THEN EnableOne(R[k - 1]) ELSE R[k - 1]
      BY <1>9, <3>1
    <3> QED BY <2>2, <3>2, EnableOneStays
  <2> QED BY <2>1, <2>2, MaxAlso_Nat, IterateKeeps
<1>11. \A r \in Results : [r EXCEPT !.out = "abort"] \in Results
  BY DEF Results, Outcomes
<1> QED BY <1>3, <1>10, <1>11

\* ... and of a disable stays in the search path too.
LEMMA DisableFollows ==
  ASSUME NEW f \in Fs, NEW l \in SUBSET LinkRec, NEW n \in Names
  PROVE  Follow(DisableOne, f, l, n) \in Results
<1> DEFINE base == [fs |-> f, links |-> l, at |-> NormalizeFileName(n), out |-> "run"]
           step == [r \in Results |-> IF r.out = "run" THEN DisableOne(r) ELSE r]
           R[k \in 0..MaxAlso] ==
             IF k = 0 THEN base
             ELSE LET r == R[k - 1] IN IF r.out = "run" THEN DisableOne(r) ELSE r
<1>1. base \in Results
  BY NormalizeFileName_Names DEF Results, Outcomes
<1>2. step \in [Results -> Results]
  BY DisableOneStays
<1>3. Follow(DisableOne, f, l, n) =
        IF R[MaxAlso].out = "run" THEN [R[MaxAlso] EXCEPT !.out = "abort"] ELSE R[MaxAlso]
  BY DEF Follow
<1>4. PICK h \in [0 .. MaxAlso -> Results] : Iterates(h, MaxAlso, base, step)
  <2> HIDE DEF base, step
  <2> QED BY <1>1, <1>2, MaxAlso_Nat, IterateExists
<1>5. \A k \in 0 .. MaxAlso : k # 0 => k - 1 \in 0 .. MaxAlso
  BY MaxAlso_Nat
<1>6. \A k \in 0 .. MaxAlso :
        h[k] = IF k = 0 THEN base ELSE IF h[k - 1].out = "run" THEN DisableOne(h[k - 1]) ELSE h[k - 1]
  <2> SUFFICES ASSUME NEW k \in 0 .. MaxAlso, k # 0
               PROVE  h[k] = IF h[k - 1].out = "run" THEN DisableOne(h[k - 1]) ELSE h[k - 1]
    BY <1>4 DEF Iterates
  <2>1. h[k] = step[h[k - 1]] /\ h[k - 1] \in Results
    BY <1>4, <1>5 DEF Iterates
  <2> QED BY <2>1
<1>7. h = [k \in 0 .. MaxAlso |->
             IF k = 0 THEN base
             ELSE IF h[k - 1].out = "run" THEN DisableOne(h[k - 1]) ELSE h[k - 1]]
  BY <1>6
<1>8. R = [k \in 0 .. MaxAlso |->
             IF k = 0 THEN base
             ELSE IF R[k - 1].out = "run" THEN DisableOne(R[k - 1]) ELSE R[k - 1]]
  <2> HIDE DEF base
  <2> QED BY <1>7
<1>9. \A k \in 0 .. MaxAlso :
        R[k] = IF k = 0 THEN base ELSE IF R[k - 1].out = "run" THEN DisableOne(R[k - 1]) ELSE R[k - 1]
  <2> HIDE DEF base, R
  <2> QED BY <1>8
<1> HIDE DEF base, R
<1>10. R[MaxAlso] \in Results
  <2>1. R[0] \in Results
    BY <1>1, <1>9, MaxAlso_Nat
  <2>2. ASSUME NEW k \in 1 .. MaxAlso, R[k - 1] \in Results
        PROVE  R[k] \in Results
    <3>1. k \in 0 .. MaxAlso /\ k # 0
      BY MaxAlso_Nat
    <3>2. R[k] = IF R[k - 1].out = "run" THEN DisableOne(R[k - 1]) ELSE R[k - 1]
      BY <1>9, <3>1
    <3> QED BY <2>2, <3>2, DisableOneStays
  <2> QED BY <2>1, <2>2, MaxAlso_Nat, IterateKeeps
<1>11. \A r \in Results : [r EXCEPT !.out = "abort"] \in Results
  BY DEF Results, Outcomes
<1> QED BY <1>3, <1>10, <1>11

-----------------------------------------------------------------------------
(* What every step keeps.                                                  *)

LEMMA FileInit == Init => FileInv
<1> SUFFICES ASSUME Init
             PROVE  FileInv
  OBVIOUS
<1> QED BY DEF Init, FileInv, Fs

\* find_unit gives the entry that set-default links to.
LEMMA SetDefaultStays ==
  ASSUME FileInv, NEW n \in Names, SetDefault(n)
  PROVE  fs' \in Fs
<1>1. CASE find_unit(fs, n) = NoPath
  BY <1>1 DEF SetDefault, FileInv
<1>2. CASE find_unit(fs, n) # NoPath
  <2>1. fs' = [fs EXCEPT ![Config][Default] = Link(find_unit(fs, n))]
    BY <1>2 DEF SetDefault
  <2>2. Link(find_unit(fs, n)) \in Entry /\ fs \in Fs
    BY <1>2, find_unit_Path, EntryForms DEF FileInv
  <2> QED BY <2>1, <2>2, WriteEntry
<1> QED BY <1>1, <1>2

\* No step of rystemctl, of the manager or of a writer breaks it.
LEMMA FileStep == FileInv /\ [Next]_vars => FileInv'
<1> SUFFICES ASSUME FileInv, [Next]_vars
             PROVE  FileInv'
  OBVIOUS
<1>0. fs \in Fs /\ links \in SUBSET LinkRec
  BY DEF FileInv
<1>a. \A r \in Results : r.fs \in Fs /\ r.links \in SUBSET LinkRec
  BY DEF Results
<1>b. \A n \in Names : NormalizeFileName(n) \in Names
  BY NormalizeFileName_Names
<1>c. ASSUME fs' \in Fs, links' \in SUBSET LinkRec, UNCHANGED staged
      PROVE  FileInv'
  BY <1>c DEF FileInv
<1>1. ASSUME NEW n \in Names, Enable(n)
      PROVE  FileInv'
  <2>1. Follow(EnableOne, fs, links, n) \in Results
    BY <1>0, EnableFollows
  <2>2. fs' \in Fs /\ links' \in SUBSET LinkRec /\ UNCHANGED staged
    BY <1>a, <1>1, <2>1 DEF Enable
  <2> QED BY <1>c, <2>2
<1>2. ASSUME NEW n \in Names, Disable(n)
      PROVE  FileInv'
  <2>1. Follow(DisableOne, fs, links, n) \in Results
    BY <1>0, DisableFollows
  <2>2. fs' \in Fs /\ links' \in SUBSET LinkRec /\ UNCHANGED staged
    BY <1>a, <1>2, <2>1 DEF Disable
  <2> QED BY <1>c, <2>2
<1>3. ASSUME NEW n \in Names, Reenable(n)
      PROVE  FileInv'
  <2> DEFINE d == Follow(DisableOne, fs, links, n)
             r == IF d.out = "ok" THEN Follow(EnableOne, d.fs, d.links, n) ELSE d
  <2>1. d \in Results
    BY <1>0, DisableFollows
  <2>2. fs' = r.fs /\ links' = r.links /\ UNCHANGED staged
    BY <1>3 DEF Reenable
  <2>3. r \in Results
    <3> HIDE DEF d
    <3>1. Follow(EnableOne, d.fs, d.links, n) \in Results
      BY <1>a, <2>1, EnableFollows
    <3> QED BY <2>1, <3>1
  <2> HIDE DEF r
  <2> QED BY <1>a, <1>c, <2>2, <2>3
<1>4. ASSUME NEW n \in Names, MaskUnits(n)
      PROVE  FileInv'
  <2>1. fs' = [fs EXCEPT ![Config][NormalizeFileName(n)] = NullLink] /\ UNCHANGED <<links, staged>>
    BY <1>4 DEF MaskUnits, mask
  <2>2. fs' \in Fs
    BY <1>0, <1>b, <2>1, EntryForms, WriteEntry
  <2> QED BY <1>0, <1>c, <2>1, <2>2
<1>5. ASSUME NEW n \in Names, UnmaskUnits(n)
      PROVE  FileInv'
  <2>1. /\ fs' = fs \/ fs' = [fs EXCEPT ![Config][NormalizeFileName(n)] = None]
        /\ UNCHANGED <<links, staged>>
    BY <1>5 DEF UnmaskUnits, unmask
  <2>2. fs' \in Fs
    BY <1>0, <1>b, <2>1, EntryForms, WriteEntry
  <2> QED BY <1>0, <1>c, <2>1, <2>2
<1>6. ASSUME NEW n \in Names, SetDefault(n)
      PROVE  FileInv'
  <2>1. UNCHANGED <<links, staged>>
    BY <1>6 DEF SetDefault
  <2> QED BY <1>0, <1>6, <1>c, <2>1, SetDefaultStays
<1>7. ASSUME NEW n \in Names, Start(n) \/ RestartOrStart(n) \/ Stop(n)
      PROVE  FileInv'
  <2>1. UNCHANGED <<fs, links, staged>>
    BY <1>7 DEF Start, RestartOrStart, Stop
  <2> QED BY <1>0, <1>c, <2>1
<1>8. ASSUME NEW n \in Names, Delete(n)
      PROVE  FileInv'
  <2>1. fs' = [fs EXCEPT ![Config][n] = None] /\ UNCHANGED <<links, staged>>
    BY <1>8 DEF Delete
  <2> QED BY <1>0, <1>c, <2>1, EntryForms, WriteEntry
<1>9. ASSUME NEW n \in Edited, NEW c \in Contents, Stage(n, c)
      PROVE  FileInv'
  <2>1. staged' = <<n, c, Torn>> /\ UNCHANGED <<fs, links>>
    BY <1>9 DEF Stage
  <2> QED BY <1>0, <2>1 DEF FileInv
<1>10. CASE Written
  <2>1. staged # NoPath /\ staged' = [staged EXCEPT ![3] = staged[2]] /\ UNCHANGED <<fs, links>>
    BY <1>10 DEF Written
  <2>2. PICK n \in Edited, c \in Contents, d \in Contents \cup {Torn} : staged = <<n, c, d>>
    BY <2>1 DEF FileInv
  <2>3. staged' = <<n, c, c>>
    BY <2>1, <2>2
  <2>4. staged' \in Edited \X Contents \X (Contents \cup {Torn}) /\ staged'[3] = staged'[2]
    BY <2>3
  <2> QED BY <1>0, <2>1, <2>4 DEF FileInv
<1>11. CASE Rename
  <2>1. /\ staged # NoPath /\ staged[3] # Torn /\ staged' = NoPath /\ UNCHANGED links
        /\ fs' = [fs EXCEPT ![Config][staged[1]] = Reg(staged[3])]
    BY <1>11 DEF Rename
  <2>2. staged[1] \in Names /\ staged[3] \in Contents
    BY <2>1 DEF FileInv
  <2>3. fs' \in Fs
    BY <1>0, <2>1, <2>2, EntryForms, WriteEntry
  <2> QED BY <1>0, <2>1, <2>3 DEF FileInv
<1>12. CASE WriterDies
  BY <1>0, <1>12 DEF WriterDies, FileInv
<1>13. CASE DaemonReload
  BY <1>0, <1>13, <1>c DEF DaemonReload
<1>14. CASE UNCHANGED vars
  BY <1>0, <1>14, <1>c DEF vars
<1> QED
  BY <1>1, <1>2, <1>3, <1>4, <1>5, <1>6, <1>7, <1>8, <1>9, <1>10, <1>11, <1>12, <1>13, <1>14
  DEF Next, Done

\* Every entry of the search path, and every link, is one a program wrote whole.
THEOREM FileInvariant == Spec => []FileInv
BY FileInit, FileStep, PTL DEF Spec

-----------------------------------------------------------------------------
(* The properties.                                                         *)

\* No reader finds half of a repository write under a unit name (Repo::write renames a
\* file that has all of its text), whatever dies between the steps of a write.
THEOREM NoTornFileCorrect == Spec => []NoTornFile
<1>1. FileInv => NoTornFile
  <2> SUFFICES ASSUME FileInv, NEW d \in Dirs, NEW n \in Names, fs[d][n] = Reg(Torn)
               PROVE  FALSE
    BY DEF NoTornFile
  <2>1. fs[d][n] \in Entry
    BY DEF FileInv, Fs
  <2>2. fs[d][n].t = "reg" /\ fs[d][n].c = Torn
    BY DEF Reg
  <2> QED BY <2>1, <2>2, EntryKinds
<1> QED BY <1>1, FileInvariant, PTL

\* A mask over an entry that was not there is seen, and unmask takes it away again.
LEMMA MaskAndUnmask ==
  ASSUME NEW f \in Fs, NEW n \in Names, f[Config][NormalizeFileName(n)] = None
  PROVE  is_masked(mask(f, n), n) /\ unmask(mask(f, n), n) = f
<1> DEFINE m  == NormalizeFileName(n)
           g  == mask(f, n)
           ds == {d \in Dirs : g[d][m].t \in {"link", "null"}}
           k  == CHOOSE d \in ds : \A o \in ds : d <= o
<1>1. m \in Names
  BY NormalizeFileName_Names
<1>2. g[Config][m] = NullLink /\ g \in [Dirs -> [Names -> Entry]]
  BY <1>1, EntryForms, WriteEntry DEF mask, Fs
<1>3. Config \in ds
  BY <1>2 DEF NullLink
<1>4. \A d \in Dirs : Config <= d
  BY DEF Config
<1>5. k = Config
  <2>1. \A o \in ds : Config <= o
    BY <1>4
  <2>2. k \in ds /\ \A o \in ds : k <= o
    BY <1>3, <2>1
  <2>3. k <= Config /\ Config <= k /\ k \in Nat /\ Config \in Nat
    BY <1>3, <1>4, <2>2
  <2> QED BY <2>3
<1>6. is_masked(g, n)
  <2>1. g[k][m].t = "null"
    <3> HIDE DEF k, g
    <3> QED BY <1>2, <1>5 DEF NullLink
  <2> QED BY <1>3, <2>1 DEF is_masked
<1>7. [g EXCEPT ![Config][m] = None] = f
  BY <1>1 DEF mask, Fs
<1> QED BY <1>6, <1>7 DEF unmask

\* Mask and unmask are inverse where the configuration directory had no entry.
THEOREM MaskRoundTripCorrect == Spec => []MaskRoundTrip
<1>1. FileInv => MaskRoundTrip
  <2> SUFFICES ASSUME FileInv, NEW n \in Names, fs[Config][NormalizeFileName(n)] = None
               PROVE  is_masked(mask(fs, n), n) /\ unmask(mask(fs, n), n) = fs
    BY DEF MaskRoundTrip
  <2> QED BY MaskAndUnmask DEF FileInv
<1> QED BY <1>1, FileInvariant, PTL

\* What ReloadIsComplete asks of the unit u that a reload made of n.
LoadedRight(f, l, n, u) ==
  LET found == \E d \in Dirs : is_file(f, <<d, n>>) IN
  /\ found /\ Suffix[n] \in Loadable => u.load = "loaded"
  /\ (Suffix[n] # "target" /\ find_unit(f, n) = NoPath) => u.load = "absent"
  /\ (n \in Targets /\ u.load = "loaded" /\ (found \/ n \in Builtin))
       => \A k \in l : k.target = n => k.name \in u.deps

\* load_all does it when the files all parse.
LEMMA LoadAllLoads ==
  ASSUME NEW f, NEW l \in SUBSET LinkRec, ~ListFails(f), NEW n \in Names, n \notin Dropins
  PROVE  LoadedRight(f, l, n, load_all(f, l)[n])
<1> DEFINE found == \E d \in Dirs : is_file(f, <<d, n>>)
           u == load_all(f, l)[n]
           p == find_unit(f, n)
<1>1. u = IF n \in discover_names(f, l) THEN load_unit(f, l, n) ELSE Unloaded
  BY DEF load_all
<1>2. ASSUME found
      PROVE  p # NoPath /\ Resolve(f, p).c.ok
  <2>1. PICK d \in Dirs : /\ FirstDir(f, n) = <<d, n>> /\ is_file(f, <<d, n>>)
                          /\ \A o \in Dirs : is_file(f, <<o, n>>) => d <= o
    BY <1>2, FirstDirIsFirst
  <2>2. <<d, n>> # NoPath
    BY NoPathIsNone DEF Path
  <2>3. p = <<d, n>>
    BY <2>1, <2>2 DEF find_unit
  <2>4. n \in list_names(f, d) /\ \A o \in Dirs : o < d => n \notin list_names(f, o)
    BY <2>1 DEF list_names
  <2> QED BY <2>2, <2>3, <2>4 DEF ListFails
<1>3. ASSUME found, Suffix[n] \in Loadable
      PROVE  u.load = "loaded"
  <2>1. n \in discover_names(f, l)
    <3>1. n \in UNION {list_names(f, d) : d \in Dirs}
      <4>1. PICK d \in Dirs : is_file(f, <<d, n>>)
        BY <1>3
      <4>2. n \in list_names(f, d)
        BY <4>1 DEF list_names
      <4> QED BY <4>2
    <3>2. n \in RepoList(f)
      BY <1>3, <3>1 DEF RepoList
    <3> QED BY <3>2 DEF discover_names
  <2>2. load_unit(f, l, n).load = "loaded"
    BY <1>2, <1>3 DEF load_unit
  <2> QED BY <1>1, <2>1, <2>2
<1>4. ASSUME Suffix[n] # "target", p = NoPath
      PROVE  u.load = "absent"
  BY <1>1, <1>4 DEF load_unit, Unloaded
<1>5. ASSUME n \in Targets, u.load = "loaded", found \/ n \in Builtin, NEW k \in l, k.target = n
      PROVE  k.name \in u.deps
  <2>1. u = load_unit(f, l, n)
    BY <1>1, <1>5 DEF Unloaded
  <2>2. u.deps = UNION {dir_deps(l, n, kd) : kd \in Kinds}
    BY <1>2, <1>5, <2>1 DEF load_unit, Unloaded
  <2>3. k.kind \in Kinds
    BY DEF LinkRec
  <2>4. k.name \in dir_deps(l, n, k.kind)
    BY <1>5 DEF dir_deps
  <2> QED BY <2>2, <2>3, <2>4
<1> QED BY <1>3, <1>4, <1>5 DEF LoadedRight

\* Only a daemon-reload reports itself as one.
LEMMA OnlyReload ==
  ASSUME [Next]_vars, last'.op = "daemon_reload", ops' # ops
  PROVE  DaemonReload
<1>1. \A op, n, out : Did(op, n, out) => last'.op = op
  BY DEF Did
<1>2. ~ UNCHANGED vars
  BY DEF vars
<1>3. \A n \in Names : ~Enable(n) /\ ~Disable(n) /\ ~Reenable(n)
  BY <1>1 DEF Enable, Disable, Reenable
<1>4. \A n \in Names : ~MaskUnits(n) /\ ~UnmaskUnits(n) /\ ~SetDefault(n)
  BY <1>1 DEF MaskUnits, UnmaskUnits, SetDefault
<1>5. \A n \in Names : ~Start(n) /\ ~RestartOrStart(n) /\ ~Stop(n) /\ ~Delete(n)
  BY <1>1 DEF Start, RestartOrStart, Stop, Delete
<1>6. \A n \in Edited, c \in Contents : ~Stage(n, c)
  BY <1>1 DEF Stage
<1>7. ~Written /\ ~Rename /\ ~WriterDies
  BY DEF Written, Rename, WriterDies
<1> QED BY <1>2, <1>3, <1>4, <1>5, <1>6, <1>7 DEF Next, Done

\* A daemon-reload of files that all parse loads every one the search path shows, with
\* the dependencies the links give it, and forgets the services that are gone.
THEOREM ReloadIsCompleteCorrect == Spec => ReloadIsComplete
<1>1. ASSUME FileInv, [Next]_vars, last'.op = "daemon_reload", ops' # ops, ~ListFails(fs),
             NEW n \in Names \ Dropins
      PROVE  LoadedRight(fs, links, n, units'[n])
  <2>1. units' = load_all(fs, links)
    BY <1>1, OnlyReload DEF DaemonReload
  <2>2. links \in SUBSET LinkRec
    BY <1>1 DEF FileInv
  <2>3. LoadedRight(fs, links, n, load_all(fs, links)[n])
    BY <1>1, <2>2, LoadAllLoads
  <2> QED BY <2>1, <2>3
<1>2. FileInv /\ [Next]_vars =>
        [(last'.op = "daemon_reload" /\ ops' # ops /\ ~ListFails(fs)) =>
           \A n \in Names \ Dropins :
             LET found == \E d \in Dirs : is_file(fs, <<d, n>>) IN
             /\ found /\ Suffix[n] \in Loadable => units'[n].load = "loaded"
             /\ (Suffix[n] # "target" /\ find_unit(fs, n) = NoPath) => units'[n].load = "absent"
             /\ (n \in Targets /\ units'[n].load = "loaded" /\ (found \/ n \in Builtin))
                  => \A k \in links : k.target = n => k.name \in units'[n].deps]_vars
  BY <1>1 DEF LoadedRight
<1> QED BY <1>2, FileInvariant, PTL DEF Spec, ReloadIsComplete
=============================================================================
