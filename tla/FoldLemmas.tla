----------------------------- MODULE FoldLemmas -----------------------------
(***************************************************************************)
(* Least and largest numbers of a set, and what a fold over a sequence      *)
(* computes: the function that MapThenFoldSet chooses exists, and what each *)
(* of its steps keeps it keeps.  Induction by a least counterexample.       *)
(***************************************************************************)
EXTENDS Naturals, FiniteSetsExt, NaturalsInduction, WellFoundedInduction, TLAPS

\* A set of naturals has a least element.
LEMMA LeastNatural ==
  ASSUME NEW D \in SUBSET Nat, D # {}
  PROVE  \E k \in D : \A d \in D : k <= d
<1>1. PICK k \in D : \A d \in D : ~(<<d, k>> \in OpToRel(<, Nat))
  BY NatLessThanWellFounded, WFMin
<1>2. \A d \in D : ~(d < k)
  BY <1>1 DEF OpToRel
<1> QED BY <1>2

\* A set of numbers up to n has a largest one.
LEMMA MaxUpTo ==
  ASSUME NEW n \in Nat, NEW T \in SUBSET (1 .. n), T # {}
  PROVE  Max(T) \in T /\ \A y \in T : Max(T) >= y
<1> DEFINE D == {m \in 0 .. n : n - m \in T}
<1>1. D \in SUBSET Nat
  OBVIOUS
<1>2. PICK t \in T : t \in 1 .. n
  OBVIOUS
<1>3. n - t \in D /\ D # {}
  <2>1. n - t \in 0 .. n /\ n - (n - t) = t
    BY <1>2
  <2> QED BY <2>1
<1> HIDE DEF D
<1>4. PICK m \in D : \A d \in D : m <= d
  BY <1>1, <1>3, LeastNatural
<1>5. m \in Nat /\ n - m \in T
  BY <1>4 DEF D
<1>6. \A y \in T : n - m >= y
  <2> SUFFICES ASSUME NEW y \in T
               PROVE  n - m >= y
    OBVIOUS
  <2>1. y \in 1 .. n /\ n - (n - y) = y
    OBVIOUS
  <2>2. n - y \in D
    BY <2>1 DEF D
  <2>3. m <= n - y
    BY <1>4, <2>2
  <2> QED BY <1>5, <2>1, <2>3
<1> QED BY <1>5, <1>6 DEF Max

\* The largest of the numbers up to k, and what is left without the largest.
LEMMA LastUpTo ==
  ASSUME NEW k \in Nat, k # 0
  PROVE  /\ Max(1 .. k) = k /\ (1 .. k) \ {k} = 1 .. k - 1 /\ k \in 1 .. k
         /\ \A s \in SUBSET (1 .. k) : s # {} => s \ {Max(s)} \in SUBSET (1 .. k - 1)
<1>1. k \in 1 .. k
  OBVIOUS
<1>2. Max(1 .. k) \in 1 .. k /\ \A y \in 1 .. k : Max(1 .. k) >= y
  BY <1>1, MaxUpTo
<1>3. Max(1 .. k) = k
  BY <1>1, <1>2
<1>4. (1 .. k) \ {k} = 1 .. k - 1
  OBVIOUS
<1>5. ASSUME NEW s \in SUBSET (1 .. k), s # {}
      PROVE  s \ {Max(s)} \in SUBSET (1 .. k - 1)
  <2>1. PICK m \in s : m = Max(s) /\ \A y \in s : m >= y
    BY <1>5, MaxUpTo
  <2>2. \A y \in s \ {m} : y \in 1 .. k - 1
    BY <2>1
  <2> QED BY <2>1, <2>2
<1> QED BY <1>1, <1>3, <1>4, <1>5

\* What the definition of a fold asks for ...
Folds(h, n, base, step) ==
  \A s \in SUBSET (1 .. n) :
    h[s] = IF s = {} THEN base ELSE step[<<h[s \ {Max(s)}], Max(s)>>]

\* ... exists.
LEMMA FoldExists ==
  ASSUME NEW n \in Nat, NEW A, NEW base \in A, NEW step \in [A \X (1 .. n) -> A]
  PROVE  \E h \in [SUBSET (1 .. n) -> A] : Folds(h, n, base, step)
<1> DEFINE D == {k \in 0 .. n : ~ \E h \in [SUBSET (1 .. k) -> A] : Folds(h, k, base, step)}
<1>1. D \in SUBSET Nat
  OBVIOUS
<1> HIDE DEF D
<1> SUFFICES ASSUME D # {}
             PROVE  FALSE
  <2>1. CASE D = {}
    <3>1. n \in 0 .. n /\ n \notin D
      BY <2>1
    <3> QED BY <3>1 DEF D
  <2> QED BY <2>1
<1>2. PICK k \in D : \A d \in D : k <= d
  BY <1>1, LeastNatural
<1>3. k \in 0 .. n /\ ~ \E h \in [SUBSET (1 .. k) -> A] : Folds(h, k, base, step)
  BY <1>2 DEF D
<1>4. CASE k = 0
  <2> DEFINE h == [s \in SUBSET (1 .. k) |-> base]
  <2>1. \A s \in SUBSET (1 .. k) : s = {}
    BY <1>4
  <2>2. h \in [SUBSET (1 .. k) -> A] /\ Folds(h, k, base, step)
    BY <2>1 DEF Folds
  <2> QED BY <1>3, <2>2
<1>5. CASE k # 0
  <2>1. k \in Nat /\ k - 1 \in 0 .. n /\ k - 1 \notin D
    BY <1>1, <1>2, <1>3, <1>5
  <2>2. PICK g \in [SUBSET (1 .. k - 1) -> A] : Folds(g, k - 1, base, step)
    BY <2>1 DEF D
  <2> DEFINE h == [s \in SUBSET (1 .. k) |->
                     IF s = {} THEN base ELSE step[<<g[s \ {Max(s)}], Max(s)>>]]
  <2>3. \A s \in SUBSET (1 .. k) : s # {} => s \ {Max(s)} \in SUBSET (1 .. k - 1)
    BY <1>5, <2>1, LastUpTo
  <2>4. \A s \in SUBSET (1 .. k) : s # {} => Max(s) \in 1 .. n
    <3> SUFFICES ASSUME NEW s \in SUBSET (1 .. k), s # {}
                 PROVE  Max(s) \in 1 .. n
      OBVIOUS
    <3>1. PICK m \in s : m = Max(s)
      BY <2>1, MaxUpTo
    <3>2. m \in 1 .. k
      BY <3>1
    <3> QED BY <1>3, <3>1, <3>2
  <2>5. (1 .. k - 1) \subseteq (1 .. k)
    BY <2>1
  <2>6. h \in [SUBSET (1 .. k) -> A]
    BY <2>3, <2>4
  <2>7. \A r \in SUBSET (1 .. k - 1) : h[r] = g[r]
    BY <2>2, <2>5 DEF Folds
  <2>8. Folds(h, k, base, step)
    <3> SUFFICES ASSUME NEW s \in SUBSET (1 .. k)
                 PROVE  h[s] = IF s = {} THEN base ELSE step[<<h[s \ {Max(s)}], Max(s)>>]
      BY DEF Folds
    <3>1. s # {} => h[s \ {Max(s)}] = g[s \ {Max(s)}]
      BY <2>3, <2>7
    <3> QED BY <3>1
  <2> QED BY <1>3, <2>6, <2>8
<1> QED BY <1>4, <1>5

\* What each step of a fold keeps, the fold has.
LEMMA FoldKeeps ==
  ASSUME NEW n \in Nat, NEW iter, NEW G,
         iter[{}] \in G[0],
         \A k \in 1 .. n : iter[1 .. k - 1] \in G[k - 1] => iter[1 .. k] \in G[k]
  PROVE  iter[1 .. n] \in G[n]
<1> DEFINE D == {k \in 0 .. n : iter[1 .. k] \notin G[k]}
<1> SUFFICES ASSUME D # {}
             PROVE  FALSE
  OBVIOUS
<1>1. D \in SUBSET Nat
  OBVIOUS
<1> HIDE DEF D
<1>2. PICK k \in D : \A d \in D : k <= d
  BY <1>1, LeastNatural
<1>3. k \in 0 .. n /\ iter[1 .. k] \notin G[k]
  BY <1>2 DEF D
<1>4. CASE k = 0
  <2>1. 1 .. k = {}
    BY <1>4
  <2> QED BY <1>3, <1>4, <2>1
<1>5. CASE k # 0
  <2>1. k \in 1 .. n /\ k - 1 \in 0 .. n
    BY <1>3, <1>5
  <2>2. k - 1 \notin D
    BY <1>2, <1>3, <2>1
  <2>3. iter[1 .. k - 1] \in G[k - 1]
    BY <2>1, <2>2 DEF D
  <2> QED BY <1>3, <2>1, <2>3
<1> QED BY <1>4, <1>5

-----------------------------------------------------------------------------
(* A function that takes a step from one number to the next.               *)

Iterates(h, n, base, step) ==
  \A k \in 0 .. n : h[k] = IF k = 0 THEN base ELSE step[h[k - 1]]

\* It exists.
LEMMA IterateExists ==
  ASSUME NEW n \in Nat, NEW A, NEW base \in A, NEW step \in [A -> A]
  PROVE  \E h \in [0 .. n -> A] : Iterates(h, n, base, step)
<1> DEFINE D == {k \in 0 .. n : ~ \E h \in [0 .. k -> A] : Iterates(h, k, base, step)}
<1> SUFFICES ASSUME D # {}
             PROVE  FALSE
  <2>1. n \in 0 .. n
    OBVIOUS
  <2> QED BY <2>1
<1>1. D \in SUBSET Nat
  OBVIOUS
<1> HIDE DEF D
<1>2. PICK k \in D : \A d \in D : k <= d
  BY <1>1, LeastNatural
<1>3. k \in 0 .. n /\ ~ \E h \in [0 .. k -> A] : Iterates(h, k, base, step)
  BY <1>2 DEF D
<1>4. CASE k = 0
  <2> DEFINE h == [i \in 0 .. k |-> base]
  <2>1. h \in [0 .. k -> A] /\ Iterates(h, k, base, step)
    BY <1>4 DEF Iterates
  <2> QED BY <1>3, <2>1
<1>5. CASE k # 0
  <2>1. k \in Nat /\ k - 1 \in 0 .. n /\ k - 1 \notin D
    BY <1>2, <1>3, <1>5
  <2>2. PICK g \in [0 .. k - 1 -> A] : Iterates(g, k - 1, base, step)
    BY <2>1 DEF D
  <2> DEFINE h == [i \in 0 .. k |-> IF i = 0 THEN base ELSE step[g[i - 1]]]
  <2>3. h \in [0 .. k -> A]
    BY <2>1
  <2>4. \A i \in 0 .. k - 1 : h[i] = g[i]
    BY <2>1, <2>2 DEF Iterates
  <2>5. Iterates(h, k, base, step)
    <3> SUFFICES ASSUME NEW i \in 0 .. k
                 PROVE  h[i] = IF i = 0 THEN base ELSE step[h[i - 1]]
      BY DEF Iterates
    <3>1. i # 0 => h[i - 1] = g[i - 1]
      BY <2>1, <2>4
    <3> QED BY <3>1
  <2> QED BY <1>3, <2>3, <2>5
<1> QED BY <1>4, <1>5

\* What each step keeps, the function has everywhere.
LEMMA IterateKeeps ==
  ASSUME NEW n \in Nat, NEW h, NEW G,
         h[0] \in G, \A k \in 1 .. n : h[k - 1] \in G => h[k] \in G
  PROVE  h[n] \in G
<1> DEFINE D == {k \in 0 .. n : h[k] \notin G}
<1> SUFFICES ASSUME D # {}
             PROVE  FALSE
  OBVIOUS
<1>1. D \in SUBSET Nat
  OBVIOUS
<1>2. PICK k \in D : \A d \in D : k <= d
  BY <1>1, LeastNatural
<1>3. k # 0 /\ k \in 1 .. n /\ k - 1 \in 0 .. n
  BY <1>2
<1>4. k - 1 \notin D
  BY <1>2, <1>3
<1> QED BY <1>2, <1>3, <1>4
=============================================================================
