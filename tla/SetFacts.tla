------------------------------ MODULE SetFacts ------------------------------
(***************************************************************************)
(* Facts about sets of numbers and sums that the proofs share: the least   *)
(* member (a scan that stops at the first match stops at Min of the        *)
(* matches), induction over the numbers, sums over finite sets, and runs   *)
(* through a sequence of sets.                                             *)
(***************************************************************************)
EXTENDS Integers, FiniteSets, FiniteSetsExt, Functions, WellFoundedInduction,
        FiniteSetTheorems, TLAPS

\* A nonempty set of natural numbers has its Min as a member.
LEMMA MinNat == ASSUME NEW S \in SUBSET Nat, S # {}
                PROVE  Min(S) \in S /\ \A y \in S : Min(S) <= y
  <1> DEFINE R == {ss \in Nat \X Nat : ss[1] < ss[2]}
  <1>1. IsWellFoundedOn(R, Nat)
    BY NatLessThanWellFounded DEF OpToRel
  <1>2. \E x \in S : \A y \in S : ~ (<<y, x>> \in R)
    BY <1>1, WFMin, Zenon
  <1>3. \A x, y \in Nat : y < x => <<y, x>> \in R
    OBVIOUS
  <1> HIDE DEF R
  <1>4. PICK x \in S : \A y \in S : ~ (<<y, x>> \in R)
    BY <1>2, Zenon
  <1>5. \A y \in S : x \in Nat /\ y \in Nat /\ ~ (y < x)
    BY <1>3, <1>4, Zenon
  <1>6. \A y \in S : x <= y
    BY <1>5
  <1> QED
    BY <1>6 DEF Min

-----------------------------------------------------------------------------
\* Induction over the numbers, stated of a set: no operator to instantiate.
LEMMA NatSteps == ASSUME NEW S \in SUBSET Nat, 0 \in S, \A n \in S : n + 1 \in S PROVE S = Nat
  <1> SUFFICES ASSUME Nat \ S # {} PROVE FALSE
    OBVIOUS
  <1>1. PICK m : m = Min(Nat \ S)
    OBVIOUS
  <1>2. m \in Nat /\ m \notin S /\ \A y \in Nat \ S : m <= y
    BY <1>1, MinNat
  <1>3. m # 0 /\ m - 1 \in Nat
    BY <1>2
  <1>4. m - 1 \in S
    BY <1>2, <1>3
  <1>5. (m - 1) + 1 = m
    BY <1>2
  <1> QED
    BY <1>2, <1>4, <1>5

-----------------------------------------------------------------------------
(***************************************************************************)
(* Sums over a finite set, as SumFunctionOnSet computes them: an iteration *)
(* that takes an arbitrary element off the set until it is empty.          *)
(***************************************************************************)
\* The element taken off first.
Pick(s) == CHOOSE x \in s : TRUE

\* g iterates f over the subsets of S: the body of MapThenFoldSet.
IsIter(f, S, g) ==
  g = [s \in SUBSET S |-> IF s = {} THEN 0 ELSE f[Pick(s)] + g[s \ {Pick(s)}]]

Iter(f, S) == CHOOSE g : IsIter(f, S, g)

\* The subsets of at most n elements, and an iteration over these alone.
Level(S, n) == {s \in SUBSET S : Cardinality(s) <= n}

IsPart(f, S, n, g) ==
  g = [s \in Level(S, n) |-> IF s = {} THEN 0 ELSE f[Pick(s)] + g[s \ {Pick(s)}]]

\* The chosen element is a member.
LEMMA PickIn == ASSUME NEW s, s # {} PROVE Pick(s) \in s
  BY DEF Pick

\* Taking the chosen element off leaves one element less.
LEMMA Smaller ==
  ASSUME NEW s, IsFiniteSet(s), s # {}
  PROVE  /\ IsFiniteSet(s \ {Pick(s)}) /\ Cardinality(s \ {Pick(s)}) = Cardinality(s) - 1
         /\ Cardinality(s) \in Nat /\ Cardinality(s) >= 1
         /\ Cardinality(s \ {Pick(s)}) \in Nat
  <1>1. Pick(s) \in s
    BY PickIn
  <1>2. Cardinality(s \ {Pick(s)}) = Cardinality(s) - 1 /\ IsFiniteSet(s \ {Pick(s)})
    BY <1>1, FS_RemoveElement
  <1>3. Cardinality(s) \in Nat /\ Cardinality(s \ {Pick(s)}) \in Nat
    BY <1>2, FS_CardinalityType
  <1> QED
    BY <1>2, <1>3

\* The recursive definition of the iteration has a solution.
LEMMA IterIs == ASSUME NEW f, NEW S, IsFiniteSet(S) PROVE IsIter(f, S, Iter(f, S))
  <1> DEFINE N == {n \in Nat : \E g : IsPart(f, S, n, g)}
  <1>1. \A s \in SUBSET S : IsFiniteSet(s) /\ Cardinality(s) \in Nat
    BY FS_Subset, FS_CardinalityType
  <1>2. 0 \in N
    <2>1. PICK g : g = [s \in Level(S, 0) |-> 0]
      OBVIOUS
    <2>2. \A s \in Level(S, 0) : s = {}
      BY <1>1, FS_EmptySet DEF Level
    <2>3. IsPart(f, S, 0, g)
      BY <2>1, <2>2 DEF IsPart
    <2> QED
      BY <2>3
  <1>3. ASSUME NEW n \in N PROVE n + 1 \in N
    <2>1. PICK g : IsPart(f, S, n, g)
      OBVIOUS
    <2>2. PICK h : h = [s \in Level(S, n + 1) |-> IF s = {} THEN 0 ELSE f[Pick(s)] + g[s \ {Pick(s)}]]
      OBVIOUS
    <2>3. ASSUME NEW s \in Level(S, n + 1), s # {} PROVE s \ {Pick(s)} \in Level(S, n)
      <3>1. s \in SUBSET S /\ Cardinality(s) <= n + 1 /\ IsFiniteSet(s) /\ n \in Nat
        BY <1>1 DEF Level
      <3>2. Cardinality(s \ {Pick(s)}) <= n
        BY <2>3, <3>1, Smaller
      <3> QED
        BY <3>1, <3>2 DEF Level
    <2>4. Level(S, n) \subseteq Level(S, n + 1)
      BY <1>1 DEF Level
    <2>5. ASSUME NEW s \in Level(S, n) PROVE h[s] = g[s]
      BY <2>1, <2>2, <2>4 DEF IsPart
    <2>6. ASSUME NEW s \in Level(S, n + 1)
          PROVE  h[s] = IF s = {} THEN 0 ELSE f[Pick(s)] + h[s \ {Pick(s)}]
      BY <2>2, <2>3, <2>5
    <2>7. IsPart(f, S, n + 1, h)
      BY <2>2, <2>6 DEF IsPart
    <2> QED
      BY <2>7
  <1>4. Cardinality(S) \in N
    <2> HIDE DEF N
    <2>1. N \in SUBSET Nat
      BY DEF N
    <2>2. N = Nat
      BY <1>2, <1>3, <2>1, NatSteps
    <2> QED
      BY <1>1, <2>2
  <1>5. PICK g : IsPart(f, S, Cardinality(S), g)
    BY <1>4
  <1>6. Level(S, Cardinality(S)) = SUBSET S
    <2>1. ASSUME NEW s \in SUBSET S PROVE Cardinality(s) <= Cardinality(S)
      BY FS_Subset
    <2> QED
      BY <2>1 DEF Level
  <1>7. IsIter(f, S, g)
    BY <1>5, <1>6 DEF IsPart, IsIter
  <1> QED
    BY <1>7 DEF Iter

\* Two iterations agree where their functions do.
LEMMA IterAgree ==
  ASSUME NEW f, NEW S, NEW g, IsIter(f, S, g), NEW e, NEW T, NEW h, IsIter(e, T, h),
         NEW s, IsFiniteSet(s), s \subseteq S, s \subseteq T, \A x \in s : f[x] = e[x] /\ f[x] \in Int
  PROVE  g[s] = h[s] /\ g[s] \in Int
  <1> DEFINE OK(u) == g[u] = h[u] /\ g[u] \in Int
             N == {n \in Nat : \A u \in SUBSET s : Cardinality(u) = n => OK(u)}
  <1>1. \A u \in SUBSET s : IsFiniteSet(u) /\ Cardinality(u) \in Nat
    BY FS_Subset, FS_CardinalityType
  <1>2. \A u \in SUBSET s : /\ g[u] = IF u = {} THEN 0 ELSE f[Pick(u)] + g[u \ {Pick(u)}]
                            /\ h[u] = IF u = {} THEN 0 ELSE e[Pick(u)] + h[u \ {Pick(u)}]
    BY DEF IsIter
  <1>3. OK({})
    <2>1. g[{}] = 0 /\ h[{}] = 0
      BY <1>2
    <2> QED
      BY <2>1
  <1>4. 0 \in N
    <2>1. \A u \in SUBSET s : Cardinality(u) = 0 => u = {}
      BY <1>1, FS_EmptySet
    <2> HIDE DEF OK
    <2> QED
      BY <1>3, <2>1
  <1>5. ASSUME NEW n \in N PROVE n + 1 \in N
    <2>1. n \in Nat /\ \A u \in SUBSET s : Cardinality(u) = n => OK(u)
      OBVIOUS
    <2>2. ASSUME NEW u \in SUBSET s, Cardinality(u) = n + 1 PROVE OK(u)
      <3>1. IsFiniteSet(u) /\ u # {}
        BY <1>1, <2>1, <2>2, FS_EmptySet
      <3>2. PICK p : p = Pick(u)
        OBVIOUS
      <3>3. PICK v : v = u \ {p}
        OBVIOUS
      <3>4. Cardinality(v) = Cardinality(u) - 1
        BY <3>1, <3>2, <3>3, Smaller
      <3>5. p \in s /\ v \in SUBSET s
        BY <3>1, <3>2, <3>3, PickIn
      <3>6. Cardinality(v) = n
        BY <2>1, <2>2, <3>4
      <3>7. OK(v)
        BY <2>1, <3>5, <3>6
      <3>8. g[u] = f[p] + g[v] /\ h[u] = e[p] + h[v]
        BY <1>2, <3>1, <3>2, <3>3
      <3>9. f[p] = e[p] /\ f[p] \in Int
        BY <3>5
      <3> QED
        BY <3>7, <3>8, <3>9
    <2> HIDE DEF OK
    <2> QED
      BY <2>1, <2>2
  <1>6. Cardinality(s) \in N
    <2> HIDE DEF N
    <2>1. N \in SUBSET Nat
      BY DEF N
    <2>2. N = Nat
      BY <1>4, <1>5, <2>1, NatSteps
    <2> QED
      BY <1>1, <2>2
  <1> QED
    BY <1>6

\* The sum is the iteration's value at the whole set.
LEMMA SumIter == ASSUME NEW f, NEW S PROVE SumFunctionOnSet(f, S) = Iter(f, S)[S]
  BY DEF SumFunctionOnSet, FoldFunctionOnSet, MapThenFoldSet, Iter, IsIter, Pick

\* The sum over no element.
LEMMA SumEmpty == ASSUME NEW f PROVE SumFunctionOnSet(f, {}) = 0
  <1>1. IsIter(f, {}, Iter(f, {}))
    BY IterIs, FS_EmptySet
  <1>2. Iter(f, {})[{}] = 0
    BY <1>1 DEF IsIter
  <1> QED
    BY <1>2, SumIter

\* The sum depends on the values at the members only, and is an integer.
LEMMA SumSame ==
  ASSUME NEW S, IsFiniteSet(S), NEW f, NEW e, \A x \in S : f[x] = e[x] /\ f[x] \in Int
  PROVE  SumFunctionOnSet(f, S) = SumFunctionOnSet(e, S) /\ SumFunctionOnSet(f, S) \in Int
  <1>1. IsIter(f, S, Iter(f, S)) /\ IsIter(e, S, Iter(e, S))
    BY IterIs
  <1>2. Iter(f, S)[S] = Iter(e, S)[S] /\ Iter(f, S)[S] \in Int
    BY <1>1, IterAgree
  <1> QED
    BY <1>2, SumIter

\* Which element is taken off first does not matter.
LEMMA IterAdd ==
  ASSUME NEW f, NEW S, IsFiniteSet(S), NEW g, IsIter(f, S, g), \A x \in S : f[x] \in Int,
         NEW o \in S
  PROVE  g[S] = f[o] + g[S \ {o}]
  <1> DEFINE OK(u) == \A y \in u : g[u] = f[y] + g[u \ {y}]
             N == {n \in Nat : \A u \in SUBSET S : Cardinality(u) = n => OK(u)}
  <1>1. \A u \in SUBSET S : IsFiniteSet(u) /\ Cardinality(u) \in Nat
    BY FS_Subset, FS_CardinalityType
  <1>2. \A u \in SUBSET S : g[u] = IF u = {} THEN 0 ELSE f[Pick(u)] + g[u \ {Pick(u)}]
    BY DEF IsIter
  <1>3. \A u \in SUBSET S : g[u] \in Int
    <2> SUFFICES ASSUME NEW u \in SUBSET S PROVE g[u] \in Int
      OBVIOUS
    <2>1. \A x \in u : f[x] = f[x] /\ f[x] \in Int
      OBVIOUS
    <2> QED
      BY <1>1, <2>1, IterAgree
  <1>4. 0 \in N
    <2>1. \A u \in SUBSET S : Cardinality(u) = 0 => u = {}
      BY <1>1, FS_EmptySet
    <2>2. OK({})
      OBVIOUS
    <2> HIDE DEF OK
    <2> QED
      BY <2>1, <2>2
  <1>5. ASSUME NEW n \in N PROVE n + 1 \in N
    <2>1. n \in Nat /\ \A u \in SUBSET S : Cardinality(u) = n => OK(u)
      OBVIOUS
    <2>2. ASSUME NEW u \in SUBSET S, Cardinality(u) = n + 1, NEW y \in u
          PROVE  g[u] = f[y] + g[u \ {y}]
      <3>1. IsFiniteSet(u) /\ u # {}
        BY <1>1
      <3>2. PICK p : p = Pick(u)
        OBVIOUS
      <3>3. p \in u
        BY <3>1, <3>2, PickIn
      <3>4. PICK v : v = u \ {p}
        OBVIOUS
      <3>5. PICK w : w = u \ {y}
        OBVIOUS
      <3>6. g[u] = f[p] + g[v]
        BY <1>2, <3>1, <3>2, <3>4
      <3>7. CASE p = y
        BY <3>4, <3>6, <3>7
      <3>8. CASE p # y
        <4>1. Cardinality(v) = Cardinality(u) - 1 /\ Cardinality(w) = Cardinality(u) - 1
          BY <3>1, <3>3, <3>4, <3>5, FS_RemoveElement
        <4>2. Cardinality(v) = n /\ Cardinality(w) = n
          BY <2>1, <2>2, <4>1
        <4>3. v \in SUBSET S /\ w \in SUBSET S /\ y \in v /\ p \in w
          BY <3>3, <3>4, <3>5, <3>8
        <4>4. OK(v) /\ OK(w)
          BY <2>1, <4>2, <4>3
        <4>5. PICK z : z = v \ {y}
          OBVIOUS
        <4>6. w \ {p} = z /\ z \in SUBSET S
          BY <3>4, <3>5, <4>3, <4>5
        <4>7. g[v] = f[y] + g[z] /\ g[w] = f[p] + g[z]
          BY <4>3, <4>4, <4>5, <4>6
        <4>8. f[y] \in Int /\ f[p] \in Int /\ g[z] \in Int
          BY <1>3, <3>3, <4>6
        <4> QED
          BY <3>5, <3>6, <4>7, <4>8
      <3> QED
        BY <3>7, <3>8
    <2>3. ASSUME NEW u \in SUBSET S, Cardinality(u) = n + 1 PROVE OK(u)
      BY <2>2, <2>3
    <2> HIDE DEF OK
    <2> QED
      BY <2>1, <2>3
  <1>6. N = Nat
    <2> HIDE DEF N
    <2>1. N \in SUBSET Nat
      BY DEF N
    <2> QED
      BY <1>4, <1>5, <2>1, NatSteps
  <1>7. ASSUME NEW u \in SUBSET S PROVE OK(u)
    <2>1. Cardinality(u) \in N
      BY <1>1, <1>6
    <2> HIDE DEF OK
    <2> QED
      BY <2>1
  <1> QED
    BY <1>7

\* One element more.
LEMMA SumAdd ==
  ASSUME NEW S, IsFiniteSet(S), NEW y, y \notin S, NEW f, \A x \in S \cup {y} : f[x] \in Int
  PROVE  SumFunctionOnSet(f, S \cup {y}) = f[y] + SumFunctionOnSet(f, S)
  <1>1. PICK T : T = S \cup {y}
    OBVIOUS
  <1>2. IsFiniteSet(T) /\ S \subseteq T /\ y \in T /\ T \ {y} = S
    BY <1>1, FS_AddElement
  <1>3. PICK g : g = Iter(f, T) /\ IsIter(f, T, g)
    BY <1>2, IterIs
  <1>4. PICK h : h = Iter(f, S) /\ IsIter(f, S, h)
    BY IterIs
  <1>5. g[T] = f[y] + g[S]
    <2>1. IsFiniteSet(T) /\ IsIter(f, T, g) /\ \A x \in T : f[x] \in Int
      BY <1>1, <1>2, <1>3
    <2>2. g[T] = f[y] + g[T \ {y}]
      BY <1>2, <2>1, IterAdd
    <2> QED
      BY <1>2, <2>2
  <1>6. g[S] = h[S]
    <2>1. \A x \in S : f[x] = f[x] /\ f[x] \in Int
      OBVIOUS
    <2>2. S \subseteq T /\ S \subseteq S /\ IsIter(f, T, g) /\ IsIter(f, S, h)
      BY <1>2, <1>3, <1>4
    <2> QED
      BY <2>1, <2>2, IterAgree
  <1>7. SumFunctionOnSet(f, T) = g[T] /\ SumFunctionOnSet(f, S) = h[S]
    BY <1>3, <1>4, SumIter
  <1> QED
    BY <1>1, <1>5, <1>6, <1>7

\* One element less.
LEMMA SumRemove ==
  ASSUME NEW S, IsFiniteSet(S), NEW y \in S, NEW f, \A x \in S : f[x] \in Int
  PROVE  SumFunctionOnSet(f, S \ {y}) = SumFunctionOnSet(f, S) - f[y]
  <1>1. PICK T : T = S \ {y}
    OBVIOUS
  <1>2. IsFiniteSet(T) /\ y \notin T /\ T \cup {y} = S /\ f[y] \in Int
    BY <1>1, FS_RemoveElement
  <1>3. SumFunctionOnSet(f, S) = f[y] + SumFunctionOnSet(f, T)
    BY <1>2, SumAdd
  <1>4. SumFunctionOnSet(f, T) \in Int
    BY <1>1, <1>2, SumSame
  <1> QED
    BY <1>1, <1>2, <1>3, <1>4

\* Naturals add up to a natural.
LEMMA SumNat ==
  ASSUME NEW S, IsFiniteSet(S), NEW f, \A x \in S : f[x] \in Nat
  PROVE  SumFunctionOnSet(f, S) \in Nat
  <1> DEFINE OK(u) == SumFunctionOnSet(f, u) \in Nat
             N == {n \in Nat : \A u \in SUBSET S : Cardinality(u) = n => OK(u)}
  <1>1. \A u \in SUBSET S : IsFiniteSet(u) /\ Cardinality(u) \in Nat
    BY FS_Subset, FS_CardinalityType
  <1>2. 0 \in N
    <2>1. \A u \in SUBSET S : Cardinality(u) = 0 => u = {}
      BY <1>1, FS_EmptySet
    <2>2. OK({})
      BY SumEmpty
    <2> HIDE DEF OK
    <2> QED
      BY <2>1, <2>2
  <1>3. ASSUME NEW n \in N PROVE n + 1 \in N
    <2>1. n \in Nat /\ \A u \in SUBSET S : Cardinality(u) = n => OK(u)
      OBVIOUS
    <2>2. ASSUME NEW u \in SUBSET S, Cardinality(u) = n + 1 PROVE OK(u)
      <3>1. IsFiniteSet(u) /\ u # {}
        BY <1>1, <2>1, <2>2, FS_EmptySet
      <3>2. PICK y : y \in u
        BY <3>1
      <3>3. PICK v : v = u \ {y}
        OBVIOUS
      <3>4. v \in SUBSET S /\ Cardinality(v) = Cardinality(u) - 1
        BY <3>1, <3>2, <3>3, FS_RemoveElement
      <3>5. OK(v)
        BY <2>1, <2>2, <3>4
      <3>6. f[y] \in Nat /\ \A x \in u : f[x] \in Int
        BY <3>2
      <3>7. SumFunctionOnSet(f, v) = SumFunctionOnSet(f, u) - f[y]
        BY <3>1, <3>2, <3>3, <3>6, SumRemove
      <3>8. SumFunctionOnSet(f, u) \in Int
        BY <3>1, <3>6, SumSame
      <3> QED
        BY <3>5, <3>6, <3>7, <3>8
    <2> HIDE DEF OK
    <2> QED
      BY <2>1, <2>2
  <1>4. Cardinality(S) \in N
    <2> HIDE DEF N
    <2>1. N \in SUBSET Nat
      BY DEF N
    <2>2. N = Nat
      BY <1>2, <1>3, <2>1, NatSteps
    <2> QED
      BY <1>1, <2>2
  <1> QED
    BY <1>4

\* No term of a sum of naturals exceeds the sum.
LEMMA SumTerm ==
  ASSUME NEW S, IsFiniteSet(S), NEW f, \A x \in S : f[x] \in Nat, NEW y \in S
  PROVE  f[y] <= SumFunctionOnSet(f, S)
  <1>1. PICK v : v = S \ {y}
    OBVIOUS
  <1>2. IsFiniteSet(v) /\ \A x \in v : f[x] \in Nat
    BY <1>1, FS_RemoveElement
  <1>3. SumFunctionOnSet(f, v) \in Nat /\ SumFunctionOnSet(f, S) \in Nat
    BY <1>2, SumNat
  <1>4. SumFunctionOnSet(f, v) = SumFunctionOnSet(f, S) - f[y]
    <2>1. \A x \in S : f[x] \in Int
      OBVIOUS
    <2> QED
      BY <1>1, <2>1, SumRemove
  <1> QED
    BY <1>3, <1>4

\* Recursion over the numbers up to n: a step function that stays in D has a
\* run from every start in D.
StaysIn(D, n, G) == \A k \in 1..n : \A x \in D : G[k][x] \in D
IsRun(D, b, n, G, f) ==
  f \in [0..n -> D] /\ f[0] = b /\ \A k \in 1..n : f[k] = G[k][f[k - 1]]

LEMMA NatRun ==
  ASSUME NEW D, NEW b \in D, NEW n \in Nat, NEW G, StaysIn(D, n, G)
  PROVE  \E f : IsRun(D, b, n, G, f)
  <1>0. \A k \in 1..n : \A x \in D : G[k][x] \in D
    BY DEF StaysIn
  <1> DEFINE Run(m, f) == f \in [0..m -> D] /\ f[0] = b /\ \A k \in 1..m : f[k] = G[k][f[k - 1]]
             N == {m \in Nat : m <= n => \E f : Run(m, f)}
  <1>1. 0 \in N
    <2>1. PICK f : f = [i \in 0..0 |-> b]
      OBVIOUS
    <2>2. Run(0, f)
      BY <2>1
    <2> QED
      BY <2>2
  <1>2. ASSUME NEW m \in N PROVE m + 1 \in N
    <2>1. m \in Nat
      OBVIOUS
    <2>2. ASSUME m + 1 <= n PROVE \E f : Run(m + 1, f)
      <3>1. m <= n
        BY <2>1, <2>2
      <3>2. PICK f : Run(m, f)
        BY <3>1
      <3>3. f \in [0..m -> D] /\ f[0] = b /\ \A k \in 1..m : f[k] = G[k][f[k - 1]]
        BY <3>2
      <3>4. PICK y : y = G[m + 1][f[m]]
        OBVIOUS
      <3>5. y \in D
        <4>1. m + 1 \in 1..n /\ f[m] \in D
          BY <2>1, <2>2, <3>3
        <4> QED
          BY <1>0, <3>4, <4>1
      <3>6. PICK g : g = [i \in 0..(m + 1) |-> IF i = m + 1 THEN y ELSE f[i]]
        OBVIOUS
      <3>7. g \in [0..(m + 1) -> D] /\ g[0] = b
        BY <2>1, <3>3, <3>5, <3>6
      <3>8. ASSUME NEW k \in 1..(m + 1) PROVE g[k] = G[k][g[k - 1]]
        <4>1. k - 1 \in 0..m /\ g[k - 1] = f[k - 1]
          BY <2>1, <3>6
        <4>2. CASE k = m + 1
          <5>1. g[k] = y /\ k - 1 = m
            BY <2>1, <3>6, <4>2
          <5> QED
            BY <3>4, <4>1, <4>2, <5>1
        <4>3. CASE k # m + 1
          <5>1. k \in 1..m /\ g[k] = f[k]
            BY <2>1, <3>6, <4>3
          <5> QED
            BY <3>3, <4>1, <5>1
        <4> QED
          BY <4>2, <4>3
      <3> QED
        BY <3>7, <3>8
    <2> QED
      BY <2>1, <2>2
  <1>3. N = Nat
    <2> HIDE DEF N
    <2>1. N \in SUBSET Nat
      BY DEF N
    <2> QED
      BY <1>1, <1>2, <2>1, NatSteps
  <1>4. \E f : Run(n, f)
    <2>1. n \in N
      BY <1>3
    <2> QED
      BY <2>1
  <1> QED
    BY <1>4 DEF IsRun
=============================================================================
