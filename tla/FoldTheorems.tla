---------------------------- MODULE FoldTheorems ----------------------------
(***************************************************************************)
(* Induction and recursion for the other proofs, over numbers and finite   *)
(* sets, stated of sets and functions: an operator cannot be a theorem's   *)
(* parameter. With them what a recursive function, a fold or a sum is, for *)
(* all arguments, follows from its steps.                                  *)
(***************************************************************************)
EXTENDS Integers, FiniteSetsExt, SequencesExt, FiniteSetTheorems, SequenceTheorems,
        WellFoundedInduction, TLAPS

SumOf(w, S) == MapThenSumSet(LAMBDA x : w[x], S)

-----------------------------------------------------------------------------
(* Induction and recursion over numbers.                                     *)

\* A set of numbers has a least one.
LEMMA Smallest == ASSUME NEW T \in SUBSET Nat, T # {} PROVE \E m \in T : \A k \in T : m <= k
  <1> DEFINE Smaller == {p \in Nat \X Nat : p[1] < p[2]}
  <1>1. IsWellFoundedOn(Smaller, Nat) BY NatLessThanWellFounded DEF OpToRel
  <1>2. PICK x \in T : \A y \in T : <<y, x>> \notin Smaller
    <2> HIDE DEF Smaller
    <2> QED BY <1>1, WFMin
  <1>3. ASSUME NEW y \in T PROVE x <= y
    <2>1. x \in Nat /\ y \in Nat OBVIOUS
    <2>2. <<y, x>> \notin Smaller BY <1>2
    <2> QED BY <2>1, <2>2
  <1> QED BY <1>3

\* Induction, stated of sets.
LEMMA Counting ==
    ASSUME NEW T, 0 \in T, \A n \in Nat : n \in T => n + 1 \in T PROVE Nat \subseteq T
  <1> SUFFICES ASSUME Nat \ T # {} PROVE FALSE OBVIOUS
  <1>1. PICK m \in Nat \ T : \A k \in Nat \ T : m <= k BY Smallest
  <1>2. m # 0 /\ m - 1 \in Nat BY <1>1
  <1>3. m - 1 \in T BY <1>1, <1>2
  <1> QED BY <1>1, <1>2, <1>3

\* A function defined by recursion up to n exists.
StepFunctions(n, V) == [1 .. n -> [V -> V]]
Computes(f, v, G, n) == f[0] = v /\ \A i \in 1 .. n : f[i] = G[i][f[i - 1]]
LEMMA Recursion ==
    ASSUME NEW n \in Nat, NEW V, NEW v \in V, NEW G \in StepFunctions(n, V)
    PROVE  \E f \in [0 .. n -> V] : Computes(f, v, G, n)
  <1> DEFINE T == {k \in Nat : k <= n => \E f \in [0 .. k -> V] : Computes(f, v, G, k)}
  <1>1. 0 \in T
    <2>1. /\ [i \in 0 .. 0 |-> v] \in [0 .. 0 -> V]
          /\ Computes([i \in 0 .. 0 |-> v], v, G, 0)
      BY DEF Computes
    <2> QED BY <2>1
  <1>2. ASSUME NEW k \in Nat, k \in T PROVE k + 1 \in T
    <2> SUFFICES ASSUME k + 1 <= n
                 PROVE  \E f \in [0 .. k + 1 -> V] : Computes(f, v, G, k + 1)
      OBVIOUS
    <2>1. PICK f \in [0 .. k -> V] : Computes(f, v, G, k) BY <1>2
    <2> DEFINE h == [i \in 0 .. k + 1 |-> IF i = k + 1 THEN G[k + 1][f[k]] ELSE f[i]]
    <2>2. h \in [0 .. k + 1 -> V] BY <2>1 DEF StepFunctions
    <2>3. ASSUME NEW i \in 1 .. k + 1 PROVE h[i] = G[i][h[i - 1]]
      <3>1. CASE i = k + 1 BY <3>1
      <3>2. CASE i \in 1 .. k BY <3>2, <2>1 DEF Computes
      <3> QED BY <3>1, <3>2
    <2>4. h[0] = v BY <2>1 DEF Computes
    <2> HIDE DEF h
    <2> QED BY <2>2, <2>3, <2>4 DEF Computes
  <1>3. Nat \subseteq T
    <2> HIDE DEF T
    <2> QED BY <1>1, <1>2, Counting
  <1> QED BY <1>3

LEMMA ToSetAppend ==
    ASSUME NEW V, NEW q \in Seq(V), NEW x \in V PROVE ToSet(Append(q, x)) = ToSet(q) \cup {x}
  <1> DEFINE a == Append(q, x)
  <1>1. /\ Len(a) = Len(q) + 1 /\ a[Len(q) + 1] = x /\ \A i \in 1 .. Len(q) : a[i] = q[i]
        /\ a \in Seq(V) /\ Len(q) \in Nat
    BY AppendProperties
  <1> HIDE DEF a
  <1>2. DOMAIN a = 1 .. Len(q) + 1 /\ DOMAIN q = 1 .. Len(q) BY <1>1
  <1>3. {a[i] : i \in 1 .. Len(q) + 1} = {q[i] : i \in 1 .. Len(q)} \cup {x} BY <1>1
  <1>4. ToSet(a) = ToSet(q) \cup {x} BY <1>2, <1>3 DEF ToSet
  <1> QED BY <1>4 DEF a

LEMMA ToSetConcat ==
    ASSUME NEW V, NEW q \in Seq(V), NEW r \in Seq(V) PROVE ToSet(q \o r) = ToSet(q) \cup ToSet(r)
  <1> DEFINE a == q \o r
  <1>1. /\ a \in Seq(V) /\ Len(a) = Len(q) + Len(r) /\ Len(q) \in Nat /\ Len(r) \in Nat
        /\ \A i \in 1 .. Len(q) : a[i] = q[i]
        /\ \A i \in 1 .. Len(r) : a[Len(q) + i] = r[i]
    BY ConcatProperties
  <1> HIDE DEF a
  <1>2. DOMAIN a = 1 .. Len(q) + Len(r) /\ DOMAIN q = 1 .. Len(q) /\ DOMAIN r = 1 .. Len(r) BY <1>1
  <1>3. ASSUME NEW i \in DOMAIN a PROVE a[i] \in ToSet(q) \cup ToSet(r)
    <2>1. CASE i \in 1 .. Len(q) BY <1>1, <1>2, <2>1 DEF ToSet
    <2>2. CASE i \notin 1 .. Len(q)
      <3>1. i - Len(q) \in 1 .. Len(r) /\ i = Len(q) + (i - Len(q)) BY <1>1, <1>2, <2>2
      <3>2. a[i] = r[i - Len(q)] BY <3>1, <1>1
      <3> QED BY <3>1, <3>2, <1>2 DEF ToSet
    <2> QED BY <2>1, <2>2
  <1>4. \A i \in DOMAIN q : q[i] \in ToSet(a) BY <1>1, <1>2 DEF ToSet
  <1>5. ASSUME NEW i \in DOMAIN r PROVE r[i] \in ToSet(a)
    <2>1. Len(q) + i \in DOMAIN a /\ a[Len(q) + i] = r[i] BY <1>1, <1>2
    <2> QED BY <2>1 DEF ToSet
  <1>6. ToSet(a) = ToSet(q) \cup ToSet(r) BY <1>3, <1>4, <1>5 DEF ToSet
  <1> QED BY <1>6 DEF a

-----------------------------------------------------------------------------
(* Folds: FoldLeft takes the largest of a set of indices out and folds the rest. *)

LEMMA LargestUpTo == \A k \in Nat : \A s \in SUBSET (1 .. k + 1) : k + 1 \in s => Max(s) = k + 1
  <1> SUFFICES ASSUME NEW k \in Nat, NEW s \in SUBSET (1 .. k + 1), k + 1 \in s PROVE Max(s) = k + 1
    OBVIOUS
  <1>1. \A y \in s : k + 1 >= y  OBVIOUS
  <1>2. \A m \in s : (\A y \in s : m >= y) => m = k + 1  OBVIOUS
  <1> QED BY <1>1, <1>2 DEF Max

\* The function a fold is defined by exists: G gives its steps.
FoldsBy(f, v, G, n) ==
    /\ f[{}] = v
    /\ \A s \in SUBSET (1 .. n) : s # {} => Max(s) \in s /\ f[s] = G[Max(s)][f[s \ {Max(s)}]]

LEMMA FoldExists ==
    ASSUME NEW n \in Nat, NEW V, NEW v \in V, NEW G \in [1 .. n -> [V -> V]]
    PROVE  \E f \in [SUBSET (1 .. n) -> V] : FoldsBy(f, v, G, n)
  <1> DEFINE P(k) == \E f \in [SUBSET (1 .. k) -> V] : FoldsBy(f, v, G, k)
             T == {k \in Nat : k <= n => P(k)}
  <1>1. P(0)
    <2> DEFINE f == [s \in SUBSET (1 .. 0) |-> v]
    <2>1. f \in [SUBSET (1 .. 0) -> V] /\ f[{}] = v  OBVIOUS
    <2>2. \A s \in SUBSET (1 .. 0) : s = {}  OBVIOUS
    <2> HIDE DEF f
    <2>3. FoldsBy(f, v, G, 0)  BY <2>1, <2>2 DEF FoldsBy
    <2> QED BY <2>1, <2>3
  <1>2. ASSUME NEW k \in Nat, k + 1 <= n, P(k) PROVE P(k + 1)
    <2>1. PICK f \in [SUBSET (1 .. k) -> V] : FoldsBy(f, v, G, k)  BY <1>2
    <2> DEFINE h == [s \in SUBSET (1 .. k + 1) |->
                       IF k + 1 \in s THEN G[k + 1][f[s \ {k + 1}]] ELSE f[s]]
    <2>2. \A s \in SUBSET (1 .. k + 1) :
             /\ s \ {k + 1} \in SUBSET (1 .. k)
             /\ k + 1 \notin s => s \in SUBSET (1 .. k) /\ s \ {k + 1} = s
             /\ k + 1 \notin s \ {k + 1} /\ s \ {k + 1} \in SUBSET (1 .. k + 1)
      OBVIOUS
    <2>3. k + 1 \in 1 .. n /\ G[k + 1] \in [V -> V]  BY <1>2
    <2>4. h \in [SUBSET (1 .. k + 1) -> V]  BY <2>1, <2>2, <2>3
    <2>5. h[{}] = v  BY <2>1 DEF FoldsBy
    <2>6. ASSUME NEW s \in SUBSET (1 .. k + 1), s # {}
          PROVE  Max(s) \in s /\ h[s] = G[Max(s)][h[s \ {Max(s)}]]
      <3>1. CASE k + 1 \in s
        <4>1. Max(s) = k + 1  BY <3>1, LargestUpTo
        <4>2. h[s] = G[k + 1][f[s \ {k + 1}]]  BY <3>1
        <4>3. h[s \ {k + 1}] = f[s \ {k + 1}]  BY <2>2
        <4> QED BY <3>1, <4>1, <4>2, <4>3
      <3>2. CASE k + 1 \notin s
        <4>1. s \in SUBSET (1 .. k)  BY <2>2, <3>2
        <4>2. Max(s) \in s /\ f[s] = G[Max(s)][f[s \ {Max(s)}]]  BY <2>1, <2>6, <4>1 DEF FoldsBy
        <4>3. h[s] = f[s]  BY <3>2
        <4>4. k + 1 \notin s \ {Max(s)} /\ s \ {Max(s)} \in SUBSET (1 .. k + 1)  BY <3>2
        <4>5. h[s \ {Max(s)}] = f[s \ {Max(s)}]  BY <4>4
        <4> QED BY <4>2, <4>3, <4>5
      <3> QED BY <3>1, <3>2
    <2> HIDE DEF h
    <2>7. FoldsBy(h, v, G, k + 1)  BY <2>5, <2>6 DEF FoldsBy
    <2> QED BY <2>4, <2>7
  <1> HIDE DEF P
  <1>3. 0 \in T  BY <1>1
  <1>4. \A k \in Nat : k \in T => k + 1 \in T  BY <1>2
  <1>5. Nat \subseteq T
    <2> HIDE DEF T
    <2> QED BY <1>3, <1>4, Counting
  <1>6. P(n)  BY <1>5
  <1> QED BY <1>6 DEF P

-----------------------------------------------------------------------------
(* Sums over finite sets.                                                    *)

\* Induction over the subsets of a finite set, stated of sets of sets.
LEMMA FiniteInduction ==
    ASSUME NEW S, IsFiniteSet(S), NEW T,
           \A s \in SUBSET S : (\A u \in SUBSET s : u # s => u \in T) => s \in T
    PROVE  SUBSET S \subseteq T
  <1> SUFFICES ASSUME (SUBSET S) \ T # {} PROVE FALSE  OBVIOUS
  <1>1. IsWellFoundedOn(StrictSubsetOrdering(S), SUBSET S)
    <2>1. IsWellFoundedOn(StrictSubsetOrdering(S), FiniteSubsetsOf(S))
      BY FS_StrictSubsetOrderingWellFounded
    <2>2. FiniteSubsetsOf(S) = SUBSET S
      BY FS_FiniteSubsetsOfFinite
    <2> QED BY <2>1, <2>2
  <1> DEFINE Smaller == StrictSubsetOrdering(S)
             B == (SUBSET S) \ T
  <1>2. PICK m \in B : \A u \in B : <<u, m>> \notin Smaller
    <2>1. IsWellFoundedOn(Smaller, SUBSET S) /\ B \subseteq SUBSET S /\ B # {}
      BY <1>1
    <2> HIDE DEF Smaller, B
    <2> QED BY <2>1, WFMin
  <1>3. ASSUME NEW u \in SUBSET m, u # m PROVE u \in T
    BY <1>2, <1>3 DEF StrictSubsetOrdering
  <1> QED BY <1>2, <1>3

\* What the fold computes for each subset, whichever element it takes first.
Sums(f, w, S) ==
    /\ f \in [SUBSET S -> Nat] /\ f[{}] = 0
    /\ \A s \in SUBSET S : \A x \in s : f[s] = w[x] + f[s \ {x}]

LEMMA SumsExist ==
    ASSUME NEW S, IsFiniteSet(S), NEW w, \A x \in S : w[x] \in Nat
    PROVE  \E f : Sums(f, w, S)
  <1> DEFINE T == {s \in SUBSET S : \E f : Sums(f, w, s)}
  <1>1. ASSUME NEW s \in SUBSET S, \A u \in SUBSET s : u # s => u \in T PROVE s \in T
    <2>1. CASE s = {}
      <3>1. Sums([u \in SUBSET {} |-> 0], w, {})  BY DEF Sums
      <3> QED BY <2>1, <3>1
    <2>2. ASSUME NEW x \in s PROVE \E f : Sums(f, w, s)
      <3> DEFINE r == s \ {x}
      <3>1. r \in T  BY <1>1
      <3>2. PICK f : Sums(f, w, r)  BY <3>1
      <3> DEFINE h == [u \in SUBSET s |-> IF x \in u THEN w[x] + f[u \ {x}] ELSE f[u]]
      <3>3. \A u \in SUBSET s : u \ {x} \in SUBSET r /\ (x \notin u => u \in SUBSET r)  OBVIOUS
      <3>4. f \in [SUBSET r -> Nat] /\ f[{}] = 0 /\ w[x] \in Nat  BY <3>2 DEF Sums
      <3> HIDE DEF r
      <3>5. h \in [SUBSET s -> Nat] /\ h[{}] = 0  BY <3>3, <3>4
      <3>6. ASSUME NEW u \in SUBSET s, NEW y \in u PROVE h[u] = w[y] + h[u \ {y}]
        <4>1. CASE y = x
          <5>1. h[u] = w[x] + f[u \ {x}] /\ h[u \ {x}] = f[u \ {x}]  BY <4>1
          <5> QED BY <4>1, <5>1
        <4>2. CASE y # x /\ x \in u
          <5>1. h[u] = w[x] + f[u \ {x}] /\ h[u \ {y}] = w[x] + f[(u \ {y}) \ {x}]  BY <4>2
          <5>2. f[u \ {x}] = w[y] + f[(u \ {x}) \ {y}]  BY <3>2, <3>3, <4>2 DEF Sums
          <5>3. (u \ {x}) \ {y} = (u \ {y}) \ {x}  OBVIOUS
          <5>4. f[(u \ {y}) \ {x}] \in Nat /\ w[y] \in Nat
            <6>1. (u \ {y}) \ {x} \in SUBSET r  BY <3>3
            <6> QED BY <3>4, <6>1
          <5> DEFINE rest == f[(u \ {y}) \ {x}]
          <5>5. h[u] = w[x] + (w[y] + rest) /\ h[u \ {y}] = w[x] + rest  BY <5>1, <5>2, <5>3
          <5> HIDE DEF h, T, rest
          <5>6. w[x] + (w[y] + rest) = w[y] + (w[x] + rest)  BY <3>4, <5>4 DEF rest
          <5> QED BY <5>5, <5>6
        <4>3. CASE x \notin u
          <5>1. h[u] = f[u] /\ h[u \ {y}] = f[u \ {y}]  BY <4>3
          <5>2. f[u] = w[y] + f[u \ {y}]  BY <3>2, <3>3, <4>3 DEF Sums
          <5> QED BY <5>1, <5>2
        <4> QED BY <4>1, <4>2, <4>3
      <3> HIDE DEF h
      <3>7. Sums(h, w, s)  BY <3>5, <3>6 DEF Sums
      <3> QED BY <3>7
    <2> QED BY <2>1, <2>2
  <1>2. SUBSET S \subseteq T
    <2> HIDE DEF T
    <2> QED BY <1>1, FiniteInduction
  <1> QED BY <1>2

LEMMA SumIsFunction ==
    ASSUME NEW S, IsFiniteSet(S), NEW w, \A x \in S : w[x] \in Nat, NEW f, Sums(f, w, S)
    PROVE  SumOf(w, S) = f[S]
  <1> DEFINE some(s) == CHOOSE x \in s : TRUE
             E(g) == g = [s \in SUBSET S |-> IF s = {} THEN 0 ELSE w[some(s)] + g[s \ {some(s)}]]
  <1>1. \A s : s # {} => some(s) \in s  OBVIOUS
  <1> HIDE DEF some
  <1>2. E(f)
    <2>1. f = [s \in SUBSET S |-> f[s]]  BY DEF Sums
    <2>2. ASSUME NEW s \in SUBSET S PROVE f[s] = IF s = {} THEN 0 ELSE w[some(s)] + f[s \ {some(s)}]
      BY <1>1 DEF Sums
    <2> QED BY <2>1, <2>2
  <1>3. E(CHOOSE g : E(g))
    <2> HIDE DEF E
    <2> QED BY <1>2, Zenon
  <1> DEFINE g == CHOOSE h : E(h)
  <1>4. SumOf(w, S) = g[S]  BY DEF SumOf, MapThenSumSet, MapThenFoldSet, some
  <1>5. \A s \in SUBSET S : g[s] = IF s = {} THEN 0 ELSE w[some(s)] + g[s \ {some(s)}]
    <2>1. g = [s \in SUBSET S |-> IF s = {} THEN 0 ELSE w[some(s)] + g[s \ {some(s)}]]  BY <1>3
    <2> HIDE DEF g, E
    <2> QED BY <2>1
  <1> HIDE DEF g, E
  <1> DEFINE T == {s \in SUBSET S : g[s] = f[s]}
  <1>6. ASSUME NEW s \in SUBSET S, \A u \in SUBSET s : u # s => u \in T PROVE s \in T
    <2>1. CASE s = {}  BY <1>5, <2>1 DEF Sums
    <2>2. CASE s # {}
      <3>1. some(s) \in s /\ s \ {some(s)} \in T  BY <1>1, <1>6, <2>2
      <3>2. f[s] = w[some(s)] + f[s \ {some(s)}]  BY <3>1 DEF Sums
      <3> QED BY <1>5, <2>2, <3>1, <3>2
    <2> QED BY <2>1, <2>2
  <1>7. SUBSET S \subseteq T
    <2> HIDE DEF T
    <2> QED BY <1>6, FiniteInduction
  <1> QED BY <1>4, <1>7

\* A sum is that of the rest and the one taken out.
LEMMA SumTaken ==
    ASSUME NEW S, IsFiniteSet(S), NEW w, \A x \in S : w[x] \in Nat
    PROVE  /\ SumOf(w, S) \in Nat
           /\ S = {} => SumOf(w, S) = 0
           /\ \A x \in S : SumOf(w, S) = w[x] + SumOf(w, S \ {x})
  <1>1. PICK f : Sums(f, w, S)  BY SumsExist
  <1>2. SumOf(w, S) = f[S]  BY <1>1, SumIsFunction
  <1>3. ASSUME NEW x \in S PROVE SumOf(w, S \ {x}) = f[S \ {x}]
    <2> DEFINE r == S \ {x}
               h == [s \in SUBSET r |-> f[s]]
    <2>1. r \subseteq S /\ IsFiniteSet(r)  BY FS_RemoveElement
    <2> HIDE DEF r
    <2>2. Sums(h, w, r)
      <3>1. SUBSET r \subseteq SUBSET S /\ {} \in SUBSET r  BY <2>1
      <3>2. h \in [SUBSET r -> Nat] /\ h[{}] = 0  BY <1>1, <3>1 DEF Sums
      <3>3. ASSUME NEW s \in SUBSET r, NEW y \in s PROVE h[s] = w[y] + h[s \ {y}]
        <4>1. s \in SUBSET S /\ s \ {y} \in SUBSET r  BY <3>1
        <4> QED BY <1>1, <4>1 DEF Sums
      <3> HIDE DEF h
      <3> QED BY <3>2, <3>3 DEF Sums
    <2>3. SumOf(w, r) = h[r]
      <3> HIDE DEF h
      <3>1. \A y \in r : w[y] \in Nat  BY <2>1
      <3> QED BY <2>1, <2>2, <3>1, SumIsFunction
    <2> QED BY <2>3 DEF r
  <1> QED BY <1>1, <1>2, <1>3 DEF Sums

\* Files that are told apart by what is counted are no larger together.
LEMMA SumInjected ==
    ASSUME NEW S, IsFiniteSet(S), NEW R, IsFiniteSet(R), NEW w, NEW v, NEW g,
           \A x \in S : w[x] \in Nat /\ g[x] \in R /\ w[x] <= v[g[x]],
           \A r \in R : v[r] \in Nat,
           \A x, y \in S : g[x] = g[y] => x = y
    PROVE  SumOf(w, S) <= SumOf(v, R)
  <1> DEFINE P(s) == \A Q \in SUBSET R : (\A x \in s : g[x] \in Q) => SumOf(w, s) <= SumOf(v, Q)
             T == {s \in SUBSET S : P(s)}
  <1>1. ASSUME NEW s \in SUBSET S, \A u \in SUBSET s : u # s => u \in T PROVE s \in T
    <2> SUFFICES ASSUME NEW Q \in SUBSET R, \A x \in s : g[x] \in Q
                 PROVE  SumOf(w, s) <= SumOf(v, Q)
      OBVIOUS
    <2>1. IsFiniteSet(s) /\ IsFiniteSet(Q)  BY FS_Subset
    <2>2. /\ SumOf(w, s) \in Nat /\ (s = {} => SumOf(w, s) = 0)
          /\ \A x \in s : SumOf(w, s) = w[x] + SumOf(w, s \ {x})
      <3>1. \A x \in s : w[x] \in Nat  OBVIOUS
      <3> QED BY <2>1, <3>1, SumTaken
    <2>3. SumOf(v, Q) \in Nat /\ \A r \in Q : SumOf(v, Q) = v[r] + SumOf(v, Q \ {r})
      <3>1. \A r \in Q : v[r] \in Nat  OBVIOUS
      <3> QED BY <2>1, <3>1, SumTaken
    <2>4. CASE s = {}  BY <2>2, <2>3, <2>4
    <2>5. ASSUME NEW x \in s PROVE SumOf(w, s) <= SumOf(v, Q)
      <3>1. s \ {x} \in T  BY <1>1
      <3>2. \A y \in s \ {x} : g[y] \in Q \ {g[x]}  OBVIOUS
      <3>3. SumOf(w, s \ {x}) <= SumOf(v, Q \ {g[x]})  BY <3>1, <3>2
      <3>4. SumOf(w, s \ {x}) \in Nat
        <4>1. IsFiniteSet(s \ {x})  BY <2>1, FS_RemoveElement
        <4> QED BY <4>1, SumTaken
      <3>5. SumOf(v, Q \ {g[x]}) \in Nat
        <4>1. IsFiniteSet(Q \ {g[x]})  BY <2>1, FS_RemoveElement
        <4> QED BY <4>1, SumTaken
      <3>6. w[x] \in Nat /\ v[g[x]] \in Nat /\ w[x] <= v[g[x]]  OBVIOUS
      <3>7. SumOf(w, s) = w[x] + SumOf(w, s \ {x})  BY <2>2
      <3>8. SumOf(v, Q) = v[g[x]] + SumOf(v, Q \ {g[x]})  BY <2>3
      <3> HIDE DEF T
      <3> QED BY <3>3, <3>4, <3>5, <3>6, <3>7, <3>8
    <2> QED BY <2>4, <2>5
  <1>2. SUBSET S \subseteq T
    <2> HIDE DEF T
    <2> QED BY <1>1, FiniteInduction
  <1> QED BY <1>2

\* The same for weights and sets of the same kind.
LEMMA SumGrows ==
    ASSUME NEW S, NEW R, IsFiniteSet(R), S \subseteq R, NEW w, NEW v,
           \A x \in S : w[x] \in Nat /\ w[x] <= v[x], \A r \in R : v[r] \in Nat
    PROVE  SumOf(w, S) <= SumOf(v, R)
  <1> DEFINE g == [x \in S |-> x]
  <1>1. /\ \A x \in S : w[x] \in Nat /\ g[x] \in R /\ w[x] <= v[g[x]]
        /\ \A x, y \in S : g[x] = g[y] => x = y
    OBVIOUS
  <1>2. IsFiniteSet(S)  BY FS_Subset
  <1> HIDE DEF g
  <1> QED BY <1>1, <1>2, SumInjected

\* Two kinds of files.
LEMMA SumOfTwo ==
    ASSUME NEW A, NEW B, IsFiniteSet(A), IsFiniteSet(B), A \cap B = {}, NEW w,
           \A x \in A \cup B : w[x] \in Nat
    PROVE  SumOf(w, A \cup B) = SumOf(w, A) + SumOf(w, B)
  <1> DEFINE T == {s \in SUBSET A : SumOf(w, s \cup B) = SumOf(w, s) + SumOf(w, B)}
  <1>1. SumOf(w, B) \in Nat  BY SumTaken
  <1>2. ASSUME NEW s \in SUBSET A, \A u \in SUBSET s : u # s => u \in T PROVE s \in T
    <2>1. IsFiniteSet(s) /\ IsFiniteSet(s \cup B)  BY FS_Subset, FS_Union
    <2>2. /\ SumOf(w, s) \in Nat /\ (s = {} => SumOf(w, s) = 0)
          /\ \A x \in s : SumOf(w, s) = w[x] + SumOf(w, s \ {x})
      BY <2>1, SumTaken
    <2>3. \A x \in s \cup B : SumOf(w, s \cup B) = w[x] + SumOf(w, (s \cup B) \ {x})
      <3>1. \A x \in s \cup B : w[x] \in Nat  OBVIOUS
      <3> QED BY <2>1, <3>1, SumTaken
    <2>4. CASE s = {}
      <3>1. s \cup B = B  BY <2>4
      <3> QED BY <1>1, <2>2, <2>4, <3>1
    <2>5. ASSUME NEW x \in s PROVE SumOf(w, s \cup B) = SumOf(w, s) + SumOf(w, B)
      <3>1. s \ {x} \in T  BY <1>2
      <3>2. (s \cup B) \ {x} = (s \ {x}) \cup B  OBVIOUS
      <3>3. SumOf(w, s \ {x}) \in Nat /\ w[x] \in Nat
        <4>1. IsFiniteSet(s \ {x}) /\ \A y \in s \ {x} : w[y] \in Nat  BY <2>1, FS_RemoveElement
        <4> QED BY <4>1, SumTaken
      <3>4. SumOf(w, (s \ {x}) \cup B) = SumOf(w, s \ {x}) + SumOf(w, B)  BY <3>1
      <3>5. SumOf(w, s) = w[x] + SumOf(w, s \ {x})  BY <2>2
      <3>6. SumOf(w, s \cup B) = w[x] + SumOf(w, (s \ {x}) \cup B)  BY <2>3, <3>2
      <3> HIDE DEF T
      <3> QED BY <1>1, <3>3, <3>4, <3>5, <3>6
    <2> QED BY <2>4, <2>5
  <1>3. SUBSET A \subseteq T
    <2> HIDE DEF T
    <2> QED BY <1>2, FiniteInduction
  <1> QED BY <1>3

\* Files of a bounded size.
LEMMA SumAtMost ==
    ASSUME NEW S, IsFiniteSet(S), NEW w, NEW m \in Nat, \A x \in S : w[x] \in Nat /\ w[x] <= m
    PROVE  SumOf(w, S) <= Cardinality(S) * m
  <1> DEFINE T == {s \in SUBSET S : SumOf(w, s) <= Cardinality(s) * m}
  <1>1. ASSUME NEW s \in SUBSET S, \A u \in SUBSET s : u # s => u \in T PROVE s \in T
    <2>1. IsFiniteSet(s) /\ Cardinality(s) \in Nat  BY FS_Subset, FS_CardinalityType
    <2>2. /\ s = {} => SumOf(w, s) = 0
          /\ \A x \in s : SumOf(w, s) = w[x] + SumOf(w, s \ {x})
      <3>1. \A x \in s : w[x] \in Nat  OBVIOUS
      <3> QED BY <2>1, <3>1, SumTaken
    <2>3. CASE s = {}
      <3>1. Cardinality(s) * m = 0  BY <2>3, FS_EmptySet
      <3> QED BY <2>2, <2>3, <3>1
    <2>4. ASSUME NEW x \in s PROVE SumOf(w, s) <= Cardinality(s) * m
      <3> DEFINE n == Cardinality(s \ {x})
      <3>1. IsFiniteSet(s \ {x}) /\ Cardinality(s) = n + 1 /\ n \in Nat
        <4>1. IsFiniteSet(s \ {x}) /\ n = Cardinality(s) - 1  BY <2>1, FS_RemoveElement
        <4>2. n \in Nat  BY <4>1, FS_CardinalityType
        <4> HIDE DEF T, n
        <4> QED BY <2>1, <4>1, <4>2
      <3>2. SumOf(w, s \ {x}) \in Nat
        <4>1. \A y \in s \ {x} : w[y] \in Nat  OBVIOUS
        <4> QED BY <3>1, <4>1, SumTaken
      <3>3. SumOf(w, s \ {x}) <= n * m
        <4>1. s \ {x} \in T  BY <1>1
        <4> QED BY <4>1
      <3>4. w[x] \in Nat /\ w[x] <= m /\ SumOf(w, s) = w[x] + SumOf(w, s \ {x})  BY <2>2
      <3> HIDE DEF T, n
      <3>5. (n + 1) * m = n * m + m  BY <3>1
      <3>6. n * m \in Nat  BY <3>1
      <3> QED BY <3>1, <3>2, <3>3, <3>4, <3>5, <3>6
    <2> QED BY <2>3, <2>4
  <1>2. SUBSET S \subseteq T
    <2> HIDE DEF T
    <2> QED BY <1>1, FiniteInduction
  <1> QED BY <1>2

LEMMA OneIsLargest ==
    ASSUME NEW S, IsFiniteSet(S), S # {}, NEW w, \A x \in S : w[x] \in Nat
    PROVE  \E m \in S : \A x \in S : w[x] <= w[m]
  <1> DEFINE T == {s \in SUBSET S : s # {} => \E m \in s : \A k \in s : w[k] <= w[m]}
  <1>1. ASSUME NEW s \in SUBSET S, \A u \in SUBSET s : u # s => u \in T PROVE s \in T
    <2> SUFFICES ASSUME NEW x \in s PROVE \E m \in s : \A k \in s : w[k] <= w[m]
      OBVIOUS
    <2>1. CASE s \ {x} = {}
      <3>1. \A k \in s : k = x  BY <2>1
      <3> QED BY <3>1
    <2>2. CASE s \ {x} # {}
      <3>1. s \ {x} \in T
        <4>1. s \ {x} \in SUBSET s /\ s \ {x} # s  OBVIOUS
        <4> HIDE DEF T
        <4> QED BY <1>1, <4>1
      <3>2. PICK m \in s \ {x} : \A k \in s \ {x} : w[k] <= w[m]  BY <2>2, <3>1
      <3>3. \A k \in s : w[k] \in Nat  OBVIOUS
      <3> HIDE DEF T
      <3>4. CASE w[x] <= w[m]  BY <3>2, <3>4
      <3>5. CASE w[m] <= w[x]
        <4>1. \A k \in s : w[k] <= w[x]  BY <3>2, <3>3, <3>5
        <4> QED BY <4>1
      <3> QED BY <3>2, <3>3, <3>4, <3>5
    <2> QED BY <2>1, <2>2
  <1>2. SUBSET S \subseteq T
    <2> HIDE DEF T
    <2> QED BY <1>1, FiniteInduction
  <1> QED BY <1>2
=============================================================================
