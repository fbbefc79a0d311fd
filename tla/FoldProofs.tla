----------------------------- MODULE FoldProofs -----------------------------
(***************************************************************************)
(* Induction over finite sets and over the naturals, stated of a set of    *)
(* the instances that are known to hold, so that no operator has to be     *)
(* instantiated to cite it; and what it gives: the images of finite sets,  *)
(* and sums whose summands may be taken in any order and in any parts.     *)
(*                                                                         *)
(* A fold of the community modules is the value at a set of a recursive    *)
(* function on its subsets, which is a CHOOSE: a proof about one unfolds   *)
(* it, shows that such a function exists (by the number of elements), and  *)
(* argues about it by induction over the subsets.                          *)
(***************************************************************************)
EXTENDS Integers, FiniteSets, Functions, FiniteSetTheorems, WellFoundedInduction, TLAPS

\* What holds of a set whenever it holds of the set without any one of its
\* elements, holds of every finite set.
LEMMA SetInduction ==
  ASSUME NEW S, IsFiniteSet(S), NEW G,
         \A T \in SUBSET S : (\A x \in T : T \ {x} \in G) => T \in G
  PROVE  \A T \in SUBSET S : T \in G
  <1> DEFINE bad == {T \in SUBSET S : T \notin G}
  <1> SUFFICES ASSUME bad # {} PROVE FALSE
    OBVIOUS
  <1>1. IsWellFoundedOn(StrictSubsetOrdering(S), FiniteSubsetsOf(S))
    BY FS_StrictSubsetOrderingWellFounded
  <1>2. bad \subseteq FiniteSubsetsOf(S)
    BY FS_Subset DEF FiniteSubsetsOf
  <1>3. PICK T \in bad : \A U \in bad : ~(<<U, T>> \in StrictSubsetOrdering(S))
    BY <1>1, <1>2, WFMin, Zenon
  <1>4. ASSUME NEW x \in T PROVE T \ {x} \in G
    <2>1. T \ {x} \in SUBSET S /\ T \ {x} \subseteq T /\ T \ {x} # T
      OBVIOUS
    <2>2. <<T \ {x}, T>> \in StrictSubsetOrdering(S)
      BY <2>1 DEF StrictSubsetOrdering
    <2> QED BY <1>3, <2>1, <2>2
  <1> QED BY <1>3, <1>4

\* The same of the naturals.
LEMMA CountingUp ==
  ASSUME NEW G, 0 \in G, \A n \in Nat : n \in G => n + 1 \in G
  PROVE  Nat \subseteq G
  <1> SUFFICES ASSUME NEW n \in Nat PROVE n \in G
    OBVIOUS
  <1> DEFINE H == {T \in SUBSET (1 .. n) : Cardinality(T) \in G}
  <1>1. IsFiniteSet(1 .. n) /\ Cardinality(1 .. n) = n
    BY FS_Interval
  <1>2. ASSUME NEW T \in SUBSET (1 .. n), \A x \in T : T \ {x} \in H
        PROVE  T \in H
    <2>1. IsFiniteSet(T) /\ Cardinality(T) \in Nat
      BY <1>1, FS_Subset, FS_CardinalityType
    <2>2. CASE T = {}
      BY <2>2, FS_EmptySet
    <2>3. CASE T # {}
      <3>1. PICK x \in T : TRUE
        BY <2>3
      <3>2. Cardinality(T \ {x}) = Cardinality(T) - 1 /\ Cardinality(T \ {x}) \in G
        BY <1>2, <2>1, <3>1, FS_RemoveElement
      <3>3. Cardinality(T) - 1 \in Nat
        BY <2>1, <2>3, FS_EmptySet
      <3> QED BY <2>1, <3>2, <3>3
    <2> QED BY <2>2, <2>3
  <1>3. \A T \in SUBSET (1 .. n) : T \in H
    <2> HIDE DEF H
    <2> QED BY <1>1, <1>2, SetInduction
  <1> QED BY <1>1, <1>3

\* The image of a finite set is finite.
LEMMA ImageIsFinite ==
  ASSUME NEW S, IsFiniteSet(S), NEW f
  PROVE  IsFiniteSet({f[x] : x \in S})
  <1> DEFINE T == {f[x] : x \in S}
             g == [x \in S |-> f[x]]
  <1>1. g \in Surjection(S, T)
    BY DEF Surjection
  <1> QED BY <1>1, FS_Surjection

\* A recursion over subsets: pick one, step from what the rest comes to.
Recurs(g, D, base, pick, step) ==
  \A s \in D : g[s] = IF s = {} THEN base ELSE step[<<pick[s], g[s \ {pick[s]}]>>]

\* Of a finite set, it has a solution.
LEMMA FoldExists ==
  ASSUME NEW S, IsFiniteSet(S), NEW Y, NEW base \in Y,
         NEW pick, \A s \in SUBSET S : s # {} => pick[s] \in s,
         NEW step, \A x \in S, y \in Y : step[<<x, y>>] \in Y
  PROVE  \E g \in [SUBSET S -> Y] : Recurs(g, SUBSET S, base, pick, step)
  <1> DEFINE Small(n) == {s \in SUBSET S : Cardinality(s) <= n}
             Solves(g, D) == Recurs(g, D, base, pick, step)
             G == {n \in Nat : \E g \in [Small(n) -> Y] : Solves(g, Small(n))}
  <1>1. \A s \in SUBSET S : IsFiniteSet(s) /\ Cardinality(s) \in Nat /\ (Cardinality(s) = 0 <=> s = {})
    BY FS_Subset, FS_CardinalityType, FS_EmptySet
  <1>2. 0 \in G
    <2>1. \A s \in Small(0) : s = {}
      BY <1>1
    <2>2. PICK h \in [Small(0) -> Y] : h = [s \in Small(0) |-> base]
      OBVIOUS
    <2>3. Solves(h, Small(0))
      BY <2>1, <2>2 DEF Recurs
    <2> QED BY <2>3
  <1>3. ASSUME NEW n \in Nat, n \in G PROVE n + 1 \in G
    <2>1. PICK g \in [Small(n) -> Y] : Solves(g, Small(n))
      BY <1>3
    <2> DEFINE h == [s \in Small(n + 1) |-> IF s = {} THEN base ELSE step[<<pick[s], g[s \ {pick[s]}]>>]]
    <2>2. ASSUME NEW s \in Small(n) PROVE s \in Small(n + 1) /\ h[s] = g[s]
      <3>1. s \in Small(n + 1)
        BY <1>1
      <3>2. g[s] = IF s = {} THEN base ELSE step[<<pick[s], g[s \ {pick[s]}]>>]
        BY <2>1 DEF Recurs
      <3> QED BY <3>1, <3>2
    <2>3. ASSUME NEW s \in Small(n + 1), s # {} PROVE pick[s] \in s /\ s \ {pick[s]} \in Small(n)
      <3>1. pick[s] \in s
        BY <2>3
      <3>2. Cardinality(s \ {pick[s]}) = Cardinality(s) - 1
        BY <1>1, <3>1, FS_RemoveElement
      <3> QED BY <1>1, <3>1, <3>2
    <2>4. ASSUME NEW s \in Small(n + 1) PROVE h[s] \in Y
      <3>1. CASE s = {}
        BY <3>1
      <3>2. CASE s # {}
        <4>1. g[s \ {pick[s]}] \in Y /\ pick[s] \in S
          BY <2>1, <2>3, <3>2
        <4> QED BY <3>2, <4>1
      <3> QED BY <3>1, <3>2
    <2>5. h \in [Small(n + 1) -> Y]
      <3> HIDE DEF Small
      <3> QED BY <2>4
    <2>6. Solves(h, Small(n + 1))
      <3> SUFFICES ASSUME NEW s \in Small(n + 1)
                   PROVE  h[s] = IF s = {} THEN base ELSE step[<<pick[s], h[s \ {pick[s]}]>>]
        BY DEF Recurs
      <3>1. h[s] = IF s = {} THEN base ELSE step[<<pick[s], g[s \ {pick[s]}]>>]
        OBVIOUS
      <3>2. s # {} => h[s \ {pick[s]}] = g[s \ {pick[s]}]
        BY <2>2, <2>3
      <3> HIDE DEF h, Small
      <3> QED BY <3>1, <3>2
    <2>7. \E f \in [Small(n + 1) -> Y] : Solves(f, Small(n + 1))
      <3> HIDE DEF h, Small, Solves
      <3> QED BY <2>5, <2>6
    <2>8. n + 1 \in Nat
      OBVIOUS
    <2> HIDE DEF Small, Solves
    <2> QED BY <2>7, <2>8
  <1>4. Cardinality(S) \in Nat /\ SUBSET S = Small(Cardinality(S))
    BY <1>1, FS_Subset
  <1>5. Cardinality(S) \in G
    <2> HIDE DEF G
    <2> QED BY <1>2, <1>3, <1>4, CountingUp
  <1>6. \E g \in [SUBSET S -> Y] : Solves(g, SUBSET S)
    <2> HIDE DEF Small, Solves
    <2> QED BY <1>4, <1>5
  <1> QED BY <1>6

\* Finitely many numbers have a greatest and a least.
LEMMA GreatestAndLeast ==
  ASSUME NEW S, IsFiniteSet(S), S \subseteq Int, S # {}
  PROVE  /\ \E m \in S : \A n \in S : n <= m
         /\ \E m \in S : \A n \in S : m <= n
  <1> DEFINE Both(T) == /\ \E m \in T : \A n \in T : n <= m
                        /\ \E m \in T : \A n \in T : m <= n
             G == {T \in SUBSET S : T = {} \/ Both(T)}
  <1>1. ASSUME NEW T \in SUBSET S, \A x \in T : T \ {x} \in G PROVE T \in G
    <2> SUFFICES ASSUME T # {} PROVE Both(T)
      OBVIOUS
    <2>1. PICK x \in T : x \in Int
      OBVIOUS
    <2>2. CASE T = {x}
      <3>1. \A n \in T : n = x
        BY <2>2
      <3>2. x <= x
        BY <2>1
      <3>3. x \in T /\ (\A n \in T : n <= x) /\ (\A n \in T : x <= n)
        BY <2>1, <3>1, <3>2
      <3> QED BY <3>3
    <2>3. CASE T # {x}
      <3>1. Both(T \ {x})
        <4>1. T \ {x} # {} /\ T \ {x} \in G
          BY <1>1, <2>1, <2>3
        <4> QED BY <4>1
      <3>2. PICK m \in T \ {x} : \A n \in T \ {x} : n <= m
        BY <3>1
      <3>3. PICK l \in T \ {x} : \A n \in T \ {x} : l <= n
        BY <3>1
      <3>4. \E k \in {m, x} : \A n \in T : n <= k
        <4>1. CASE x <= m
          BY <3>2, <4>1
        <4>2. CASE ~(x <= m)
          <5>1. \A n \in T : n <= x
            BY <2>1, <3>2, <4>2
          <5> QED BY <5>1
        <4> QED BY <4>1, <4>2
      <3>5. \E k \in {l, x} : \A n \in T : k <= n
        <4>1. CASE l <= x
          BY <3>3, <4>1
        <4>2. CASE ~(l <= x)
          <5>1. \A n \in T : x <= n
            BY <2>1, <3>3, <4>2
          <5> QED BY <5>1
        <4> QED BY <4>1, <4>2
      <3> QED BY <2>1, <3>2, <3>3, <3>4, <3>5
    <2> QED BY <2>2, <2>3
  <1>2. S \in G
    <2> HIDE DEF G
    <2> QED BY <1>1, SetInduction
  <1> QED BY <1>2

-----------------------------------------------------------------------------
(* Sums over a finite set: SumFunctionOnSet, whatever the order of the      *)
(* summands.                                                               *)

One(s) == CHOOSE x \in s : TRUE
Adds(g, v, D) == g = [s \in D |-> IF s = {} THEN 0 ELSE v[One(s)] + g[s \ {One(s)}]]

LEMMA SumIter ==
  ASSUME NEW S, NEW v
  PROVE  \E iter : /\ iter = CHOOSE g : Adds(g, v, SUBSET S)
                   /\ SumFunctionOnSet(v, S) = iter[S]
  BY DEF SumFunctionOnSet, FoldFunctionOnSet, MapThenFoldSet, Adds, One

LEMMA OneOf == ASSUME NEW s, s # {} PROVE One(s) \in s
  BY DEF One

LEMMA AdderExists ==
  ASSUME NEW S, IsFiniteSet(S), NEW v
  PROVE  \E g : Adds(g, v, SUBSET S)
  <1> DEFINE Small(n) == {s \in SUBSET S : Cardinality(s) <= n}
             G == {n \in Nat : \E g : Adds(g, v, Small(n))}
  <1>1. \A s \in SUBSET S : IsFiniteSet(s) /\ Cardinality(s) \in Nat /\ (Cardinality(s) = 0 <=> s = {})
    BY FS_Subset, FS_CardinalityType, FS_EmptySet
  <1>2. 0 \in G
    <2>1. \A s \in Small(0) : s = {}
      BY <1>1
    <2>2. Adds([s \in Small(0) |-> 0], v, Small(0))
      BY <2>1 DEF Adds
    <2> QED BY <2>2
  <1>3. ASSUME NEW n \in Nat, n \in G PROVE n + 1 \in G
    <2>1. PICK g : Adds(g, v, Small(n))
      BY <1>3
    <2> DEFINE h == [s \in Small(n + 1) |-> IF s = {} THEN 0 ELSE v[One(s)] + g[s \ {One(s)}]]
    <2>2. ASSUME NEW s \in Small(n) PROVE s \in Small(n + 1) /\ h[s] = g[s]
      <3>1. s \in Small(n + 1)
        BY <1>1
      <3>2. g[s] = IF s = {} THEN 0 ELSE v[One(s)] + g[s \ {One(s)}]
        BY <2>1 DEF Adds
      <3> QED BY <3>1, <3>2
    <2>3. ASSUME NEW s \in Small(n + 1), s # {} PROVE s \ {One(s)} \in Small(n)
      <3>1. One(s) \in s
        BY <2>3, OneOf
      <3>2. Cardinality(s \ {One(s)}) = Cardinality(s) - 1
        BY <1>1, <3>1, FS_RemoveElement
      <3> QED BY <1>1, <3>2
    <2>4. Adds(h, v, Small(n + 1))
      BY <2>2, <2>3 DEF Adds
    <2>5. \E f : Adds(f, v, Small(n + 1))
      BY <2>4
    <2>6. n + 1 \in Nat
      OBVIOUS
    <2> HIDE DEF Small
    <2> QED BY <2>5, <2>6
  <1>4. Cardinality(S) \in Nat /\ SUBSET S = Small(Cardinality(S))
    BY <1>1, FS_Subset
  <1>5. Nat \subseteq G
    <2> HIDE DEF G
    <2> QED BY <1>2, <1>3, CountingUp
  <1> QED BY <1>4, <1>5

LEMMA SumAdds ==
  ASSUME NEW S, IsFiniteSet(S), NEW v
  PROVE  \E g : Adds(g, v, SUBSET S) /\ SumFunctionOnSet(v, S) = g[S]
  <1>1. PICK g : g = (CHOOSE h : Adds(h, v, SUBSET S)) /\ SumFunctionOnSet(v, S) = g[S]
    BY SumIter
  <1>2. Adds(g, v, SUBSET S)
    BY <1>1, AdderExists
  <1> QED BY <1>1, <1>2

\* Two adders agree where both are defined, and so do the sums of two
\* functions that agree on the summands.
LEMMA AddersAgree ==
  ASSUME NEW S, NEW T, IsFiniteSet(T), T \subseteq S, NEW v, NEW u,
         \A x \in T : v[x] = u[x],
         NEW g, NEW h, Adds(g, v, SUBSET S), Adds(h, u, SUBSET T)
  PROVE  g[T] = h[T]
  <1> DEFINE G == {s \in SUBSET T : g[s] = h[s]}
  <1>1. ASSUME NEW s \in SUBSET T, \A x \in s : s \ {x} \in G PROVE s \in G
    <2>1. g[s] = IF s = {} THEN 0 ELSE v[One(s)] + g[s \ {One(s)}]
      BY DEF Adds
    <2>2. h[s] = IF s = {} THEN 0 ELSE u[One(s)] + h[s \ {One(s)}]
      BY DEF Adds
    <2> QED BY <1>1, <2>1, <2>2, OneOf
  <1>2. T \in G
    <2> HIDE DEF G
    <2> QED BY <1>1, SetInduction
  <1> QED BY <1>2

LEMMA SumEmpty == ASSUME NEW v PROVE SumFunctionOnSet(v, {}) = 0
  <1>1. PICK g : Adds(g, v, SUBSET {}) /\ SumFunctionOnSet(v, {}) = g[{}]
    BY SumAdds, FS_EmptySet
  <1> QED BY <1>1 DEF Adds

LEMMA SameSummands ==
  ASSUME NEW S, IsFiniteSet(S), NEW v, NEW u, \A x \in S : v[x] = u[x]
  PROVE  SumFunctionOnSet(v, S) = SumFunctionOnSet(u, S)
  <1>1. PICK g : Adds(g, v, SUBSET S) /\ SumFunctionOnSet(v, S) = g[S]
    BY SumAdds
  <1>2. PICK h : Adds(h, u, SUBSET S) /\ SumFunctionOnSet(u, S) = h[S]
    BY SumAdds
  <1> QED BY <1>1, <1>2, AddersAgree

LEMMA SumStep ==
  ASSUME NEW S, IsFiniteSet(S), S # {}, NEW v
  PROVE  SumFunctionOnSet(v, S) = v[One(S)] + SumFunctionOnSet(v, S \ {One(S)})
  <1> DEFINE R == S \ {One(S)}
  <1>1. PICK g : Adds(g, v, SUBSET S) /\ SumFunctionOnSet(v, S) = g[S]
    BY SumAdds
  <1>2. IsFiniteSet(R)
    BY FS_RemoveElement
  <1>3. PICK h : Adds(h, v, SUBSET R) /\ SumFunctionOnSet(v, R) = h[R]
    BY <1>2, SumAdds
  <1>4. g[R] = h[R]
    <2>1. R \subseteq S /\ \A x \in R : v[x] = v[x]
      OBVIOUS
    <2> HIDE DEF R
    <2> QED BY <1>1, <1>2, <1>3, <2>1, AddersAgree
  <1>5. g[S] = v[One(S)] + g[R]
    BY <1>1 DEF Adds
  <1> QED BY <1>1, <1>3, <1>4, <1>5

LEMMA SumInt ==
  ASSUME NEW S, IsFiniteSet(S), NEW v, \A x \in S : v[x] \in Int
  PROVE  SumFunctionOnSet(v, S) \in Int
  <1> DEFINE G == {T \in SUBSET S : SumFunctionOnSet(v, T) \in Int}
  <1>1. ASSUME NEW T \in SUBSET S, \A x \in T : T \ {x} \in G PROVE T \in G
    <2>1. CASE T = {}
      BY <2>1, SumEmpty
    <2>2. CASE T # {}
      <3>1. One(T) \in T /\ IsFiniteSet(T)
        BY <2>2, OneOf, FS_Subset
      <3>2. SumFunctionOnSet(v, T) = v[One(T)] + SumFunctionOnSet(v, T \ {One(T)})
        BY <2>2, <3>1, SumStep
      <3> QED BY <1>1, <3>1, <3>2
    <2> QED BY <2>1, <2>2
  <1>2. \A T \in SUBSET S : T \in G
    <2> HIDE DEF G
    <2> QED BY <1>1, SetInduction
  <1> QED BY <1>2

\* Any summand may be taken out first.
LEMMA SumOfRest ==
  ASSUME NEW S, IsFiniteSet(S), NEW v, \A x \in S : v[x] \in Int, NEW e \in S
  PROVE  SumFunctionOnSet(v, S) = v[e] + SumFunctionOnSet(v, S \ {e})
  <1> DEFINE Total(T) == SumFunctionOnSet(v, T)
             G == {T \in SUBSET S : \A x \in T : Total(T) = v[x] + Total(T \ {x})}
  <1>1. ASSUME NEW T \in SUBSET S, \A x \in T : T \ {x} \in G PROVE T \in G
    <2> SUFFICES ASSUME NEW x \in T PROVE Total(T) = v[x] + Total(T \ {x})
      OBVIOUS
    <2>1. PICK y : y = One(T)
      OBVIOUS
    <2>2. y \in T /\ IsFiniteSet(T)
      BY <2>1, OneOf, FS_Subset
    <2>3. Total(T) = v[y] + Total(T \ {y})
      BY <2>1, <2>2, SumStep
    <2>4. CASE x # y
      <3>1. PICK R : R = (T \ {x}) \ {y}
        OBVIOUS
      <3>2. (T \ {y}) \ {x} = R /\ R \in SUBSET S /\ x \in T \ {y} /\ y \in T \ {x}
        BY <2>2, <2>4, <3>1
      <3>3. Total(T \ {y}) = v[x] + Total(R) /\ Total(T \ {x}) = v[y] + Total(R)
        BY <1>1, <2>2, <3>1, <3>2
      <3>4. Total(R) \in Int /\ v[x] \in Int /\ v[y] \in Int
        BY <2>2, <3>2, FS_Subset, SumInt
      <3> HIDE DEF Total
      <3> QED BY <2>3, <3>3, <3>4
    <2> QED BY <2>3, <2>4
  <1>2. \A T \in SUBSET S : T \in G
    <2> HIDE DEF G
    <2> QED BY <1>1, SetInduction
  <1> QED BY <1>2

LEMMA SumOfNothing ==
  ASSUME NEW S, IsFiniteSet(S), NEW v, \A x \in S : v[x] = 0
  PROVE  SumFunctionOnSet(v, S) = 0
  <1> DEFINE G == {T \in SUBSET S : SumFunctionOnSet(v, T) = 0}
  <1>1. ASSUME NEW T \in SUBSET S, \A x \in T : T \ {x} \in G PROVE T \in G
    <2>1. CASE T = {}
      BY <2>1, SumEmpty
    <2>2. CASE T # {}
      <3>1. One(T) \in T /\ IsFiniteSet(T)
        BY <2>2, OneOf, FS_Subset
      <3>2. SumFunctionOnSet(v, T) = v[One(T)] + SumFunctionOnSet(v, T \ {One(T)})
        BY <2>2, <3>1, SumStep
      <3> QED BY <1>1, <3>1, <3>2
    <2> QED BY <2>1, <2>2
  <1>2. \A T \in SUBSET S : T \in G
    <2> HIDE DEF G
    <2> QED BY <1>1, SetInduction
  <1> QED BY <1>2

\* A sum is the sum of the sums of its parts.
LEMMA SumOfParts ==
  ASSUME NEW S, IsFiniteSet(S), NEW v, \A x \in S : v[x] \in Int,
         NEW K, IsFiniteSet(K), NEW key, \A x \in S : key[x] \in K
  PROVE  SumFunctionOnSet(v, S) =
           SumFunctionOnSet([k \in K |-> SumFunctionOnSet(v, {x \in S : key[x] = k})], K)
  <1> DEFINE Total(T) == SumFunctionOnSet(v, T)
             Part(T, k) == {x \in T : key[x] = k}
             parts(T) == [k \in K |-> Total(Part(T, k))]
             G == {T \in SUBSET S : Total(T) = SumFunctionOnSet(parts(T), K)}
  <1>0. \A T \in SUBSET S : IsFiniteSet(T) /\ Total(T) \in Int
    BY FS_Subset, SumInt
  <1>1. ASSUME NEW T \in SUBSET S, \A x \in T : T \ {x} \in G PROVE T \in G
    <2>1. CASE T = {}
      <3>1. Total(T) = 0
        BY <2>1, SumEmpty
      <3>2. \A k \in K : parts(T)[k] = 0
        <4>1. \A k \in K : Part(T, k) = {}
          BY <2>1
        <4> QED BY <4>1, SumEmpty
      <3>3. SumFunctionOnSet(parts(T), K) = 0
        <4> HIDE DEF parts
        <4> QED BY <3>2, SumOfNothing
      <3> QED BY <3>1, <3>3
    <2>2. CASE T # {}
      <3>1. PICK e \in T : TRUE
        BY <2>2
      <3>2. PICK R : R = T \ {e}
        OBVIOUS
      <3>3. PICK k \in K : k = key[e]
        BY <3>1
      <3>4. Total(T) = v[e] + Total(R)
        BY <1>0, <3>1, <3>2, SumOfRest
      <3>5. PICK p : p = parts(T)
        OBVIOUS
      <3>6. PICK q : q = parts(R)
        OBVIOUS
      <3>7. R \in SUBSET S /\ Total(R) = SumFunctionOnSet(q, K)
        BY <1>1, <3>1, <3>2, <3>6
      <3>8. \A l \in K : /\ Part(T, l) \in SUBSET S /\ Part(R, l) \in SUBSET S
                         /\ p[l] = Total(Part(T, l)) /\ q[l] = Total(Part(R, l))
        BY <3>5, <3>6, <3>7
      <3>9. p[k] = v[e] + q[k]
        <4>1. e \in Part(T, k) /\ Part(T, k) \ {e} = Part(R, k)
          BY <3>1, <3>2, <3>3
        <4>2. Total(Part(T, k)) = v[e] + Total(Part(T, k) \ {e})
          <5>1. IsFiniteSet(Part(T, k)) /\ \A x \in Part(T, k) : v[x] \in Int
            BY <1>0, <3>8
          <5> QED BY <4>1, <5>1, SumOfRest
        <4> QED BY <3>8, <4>1, <4>2
      <3>10. \A l \in K \ {k} : p[l] = q[l]
        <4>1. \A l \in K \ {k} : Part(T, l) = Part(R, l)
          BY <3>2, <3>3
        <4> QED BY <3>8, <4>1
      <3>11. \A l \in K : p[l] \in Int /\ q[l] \in Int
        BY <1>0, <3>8
      <3>12. PICK L : L = K \ {k}
        OBVIOUS
      <3>13. IsFiniteSet(L) /\ \A l \in L : p[l] = q[l] /\ q[l] \in Int
        BY <3>10, <3>11, <3>12, FS_RemoveElement
      <3>14. SumFunctionOnSet(p, L) = SumFunctionOnSet(q, L) /\ SumFunctionOnSet(q, L) \in Int
        BY <3>13, SameSummands, SumInt
      <3>15. SumFunctionOnSet(p, K) = p[k] + SumFunctionOnSet(p, L)
        BY <3>11, <3>12, SumOfRest
      <3>16. SumFunctionOnSet(q, K) = q[k] + SumFunctionOnSet(q, L)
        BY <3>11, <3>12, SumOfRest
      <3>17. v[e] \in Int
        BY <3>1
      <3>18. Total(T) = SumFunctionOnSet(p, K)
        <4> HIDE DEF Total
        <4> QED BY <3>4, <3>7, <3>9, <3>11, <3>14, <3>15, <3>16, <3>17
      <3> QED BY <3>5, <3>18
    <2> QED BY <2>1, <2>2
  <1>2. \A T \in SUBSET S : T \in G
    <2> HIDE DEF G
    <2> QED BY <1>1, SetInduction
  <1> QED BY <1>2

\* To count is to add up ones.
LEMMA CountIsSum ==
  ASSUME NEW S, IsFiniteSet(S), NEW v, \A x \in S : v[x] = 1
  PROVE  SumFunctionOnSet(v, S) = Cardinality(S)
  <1> DEFINE G == {T \in SUBSET S : SumFunctionOnSet(v, T) = Cardinality(T)}
  <1>1. ASSUME NEW T \in SUBSET S, \A x \in T : T \ {x} \in G PROVE T \in G
    <2>1. CASE T = {}
      BY <2>1, SumEmpty, FS_EmptySet
    <2>2. CASE T # {}
      <3>1. One(T) \in T /\ IsFiniteSet(T) /\ Cardinality(T) \in Nat
        BY <2>2, OneOf, FS_Subset, FS_CardinalityType
      <3>2. SumFunctionOnSet(v, T) = v[One(T)] + SumFunctionOnSet(v, T \ {One(T)})
        BY <2>2, <3>1, SumStep
      <3>3. Cardinality(T \ {One(T)}) = Cardinality(T) - 1
        BY <3>1, FS_RemoveElement
      <3> QED BY <1>1, <3>1, <3>2, <3>3
    <2> QED BY <2>1, <2>2
  <1>2. \A T \in SUBSET S : T \in G
    <2> HIDE DEF G
    <2> QED BY <1>1, SetInduction
  <1> QED BY <1>2
=============================================================================
