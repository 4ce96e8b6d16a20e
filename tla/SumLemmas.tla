------------------------------ MODULE SumLemmas ------------------------------
(***************************************************************************)
(* What the sums of the models are (SumFunctionOnSet of Functions): a fold  *)
(* that takes one element after another by CHOOSE. The recursive function   *)
(* behind it exists and is unique, so that the order does not matter: a sum *)
(* over a set is an element plus the sum over the others. An induction over *)
(* finite sets is by a smallest counterexample.                             *)
(***************************************************************************)
EXTENDS Integers, FiniteSets, Functions, FiniteSetTheorems, WellFoundedInduction, TLAPS

First(s) == CHOOSE x \in s : TRUE
(* The recursive function that a sum over S is the value of, at S.          *)
Adds(g, S, h) ==
    h = [s \in SUBSET S |-> IF s = {} THEN 0 ELSE g[First(s)] + h[s \ {First(s)}]]

LEMMA FirstIsIn == ASSUME NEW s, s # {} PROVE First(s) \in s
BY DEF First

LEMMA SumIs ==
    ASSUME NEW g, NEW S
    PROVE  SumFunctionOnSet(g, S) = (CHOOSE h : Adds(g, S, h))[S]
BY DEF SumFunctionOnSet, FoldFunctionOnSet, MapThenFoldSet, Adds, First

(* Among the subsets of a finite set that have a property, one has no       *)
(* smaller subset that does.                                                *)
LEMMA SmallestSubset ==
    ASSUME NEW S, IsFiniteSet(S), NEW T, T \subseteq SUBSET S, T # {}
    PROVE  \E s \in T : \A t \in T : t \subseteq s => t = s
<1>1. IsWellFoundedOn(StrictSubsetOrdering(S), SUBSET S)
  BY FS_StrictSubsetOrderingWellFounded, FS_FiniteSubsetsOfFinite
<1>2. PICK s \in T : \A t \in T : ~(<<t, s>> \in StrictSubsetOrdering(S))
  BY <1>1, WFMin
<1> QED
  BY <1>2 DEF StrictSubsetOrdering

----------------------------------------------------------------------------
(* There is one such function.                                              *)

LEMMA AddsUnique ==
    ASSUME NEW g, NEW S, IsFiniteSet(S), NEW T \in SUBSET S, NEW U \in SUBSET S,
           NEW h, NEW k, Adds(g, T, h), Adds(g, U, k)
    PROVE  \A s \in SUBSET (T \cap U) : h[s] = k[s]
<1> DEFINE bad == {s \in SUBSET (T \cap U) : h[s] # k[s]}
<1> SUFFICES ASSUME bad # {} PROVE FALSE
  OBVIOUS
<1>1. bad \subseteq SUBSET S
  OBVIOUS
<1>2. PICK s \in bad : \A t \in bad : t \subseteq s => t = s
  <2> HIDE DEF bad
  <2> QED BY <1>1, SmallestSubset
<1>3. h[s] = IF s = {} THEN 0 ELSE g[First(s)] + h[s \ {First(s)}]
  BY <1>2 DEF Adds
<1>4. k[s] = IF s = {} THEN 0 ELSE g[First(s)] + k[s \ {First(s)}]
  BY <1>2 DEF Adds
<1>5. CASE s = {}
  BY <1>2, <1>3, <1>4, <1>5
<1>6. CASE s # {}
  <2>1. First(s) \in s
    BY <1>6, FirstIsIn
  <2>2. s \ {First(s)} \in SUBSET (T \cap U) /\ s \ {First(s)} # s
    BY <1>2, <2>1
  <2>3. s \ {First(s)} \notin bad
    BY <1>2, <2>2
  <2>4. h[s \ {First(s)}] = k[s \ {First(s)}]
    BY <2>2, <2>3
  <2> QED
    BY <1>2, <1>3, <1>4, <1>6, <2>4
<1> QED
  BY <1>5, <1>6

LEMMA AddsExists ==
    ASSUME NEW g, NEW S, IsFiniteSet(S)
    PROVE  \E h : Adds(g, S, h)
<1> DEFINE bad == {s \in SUBSET S : ~\E h : Adds(g, s, h)}
<1> SUFFICES ASSUME bad # {} PROVE FALSE
  OBVIOUS
<1>2. PICK s \in bad : \A t \in bad : t \subseteq s => t = s
  <2>1. bad \subseteq SUBSET S
    OBVIOUS
  <2> HIDE DEF bad
  <2> QED BY <2>1, SmallestSubset
<1>3. \A t \in SUBSET s : t # s => \E h : Adds(g, t, h)
  BY <1>2
<1> DEFINE below(t) == CHOOSE h : Adds(g, t, h)
           part(t) == IF t = {} THEN 0 ELSE g[First(t)] + below(t \ {First(t)})[t \ {First(t)}]
           whole == [t \in SUBSET s |-> part(t)]
<1>4. \A t \in SUBSET s : t # s => Adds(g, t, below(t))
  BY <1>3
<1>5. \A t \in SUBSET s : t # s => below(t)[t] = part(t)
  <2> SUFFICES ASSUME NEW t \in SUBSET s, t # s PROVE below(t)[t] = part(t)
    OBVIOUS
  <2>1. Adds(g, t, below(t))
    BY <1>4
  <2>2. CASE t = {}
    <3> HIDE DEF below
    <3> QED BY <2>1, <2>2 DEF Adds
  <2>3. CASE t # {}
    <3> DEFINE u == t \ {First(t)}
    <3>1. First(t) \in t
      BY <2>3, FirstIsIn
    <3>2. u \in SUBSET s /\ u # s /\ u \in SUBSET t
      BY <3>1
    <3>3. Adds(g, u, below(u))
      BY <1>4, <3>2
    <3>4. t \in SUBSET S /\ u \in SUBSET S
      BY <1>2, <3>2
    <3> HIDE DEF below
    <3>5. below(t)[u] = below(u)[u]
      <4> DEFINE h == below(t)
                 k == below(u)
      <4>1. Adds(g, t, h) /\ Adds(g, u, k) /\ u \in SUBSET (t \cap u)
        BY <2>1, <3>2, <3>3
      <4> HIDE DEF h, k, u
      <4>2. h[u] = k[u]
        BY <3>4, <4>1, AddsUnique
      <4> QED BY <4>2 DEF h, k
    <3>6. below(t)[t] = g[First(t)] + below(t)[u]
      BY <2>1, <2>3 DEF Adds
    <3> QED BY <2>3, <3>5, <3>6
  <2> QED BY <2>2, <2>3
<1>6. Adds(g, s, whole)
  <2> SUFFICES ASSUME NEW t \in SUBSET s
               PROVE  part(t) = IF t = {} THEN 0
                                ELSE g[First(t)] + whole[t \ {First(t)}]
    <3> HIDE DEF below, part
    <3>1. whole = [t \in SUBSET s |-> IF t = {} THEN 0
                                      ELSE g[First(t)] + whole[t \ {First(t)}]]
      OBVIOUS
    <3> QED BY <3>1 DEF Adds
  <2>1. CASE t = {}
    BY <2>1
  <2>2. CASE t # {}
    <3>1. First(t) \in t
      BY <2>2, FirstIsIn
    <3>2. t \ {First(t)} \in SUBSET s /\ t \ {First(t)} # s
      BY <3>1
    <3>3. whole[t \ {First(t)}] = part(t \ {First(t)})
      BY <3>2
    <3>4. below(t \ {First(t)})[t \ {First(t)}] = part(t \ {First(t)})
      BY <1>5, <3>2
    <3> HIDE DEF below, whole
    <3> QED BY <2>2, <3>3, <3>4
  <2> QED BY <2>1, <2>2
<1> QED
  BY <1>2, <1>6

----------------------------------------------------------------------------
(* The sum over no element; the sum over a set in terms of its first one.   *)

LEMMA SumOfNone == ASSUME NEW g PROVE SumFunctionOnSet(g, {}) = 0
<1>1. \E h : Adds(g, {}, h)
  BY AddsExists, FS_EmptySet
<1> DEFINE h == CHOOSE h : Adds(g, {}, h)
<1>2. Adds(g, {}, h)
  BY <1>1
<1>3. SumFunctionOnSet(g, {}) = h[{}]
  BY SumIs
<1> HIDE DEF h
<1> QED
  BY <1>2, <1>3 DEF Adds

LEMMA SumOfFirst ==
    ASSUME NEW g, NEW S, IsFiniteSet(S), S # {}
    PROVE  SumFunctionOnSet(g, S) = g[First(S)] + SumFunctionOnSet(g, S \ {First(S)})
<1> DEFINE T == S \ {First(S)}
           h == CHOOSE h : Adds(g, S, h)
           k == CHOOSE k : Adds(g, T, k)
<1>1. T \in SUBSET S /\ IsFiniteSet(T)
  BY FS_Subset
<1>2. Adds(g, S, h)
  BY AddsExists
<1>3. Adds(g, T, k)
  <2> HIDE DEF T
  <2> QED BY <1>1, AddsExists
<1>4. SumFunctionOnSet(g, S) = h[S] /\ SumFunctionOnSet(g, T) = k[T]
  BY SumIs
<1> HIDE DEF h, k
<1>5. h[T] = k[T]
  <2> HIDE DEF T
  <2> QED BY <1>1, <1>2, <1>3, AddsUnique
<1>6. h[S] = g[First(S)] + h[T]
  BY <1>2 DEF Adds
<1> QED
  BY <1>4, <1>5, <1>6

----------------------------------------------------------------------------
(* What the proofs use of a sum.                                            *)

LEMMA SumIsInt ==
    ASSUME NEW g, NEW S, IsFiniteSet(S), \A x \in S : g[x] \in Int
    PROVE  SumFunctionOnSet(g, S) \in Int
<1> DEFINE bad == {s \in SUBSET S : SumFunctionOnSet(g, s) \notin Int}
<1> SUFFICES ASSUME bad # {} PROVE FALSE
  OBVIOUS
<1>1. PICK s \in bad : \A t \in bad : t \subseteq s => t = s
  <2>1. bad \subseteq SUBSET S
    OBVIOUS
  <2> HIDE DEF bad
  <2> QED BY <2>1, SmallestSubset
<1>2. s # {}
  <2>1. SumFunctionOnSet(g, {}) = 0
    BY SumOfNone
  <2>2. s \in bad
    BY <1>1
  <2> QED
    BY <2>1, <2>2
<1>3. First(s) \in s /\ IsFiniteSet(s)
  BY <1>1, <1>2, FirstIsIn, FS_Subset
<1>4. s \ {First(s)} \notin bad
  BY <1>1, <1>3
<1>5. SumFunctionOnSet(g, s \ {First(s)}) \in Int
  BY <1>1, <1>4
<1>6. SumFunctionOnSet(g, s) = g[First(s)] + SumFunctionOnSet(g, s \ {First(s)})
  BY <1>2, <1>3, SumOfFirst
<1> QED
  BY <1>1, <1>3, <1>5, <1>6

(* Whatever the element taken first.                                        *)
LEMMA SumOfOne ==
    ASSUME NEW g, NEW S, IsFiniteSet(S), \A x \in S : g[x] \in Int, NEW x \in S
    PROVE  SumFunctionOnSet(g, S) = g[x] + SumFunctionOnSet(g, S \ {x})
<1> DEFINE sum(s) == SumFunctionOnSet(g, s)
           bad == {s \in SUBSET S : \E y \in s : sum(s) # g[y] + sum(s \ {y})}
<1> SUFFICES ASSUME bad # {} PROVE FALSE
  OBVIOUS
<1>1. PICK s \in bad : \A t \in bad : t \subseteq s => t = s
  <2>1. bad \subseteq SUBSET S
    OBVIOUS
  <2> HIDE DEF bad
  <2> QED BY <2>1, SmallestSubset
<1>2. PICK y \in s : sum(s) # g[y] + sum(s \ {y})
  BY <1>1
<1> DEFINE z == First(s)
<1>3. z \in s /\ s \subseteq S
  BY <1>1, <1>2, FirstIsIn
<1>4. IsFiniteSet(s) /\ IsFiniteSet(s \ {y}) /\ IsFiniteSet((s \ {y}) \ {z})
  BY <1>3, FS_Subset
<1>5. sum(s) = g[z] + sum(s \ {z})
  BY <1>2, <1>4, SumOfFirst
<1>6. y # z
  BY <1>2, <1>5
<1> HIDE DEF z, sum
<1>7. sum(s \ {z}) = g[y] + sum((s \ {z}) \ {y})
  <2>1. s \ {z} \notin bad
    BY <1>1, <1>3
  <2> QED BY <1>3, <1>6, <2>1
<1>8. sum(s \ {y}) = g[z] + sum((s \ {y}) \ {z})
  <2>1. s \ {y} \notin bad
    BY <1>1, <1>2, <1>3
  <2> QED BY <1>3, <1>6, <2>1
<1>9. (s \ {z}) \ {y} = (s \ {y}) \ {z}
  OBVIOUS
<1>10. sum((s \ {y}) \ {z}) \in Int
  BY <1>3, <1>4, SumIsInt DEF sum
<1>11. g[y] \in Int /\ g[z] \in Int
  BY <1>2, <1>3
<1> QED
  BY <1>2, <1>5, <1>7, <1>8, <1>9, <1>10, <1>11

LEMMA SumWithOne ==
    ASSUME NEW g, NEW S, IsFiniteSet(S), NEW x, x \notin S, \A y \in S \cup {x} : g[y] \in Int
    PROVE  SumFunctionOnSet(g, S \cup {x}) = g[x] + SumFunctionOnSet(g, S)
<1>1. IsFiniteSet(S \cup {x})
  BY FS_AddElement
<1>2. (S \cup {x}) \ {x} = S
  OBVIOUS
<1> QED
  BY <1>1, <1>2, SumOfOne

(* Sums of amounts that are the same, or no more.                           *)
LEMMA SumOfSame ==
    ASSUME NEW f, NEW g, NEW S, IsFiniteSet(S), \A x \in S : f[x] = g[x]
    PROVE  SumFunctionOnSet(f, S) = SumFunctionOnSet(g, S)
<1> DEFINE bad == {s \in SUBSET S : SumFunctionOnSet(f, s) # SumFunctionOnSet(g, s)}
<1> SUFFICES ASSUME bad # {} PROVE FALSE
  OBVIOUS
<1>1. PICK s \in bad : \A t \in bad : t \subseteq s => t = s
  <2>1. bad \subseteq SUBSET S
    OBVIOUS
  <2> HIDE DEF bad
  <2> QED BY <2>1, SmallestSubset
<1>2. s # {}
  BY <1>1, SumOfNone
<1>3. First(s) \in s /\ IsFiniteSet(s)
  BY <1>1, <1>2, FirstIsIn, FS_Subset
<1>4. s \ {First(s)} \notin bad
  BY <1>1, <1>3
<1>5. SumFunctionOnSet(f, s \ {First(s)}) = SumFunctionOnSet(g, s \ {First(s)})
  BY <1>1, <1>4
<1> QED
  BY <1>1, <1>2, <1>3, <1>5, SumOfFirst

LEMMA SumOfLess ==
    ASSUME NEW f, NEW g, NEW S, IsFiniteSet(S),
           \A x \in S : f[x] \in Int /\ g[x] \in Int /\ f[x] <= g[x]
    PROVE  SumFunctionOnSet(f, S) <= SumFunctionOnSet(g, S)
<1> DEFINE bad == {s \in SUBSET S : ~(SumFunctionOnSet(f, s) <= SumFunctionOnSet(g, s))}
<1> SUFFICES ASSUME bad # {} PROVE FALSE
  OBVIOUS
<1>1. PICK s \in bad : \A t \in bad : t \subseteq s => t = s
  <2>1. bad \subseteq SUBSET S
    OBVIOUS
  <2> HIDE DEF bad
  <2> QED BY <2>1, SmallestSubset
<1>2. s # {}
  <2>1. SumFunctionOnSet(f, {}) = 0 /\ SumFunctionOnSet(g, {}) = 0
    BY SumOfNone
  <2>2. s \in bad
    BY <1>1
  <2> QED
    BY <2>1, <2>2
<1>3. First(s) \in s /\ IsFiniteSet(s) /\ IsFiniteSet(s \ {First(s)})
  BY <1>1, <1>2, FirstIsIn, FS_Subset
<1>4. s \ {First(s)} \notin bad
  BY <1>1, <1>3
<1>5. SumFunctionOnSet(f, s \ {First(s)}) <= SumFunctionOnSet(g, s \ {First(s)})
  BY <1>1, <1>4
<1>6. /\ SumFunctionOnSet(f, s) = f[First(s)] + SumFunctionOnSet(f, s \ {First(s)})
      /\ SumFunctionOnSet(g, s) = g[First(s)] + SumFunctionOnSet(g, s \ {First(s)})
  BY <1>2, <1>3, SumOfFirst
<1>7. /\ SumFunctionOnSet(f, s \ {First(s)}) \in Int
      /\ SumFunctionOnSet(g, s \ {First(s)}) \in Int
  BY <1>1, <1>3, SumIsInt
<1>8. f[First(s)] \in Int /\ g[First(s)] \in Int /\ f[First(s)] <= g[First(s)]
  BY <1>1, <1>3
<1> QED
  BY <1>1, <1>5, <1>6, <1>7, <1>8

LEMMA SumIsNat ==
    ASSUME NEW g, NEW S, IsFiniteSet(S), \A x \in S : g[x] \in Nat
    PROVE  SumFunctionOnSet(g, S) \in Nat
<1> DEFINE bad == {s \in SUBSET S : SumFunctionOnSet(g, s) \notin Nat}
<1> SUFFICES ASSUME bad # {} PROVE FALSE
  OBVIOUS
<1>1. PICK s \in bad : \A t \in bad : t \subseteq s => t = s
  <2>1. bad \subseteq SUBSET S
    OBVIOUS
  <2> HIDE DEF bad
  <2> QED BY <2>1, SmallestSubset
<1>2. s # {}
  <2>1. SumFunctionOnSet(g, {}) = 0
    BY SumOfNone
  <2>2. s \in bad
    BY <1>1
  <2> QED
    BY <2>1, <2>2
<1>3. First(s) \in s /\ IsFiniteSet(s)
  BY <1>1, <1>2, FirstIsIn, FS_Subset
<1>4. s \ {First(s)} \notin bad
  BY <1>1, <1>3
<1>5. SumFunctionOnSet(g, s \ {First(s)}) \in Nat
  BY <1>1, <1>4
<1>6. SumFunctionOnSet(g, s) = g[First(s)] + SumFunctionOnSet(g, s \ {First(s)})
  BY <1>2, <1>3, SumOfFirst
<1> QED
  BY <1>1, <1>3, <1>5, <1>6

LEMMA SumOfZeros ==
    ASSUME NEW g, NEW S, IsFiniteSet(S), \A x \in S : g[x] = 0
    PROVE  SumFunctionOnSet(g, S) = 0
<1> DEFINE bad == {s \in SUBSET S : SumFunctionOnSet(g, s) # 0}
<1> SUFFICES ASSUME bad # {} PROVE FALSE
  OBVIOUS
<1>1. PICK s \in bad : \A t \in bad : t \subseteq s => t = s
  <2>1. bad \subseteq SUBSET S
    OBVIOUS
  <2> HIDE DEF bad
  <2> QED BY <2>1, SmallestSubset
<1>2. s # {}
  <2>1. SumFunctionOnSet(g, {}) = 0
    BY SumOfNone
  <2>2. s \in bad
    BY <1>1
  <2> QED
    BY <2>1, <2>2
<1>3. First(s) \in s /\ IsFiniteSet(s)
  BY <1>1, <1>2, FirstIsIn, FS_Subset
<1>4. s \ {First(s)} \notin bad
  BY <1>1, <1>3
<1>5. SumFunctionOnSet(g, s \ {First(s)}) = 0
  BY <1>1, <1>4
<1>6. SumFunctionOnSet(g, s) = g[First(s)] + SumFunctionOnSet(g, s \ {First(s)})
  BY <1>2, <1>3, SumOfFirst
<1> QED
  BY <1>1, <1>3, <1>5, <1>6
=============================================================================
