------------------------------ MODULE Recursion ------------------------------
(***************************************************************************)
(* What recursive functions compute: the finite sums of the community      *)
(* modules, whatever order they take the elements in, a loop that carries  *)
(* a value along, and the powers of two.  That there is such a function    *)
(* and what it gives is proved by the least counterexample.                *)
(***************************************************************************)
EXTENDS Integers, Functions, FiniteSetTheorems, WellFoundedInduction, TLAPS

(* Among subsets of a finite set there is a minimal one.                   *)
LEMMA MinimalSubset ==
  ASSUME NEW S, IsFiniteSet(S), NEW T \in SUBSET (SUBSET S), T # {}
  PROVE  \E u \in T : \A w \in T : ~(w \subseteq u /\ w # u)
<1>1. IsWellFoundedOn(StrictSubsetOrdering(S), SUBSET S)
  BY FS_StrictSubsetOrderingWellFounded, FS_FiniteSubsetsOfFinite
<1>2. \E u \in T : \A w \in T : ~(<<w, u>> \in StrictSubsetOrdering(S))
  BY <1>1, WFMin
<1> QED BY <1>2 DEF StrictSubsetOrdering

(* Among naturals there is a least one.                                    *)
LEMMA LeastNatural ==
  ASSUME NEW T \in SUBSET Nat, T # {}
  PROVE  \E n \in T : \A m \in T : n <= m
<1>1. PICK k \in T : TRUE
  OBVIOUS
<1>2. PICK K : K = 0 .. k
  OBVIOUS
<1>3. PICK Down : Down = {s \in SUBSET K : \E m \in T : s = 0 .. m}
  OBVIOUS
<1>4. PICK u \in Down : \A w \in Down : ~(w \subseteq u /\ w # u)
  <2>1. Down \in SUBSET (SUBSET K) /\ K \in Down /\ IsFiniteSet(K)
    BY <1>2, <1>3, FS_Interval
  <2> QED BY <2>1, MinimalSubset
<1>5. PICK n \in T : u = 0 .. n
  BY <1>3
<1>6. ASSUME NEW m \in T, m < n PROVE FALSE
  <2>1. 0 .. m \subseteq 0 .. n /\ 0 .. m # 0 .. n
    BY <1>6
  <2>2. 0 .. m \in Down
    BY <2>1, <1>5, <1>3
  <2> QED BY <2>1, <2>2, <1>4, <1>5
<1> QED BY <1>5, <1>6

-----------------------------------------------------------------------------
(* The fold.                                                               *)

(* The element of s that is taken first.                                   *)
Pick(s) == CHOOSE x \in s : TRUE

(* One turn of the recursion: g is the fold if it is equal to this.        *)
Fold(f, g, S) == [s \in SUBSET S |-> IF s = {} THEN 0 ELSE f[Pick(s)] + g[s \ {Pick(s)}]]

LEMMA SumIsFold ==
  ASSUME NEW f, NEW S
  PROVE  SumFunctionOnSet(f, S) = (CHOOSE g : g = Fold(f, g, S))[S]
  BY DEF SumFunctionOnSet, FoldFunctionOnSet, MapThenFoldSet, Fold, Pick

LEMMA PickIn == ASSUME NEW s, s # {} PROVE Pick(s) \in s
  BY DEF Pick

(* A fold of a set, restricted, is one of a subset.                        *)
LEMMA FoldRestricts ==
  ASSUME NEW f, NEW S, NEW U \in SUBSET S, NEW g, g = Fold(f, g, S)
  PROVE  Restrict(g, SUBSET U) = Fold(f, Restrict(g, SUBSET U), U)
<1>0. PICK r : r = [s \in SUBSET U |-> g[s]]
  OBVIOUS
<1>1. ASSUME NEW s \in SUBSET U
      PROVE  r[s] = IF s = {} THEN 0 ELSE f[Pick(s)] + r[s \ {Pick(s)}]
  <2>1. s \in SUBSET S /\ s \ {Pick(s)} \in SUBSET U
    OBVIOUS
  <2>2. g[s] = IF s = {} THEN 0 ELSE f[Pick(s)] + g[s \ {Pick(s)}]
    BY <2>1 DEF Fold
  <2> QED BY <2>1, <2>2, <1>0
<1>2. r = [s \in SUBSET U |-> r[s]]
  BY <1>0
<1>3. r = Fold(f, r, U)
  BY <1>1, <1>2 DEF Fold
<1> QED BY <1>0, <1>3 DEF Restrict

(* There is at most one.                                                   *)
LEMMA FoldsAgree ==
  ASSUME NEW f, NEW S, IsFiniteSet(S), NEW g, g = Fold(f, g, S), NEW h, h = Fold(f, h, S)
  PROVE  g = h
<1> DEFINE T == {s \in SUBSET S : g[s] # h[s]}
<1>1. SUFFICES ASSUME T # {} PROVE FALSE
  <2>1. g = [s \in SUBSET S |-> g[s]] /\ h = [s \in SUBSET S |-> h[s]]
    BY DEF Fold
  <2> QED BY <2>1
<1>2. PICK u \in T : \A w \in T : ~(w \subseteq u /\ w # u)
  <2>1. T \in SUBSET (SUBSET S)
    OBVIOUS
  <2> HIDE DEF T
  <2> QED BY <2>1, <1>1, MinimalSubset
<1>3. /\ g[u] = IF u = {} THEN 0 ELSE f[Pick(u)] + g[u \ {Pick(u)}]
      /\ h[u] = IF u = {} THEN 0 ELSE f[Pick(u)] + h[u \ {Pick(u)}]
  BY DEF Fold
<1>4. u # {} /\ u \ {Pick(u)} \in SUBSET S /\ u \ {Pick(u)} # u
  BY <1>3, PickIn
<1>5. g[u \ {Pick(u)}] = h[u \ {Pick(u)}]
  BY <1>2, <1>4
<1> QED BY <1>3, <1>5

HasFold(f, S) == \E g : g = Fold(f, g, S)
TheFold(f, S) == CHOOSE g : g = Fold(f, g, S)

(* The fold of a set gives its subsets' sums.                              *)
LEMMA FoldOfFold ==
  ASSUME NEW f, NEW S, IsFiniteSet(S), HasFold(f, S), NEW U \in SUBSET S
  PROVE  /\ HasFold(f, U) 
         /\ TheFold(f, U)[U] = TheFold(f, S)[U]
<1>0. PICK g : g = TheFold(f, S)
  OBVIOUS
<1>9. PICK r : r = Restrict(g, SUBSET U)
  OBVIOUS
<1>1. r = Fold(f, r, U)
  <2>1. g = Fold(f, g, S)
    BY <1>0 DEF HasFold, TheFold
  <2> QED BY <2>1, <1>9, FoldRestricts
<1>2. HasFold(f, U)
  BY <1>1 DEF HasFold
<1>3. TheFold(f, U) = Fold(f, TheFold(f, U), U)
  BY <1>2 DEF HasFold, TheFold
<1>4. IsFiniteSet(U)
  BY FS_Subset
<1>5. r = TheFold(f, U)
  BY <1>1, <1>3, <1>4, FoldsAgree
<1>6. r[U] = TheFold(f, S)[U]
  BY <1>0, <1>9 DEF Restrict
<1> QED BY <1>2, <1>5, <1>6

(* There is one: that of a smallest set without one could be put together  *)
(* from those of its subsets.                                              *)
LEMMA FoldExists ==
  ASSUME NEW f, NEW S, IsFiniteSet(S)
  PROVE  HasFold(f, S)
<1> DEFINE T == {s \in SUBSET S : ~HasFold(f, s)}
<1>1. SUFFICES ASSUME T # {} PROVE FALSE
  OBVIOUS
<1>2. PICK u \in T : \A w \in T : ~(w \subseteq u /\ w # u)
  <2>1. T \in SUBSET (SUBSET S)
    OBVIOUS
  <2> HIDE DEF T
  <2> QED BY <2>1, <1>1, MinimalSubset
<1>3. ASSUME NEW w \in SUBSET u, w # u PROVE HasFold(f, w) /\ IsFiniteSet(w)
  BY <1>2, <1>3, FS_Subset
<1> DEFINE v == u \ {Pick(u)}
           g == [s \in SUBSET u |-> IF s = u /\ u # {} THEN f[Pick(u)] + TheFold(f, v)[v]
                                    ELSE IF s = {} THEN 0 ELSE TheFold(f, s)[s]]
<1>4. ASSUME NEW s \in SUBSET u
      PROVE  g[s] = IF s = {} THEN 0 ELSE f[Pick(s)] + g[s \ {Pick(s)}]
  <2>1. CASE s = {}
    BY <2>1
  <2>2. CASE s # {}
    <3> DEFINE t == s \ {Pick(s)}
    <3>1. Pick(s) \in s /\ t \in SUBSET u /\ t # u /\ t \in SUBSET s /\ t # s
      BY <2>2, PickIn
    <3>3. HasFold(f, t)
      BY <3>1, <1>3
    <3>4. TheFold(f, t) = Fold(f, TheFold(f, t), t)
      BY <3>3 DEF HasFold, TheFold
    <3>5. t = {} => TheFold(f, t)[t] = 0
      BY <3>4 DEF Fold
    <3>6. g[t] = TheFold(f, t)[t]
      BY <3>1, <3>5
    <3>7. CASE s = u
      BY <3>7, <2>2, <3>6
    <3>8. CASE s # u
      <4>1. HasFold(f, s) /\ IsFiniteSet(s)
        BY <3>8, <1>3
      <4>2. TheFold(f, s) = Fold(f, TheFold(f, s), s)
        BY <4>1 DEF HasFold, TheFold
      <4>3. TheFold(f, s)[s] = f[Pick(s)] + TheFold(f, s)[t]
        BY <4>2, <2>2 DEF Fold
      <4>4. TheFold(f, s)[t] = TheFold(f, t)[t]
        BY <4>1, <3>1, FoldOfFold
      <4> QED BY <4>3, <4>4, <3>6, <3>8, <2>2
    <3> QED BY <3>7, <3>8
  <2> QED BY <2>1, <2>2
<1> HIDE DEF g
<1>5. g = [s \in SUBSET u |-> g[s]]
  BY DEF g
<1>6. g = Fold(f, g, u)
  BY <1>4, <1>5 DEF Fold
<1> QED BY <1>2, <1>6 DEF HasFold

-----------------------------------------------------------------------------
(* The sum.                                                                *)

Sum(f, S) == SumFunctionOnSet(f, S)

LEMMA SumStep ==
  ASSUME NEW f, NEW S, IsFiniteSet(S)
  PROVE  Sum(f, S) = IF S = {} THEN 0 ELSE f[Pick(S)] + Sum(f, S \ {Pick(S)})
<1>1. PICK g : g = TheFold(f, S) /\ g = Fold(f, g, S)
  BY FoldExists DEF HasFold, TheFold
<1>2. Sum(f, S) = g[S]
  BY <1>1, SumIsFold DEF Sum, TheFold
<1>3. g[S] = IF S = {} THEN 0 ELSE f[Pick(S)] + g[S \ {Pick(S)}]
  BY <1>1 DEF Fold
<1>4. S \ {Pick(S)} \in SUBSET S
  OBVIOUS
<1>5. TheFold(f, S \ {Pick(S)})[S \ {Pick(S)}] = g[S \ {Pick(S)}]
  BY <1>1, <1>4, FoldExists, FoldOfFold
<1>6. Sum(f, S \ {Pick(S)}) = g[S \ {Pick(S)}]
  BY <1>5, SumIsFold DEF Sum, TheFold
<1> QED BY <1>2, <1>3, <1>6

LEMMA SumEmpty == ASSUME NEW f PROVE Sum(f, {}) = 0
  BY SumStep, FS_EmptySet

LEMMA SumInt ==
  ASSUME NEW f, NEW S, IsFiniteSet(S), \A x \in S : f[x] \in Int
  PROVE  Sum(f, S) \in Int
<1>1. PICK T : T = {s \in SUBSET S : Sum(f, s) \notin Int}
  OBVIOUS
<1>2. SUFFICES ASSUME T # {} PROVE FALSE
  BY <1>1
<1>3. PICK u \in T : \A w \in T : ~(w \subseteq u /\ w # u)
  BY <1>1, <1>2, MinimalSubset
<1>4. u \in SUBSET S /\ IsFiniteSet(u)
  BY <1>1, FS_Subset
<1>5. u # {}
  <2>1. Sum(f, {}) = 0
    BY SumEmpty
  <2> QED BY <2>1, <1>1
<1>6. Pick(u) \in u /\ f[Pick(u)] \in Int
  BY <1>4, <1>5, PickIn
<1>7. Sum(f, u \ {Pick(u)}) \in Int
  BY <1>1, <1>3, <1>6
<1>8. Sum(f, u) = f[Pick(u)] + Sum(f, u \ {Pick(u)})
  BY <1>4, <1>5, SumStep
<1> QED BY <1>1, <1>6, <1>7, <1>8

LEMMA SumNat ==
  ASSUME NEW f, NEW S, IsFiniteSet(S), \A x \in S : f[x] \in Nat
  PROVE  Sum(f, S) \in Nat
<1>1. PICK T : T = {s \in SUBSET S : Sum(f, s) \notin Nat}
  OBVIOUS
<1>2. SUFFICES ASSUME T # {} PROVE FALSE
  BY <1>1
<1>3. PICK u \in T : \A w \in T : ~(w \subseteq u /\ w # u)
  BY <1>1, <1>2, MinimalSubset
<1>4. u \in SUBSET S /\ IsFiniteSet(u)
  BY <1>1, FS_Subset
<1>5. u # {}
  <2>1. Sum(f, {}) \in Nat
    BY SumEmpty
  <2> QED BY <2>1, <1>1
<1>6. Pick(u) \in u /\ f[Pick(u)] \in Nat
  BY <1>4, <1>5, PickIn
<1>7. Sum(f, u \ {Pick(u)}) \in Nat
  BY <1>1, <1>3, <1>6
<1>8. Sum(f, u) = f[Pick(u)] + Sum(f, u \ {Pick(u)})
  BY <1>4, <1>5, SumStep
<1> QED BY <1>1, <1>6, <1>7, <1>8

(* Any element can be taken first.                                         *)
LEMMA SumTake ==
  ASSUME NEW f, NEW S, IsFiniteSet(S), \A x \in S : f[x] \in Int, NEW a \in S
  PROVE  Sum(f, S) = f[a] + Sum(f, S \ {a})
<1>1. PICK T : T = {s \in SUBSET S : \E x \in s : Sum(f, s) # f[x] + Sum(f, s \ {x})}
  OBVIOUS
<1>2. SUFFICES ASSUME T # {} PROVE FALSE
  BY <1>1
<1>3. PICK u \in T : \A w \in T : ~(w \subseteq u /\ w # u)
  <2>1. T \in SUBSET (SUBSET S)
    BY <1>1
  <2> QED BY <2>1, <1>2, MinimalSubset
<1>4. PICK x \in u : Sum(f, u) # f[x] + Sum(f, u \ {x})
  BY <1>1
<1>5. PICK p : p = Pick(u)
  OBVIOUS
<1>6. u \in SUBSET S /\ IsFiniteSet(u) /\ u # {} /\ p \in u
  BY <1>1, <1>4, <1>5, FS_Subset, PickIn
<1>7. Sum(f, u) = f[p] + Sum(f, u \ {p})
  BY <1>5, <1>6, SumStep
<1>8. x # p
  BY <1>4, <1>7
<1>9. PICK r : r = (u \ {p}) \ {x}
  OBVIOUS
<1>10. r = (u \ {x}) \ {p}
  BY <1>9
<1>11. Sum(f, u \ {p}) = f[x] + Sum(f, r)
  <2>1. u \ {p} \in SUBSET S /\ u \ {p} \subseteq u /\ u \ {p} # u /\ x \in u \ {p}
    BY <1>6, <1>8
  <2> QED BY <2>1, <1>1, <1>3, <1>9
<1>12. Sum(f, u \ {x}) = f[p] + Sum(f, r)
  <2>1. u \ {x} \in SUBSET S /\ u \ {x} \subseteq u /\ u \ {x} # u /\ p \in u \ {x}
    BY <1>6, <1>8
  <2> QED BY <2>1, <1>1, <1>3, <1>10
<1>13. f[x] \in Int /\ f[p] \in Int
  BY <1>6
<1>14. Sum(f, r) \in Int
  <2>1. IsFiniteSet(r) /\ \A y \in r : f[y] \in Int
    BY <1>6, <1>9, FS_Subset
  <2> QED BY <2>1, SumInt
<1> QED BY <1>4, <1>7, <1>11, <1>12, <1>13, <1>14

(* The sum of the differences is the difference of the sums.               *)
LEMMA SumMinus ==
  ASSUME NEW S, IsFiniteSet(S), NEW f, NEW g, NEW h,
         \A x \in S : f[x] \in Int /\ g[x] \in Int /\ h[x] = f[x] - g[x]
  PROVE  Sum(h, S) = Sum(f, S) - Sum(g, S)
<1>1. PICK T : T = {s \in SUBSET S : Sum(h, s) # Sum(f, s) - Sum(g, s)}
  OBVIOUS
<1>2. SUFFICES ASSUME T # {} PROVE FALSE
  BY <1>1
<1>3. PICK u \in T : \A w \in T : ~(w \subseteq u /\ w # u)
  BY <1>1, <1>2, MinimalSubset
<1>4. u \in SUBSET S /\ IsFiniteSet(u)
  BY <1>1, FS_Subset
<1>5. u # {}
  <2>1. Sum(f, {}) = 0 /\ Sum(g, {}) = 0 /\ Sum(h, {}) = 0
    BY SumEmpty
  <2> QED BY <2>1, <1>1
<1>6. PICK p : p = Pick(u)
  OBVIOUS
<1>7. p \in u /\ p \in S
  BY <1>4, <1>5, <1>6, PickIn
<1>8. PICK r : r = u \ {p}
  OBVIOUS
<1>9. Sum(h, r) = Sum(f, r) - Sum(g, r)
  BY <1>1, <1>3, <1>4, <1>7, <1>8
<1>10. /\ Sum(f, u) = f[p] + Sum(f, r)
       /\ Sum(g, u) = g[p] + Sum(g, r)
       /\ Sum(h, u) = h[p] + Sum(h, r)
  BY <1>4, <1>5, <1>6, <1>8, SumStep
<1>11. Sum(f, r) \in Int /\ Sum(g, r) \in Int
  <2>1. IsFiniteSet(r) /\ (\A y \in r : f[y] \in Int) /\ (\A y \in r : g[y] \in Int)
    BY <1>4, <1>8, FS_Subset
  <2> QED BY <2>1, SumInt
<1> QED BY <1>1, <1>7, <1>9, <1>10, <1>11

LEMMA SumAgree ==
  ASSUME NEW S, IsFiniteSet(S), NEW f, NEW g, \A x \in S : f[x] = g[x]
  PROVE  Sum(f, S) = Sum(g, S)
<1>1. PICK T : T = {s \in SUBSET S : Sum(f, s) # Sum(g, s)}
  OBVIOUS
<1>2. SUFFICES ASSUME T # {} PROVE FALSE
  BY <1>1
<1>3. PICK u \in T : \A w \in T : ~(w \subseteq u /\ w # u)
  BY <1>1, <1>2, MinimalSubset
<1>4. u \in SUBSET S /\ IsFiniteSet(u)
  BY <1>1, FS_Subset
<1>5. u # {}
  BY <1>1, SumEmpty
<1>6. PICK p : p = Pick(u)
  OBVIOUS
<1>7. p \in u /\ f[p] = g[p]
  BY <1>4, <1>5, <1>6, PickIn
<1>8. Sum(f, u \ {p}) = Sum(g, u \ {p})
  BY <1>1, <1>3, <1>4, <1>7
<1>9. Sum(f, u) = f[p] + Sum(f, u \ {p}) /\ Sum(g, u) = g[p] + Sum(g, u \ {p})
  BY <1>4, <1>5, <1>6, SumStep
<1> QED BY <1>1, <1>7, <1>8, <1>9

(* What is nowhere more than c sums to no more than c for each element.    *)
LEMMA SumAtMost ==
  ASSUME NEW f, NEW S, IsFiniteSet(S), NEW c \in Nat,
         \A x \in S : f[x] \in Nat /\ f[x] <= c
  PROVE  Sum(f, S) <= c * Cardinality(S)
<1>1. PICK T : T = {s \in SUBSET S : ~(Sum(f, s) <= c * Cardinality(s))}
  OBVIOUS
<1>2. SUFFICES ASSUME T # {} PROVE FALSE
  BY <1>1
<1>3. PICK u \in T : \A w \in T : ~(w \subseteq u /\ w # u)
  BY <1>1, <1>2, MinimalSubset
<1>4. u \in SUBSET S /\ IsFiniteSet(u)
  BY <1>1, FS_Subset
<1>5. u # {}
  <2>1. Sum(f, {}) = 0 /\ Cardinality({}) = 0
    BY SumEmpty, FS_EmptySet
  <2>2. c * 0 = 0 /\ 0 <= 0
    OBVIOUS
  <2>3. Sum(f, {}) <= c * Cardinality({})
    BY <2>1, <2>2
  <2> QED BY <1>1, <2>3
<1>6. PICK p : p = Pick(u)
  OBVIOUS
<1>7. p \in u /\ f[p] \in Nat /\ f[p] <= c
  BY <1>4, <1>5, <1>6, PickIn
<1>8. PICK w : w = u \ {p}
  OBVIOUS
<1>9. Sum(f, w) <= c * Cardinality(w)
  BY <1>1, <1>3, <1>4, <1>7, <1>8
<1>10. Sum(f, u) = f[p] + Sum(f, w)
  BY <1>4, <1>5, <1>6, <1>8, SumStep
<1>11. Sum(f, w) \in Nat
  <2>1. IsFiniteSet(w) /\ \A x \in w : f[x] \in Nat
    BY <1>4, <1>8, FS_Subset
  <2> QED BY <2>1, SumNat
<1>12. /\ Cardinality(w) \in Nat /\ Cardinality(u) \in Nat
       /\ Cardinality(u) = Cardinality(w) + 1
  <2>1. IsFiniteSet(w)
    BY <1>4, <1>8, FS_Subset
  <2>2. u = w \cup {p} /\ p \notin w
    BY <1>7, <1>8
  <2> QED BY <2>1, <2>2, FS_AddElement, FS_CardinalityType
<1>13. \A k \in Nat : c * (k + 1) = c + c * k /\ c * k \in Nat
  OBVIOUS
<1>14. f[p] + Sum(f, w) <= c * Cardinality(u)
  BY <1>7, <1>9, <1>11, <1>12, <1>13
<1> QED BY <1>1, <1>10, <1>14

(* A row moved down by one place sums to what it did where it came from.   *)
LEMMA SumShift ==
  ASSUME NEW n \in Nat, NEW f, NEW g,
         \A k \in 1 .. n : f[k + 1] \in Int /\ g[k] = f[k + 1]
  PROVE  Sum(g, 1 .. n) = Sum(f, 2 .. n + 1)
<1>1. PICK T : T = {m \in Nat : m <= n /\ Sum(g, 1 .. m) # Sum(f, 2 .. m + 1)}
  OBVIOUS
<1>2. SUFFICES ASSUME T # {} PROVE FALSE
  BY <1>1
<1>3. PICK m \in T : \A i \in T : m <= i
  BY <1>1, <1>2, LeastNatural
<1>4. m # 0
  <2>1. 1 .. 0 = {} /\ 2 .. 0 + 1 = {}
    OBVIOUS
  <2> QED BY <2>1, <1>1, SumEmpty
<1>5. m \in 1 .. n /\ m - 1 \in Nat
  BY <1>1, <1>4
<1>6. Sum(g, 1 .. m - 1) = Sum(f, 2 .. m)
  <2>1. m - 1 \notin T
    BY <1>3, <1>5
  <2>2. (m - 1) + 1 = m
    BY <1>5
  <2> QED BY <2>1, <2>2, <1>1, <1>5
<1>7. Sum(g, 1 .. m) = g[m] + Sum(g, 1 .. m - 1)
  <2> DEFINE K == 1 .. m
  <2>1. IsFiniteSet(K)
    BY <1>5, FS_Interval
  <2>2. m \in K /\ (\A k \in K : k \in 1 .. n) /\ K \ {m} = 1 .. m - 1
    BY <1>5
  <2> HIDE DEF K
  <2>3. \A k \in K : g[k] \in Int
    BY <2>2
  <2>4. Sum(g, K) = g[m] + Sum(g, K \ {m})
    BY <2>1, <2>2, <2>3, SumTake
  <2> QED BY <2>2, <2>4 DEF K
<1>8. Sum(f, 2 .. m + 1) = f[m + 1] + Sum(f, 2 .. m)
  <2> DEFINE K == 2 .. m + 1
             a == m + 1
  <2>1. IsFiniteSet(K)
    BY <1>5, FS_Interval
  <2>2. a \in K /\ (\A k \in K : k - 1 \in 1 .. n /\ (k - 1) + 1 = k) /\ K \ {a} = 2 .. m
    BY <1>5
  <2> HIDE DEF K, a
  <2>3. \A k \in K : f[k] \in Int
    BY <2>2
  <2>4. Sum(f, K) = f[a] + Sum(f, K \ {a})
    BY <2>1, <2>2, <2>3, SumTake
  <2> QED BY <2>2, <2>4 DEF K, a
<1> QED BY <1>1, <1>5, <1>6, <1>7, <1>8

(* A sum in two parts.                                                     *)
IntOn(f, S)     == \A x \in S : f[x] \in Int
Splits(f, S, U) == Sum(f, S) = Sum(f, S \cap U) + Sum(f, S \ U)

LEMMA SumSplit ==
  ASSUME NEW f, NEW S, NEW U, IsFiniteSet(S), \A x \in S : f[x] \in Int
  PROVE  Sum(f, S) = Sum(f, S \cap U) + Sum(f, S \ U)
<1>1. PICK T : T = {s \in SUBSET S : Sum(f, s) # Sum(f, s \cap U) + Sum(f, s \ U)}
  OBVIOUS
<1>2. SUFFICES ASSUME T # {} PROVE FALSE
  BY <1>1
<1>3. PICK u \in T : \A w \in T : ~(w \subseteq u /\ w # u)
  <2>1. T \in SUBSET (SUBSET S)
    BY <1>1
  <2> QED BY <2>1, <1>2, MinimalSubset
<1>4. u \in SUBSET S /\ IsFiniteSet(u)
  BY <1>1, FS_Subset
<1>5. u # {}
  <2>1. Sum(f, {}) = 0 /\ {} \cap U = {} /\ {} \ U = {}
    BY SumEmpty
  <2>2. Sum(f, {}) = Sum(f, {} \cap U) + Sum(f, {} \ U)
    BY <2>1
  <2> QED BY <2>2, <1>1
<1>6. PICK p : p = Pick(u)
  OBVIOUS
<1>7. PICK r : r = u \ {p}
  OBVIOUS
<1>8. p \in u /\ f[p] \in Int /\ r \in SUBSET S /\ r \subseteq u /\ r # u
  BY <1>4, <1>5, <1>6, <1>7, PickIn
<1>9. Sum(f, r) = Sum(f, r \cap U) + Sum(f, r \ U)
  BY <1>1, <1>3, <1>8
<1>10. Sum(f, u) = f[p] + Sum(f, r)
  BY <1>4, <1>5, <1>6, <1>7, SumStep
<1>11. PICK in, out : in = u \cap U /\ out = u \ U
  OBVIOUS
<1>12. /\ IsFiniteSet(in) /\ IsFiniteSet(out)
       /\ (\A x \in in : f[x] \in Int) /\ (\A x \in out : f[x] \in Int)
  BY <1>4, <1>11, FS_Subset
<1>13. Sum(f, r \cap U) \in Int /\ Sum(f, r \ U) \in Int
  <2>1. IsFiniteSet(r \cap U) /\ IsFiniteSet(r \ U)
    BY <1>4, <1>8, FS_Subset
  <2>2. (\A x \in r \cap U : f[x] \in Int) /\ (\A x \in r \ U : f[x] \in Int)
    BY <1>8
  <2> QED BY <2>1, <2>2, SumInt
<1>14. PICK a, b, c \in Int : a = Sum(f, r \cap U) /\ b = Sum(f, r \ U) /\ c = f[p]
  BY <1>8, <1>13
<1>15. Sum(f, u) = c + (a + b)
  BY <1>9, <1>10, <1>14
<1>16. Sum(f, u) # Sum(f, in) + Sum(f, out)
  BY <1>1, <1>11
<1>17. CASE p \in U
  <2>1. p \in in /\ in \ {p} = r \cap U /\ out = r \ U
    BY <1>7, <1>8, <1>11, <1>17
  <2>2. Sum(f, in) = f[p] + Sum(f, in \ {p})
    BY <1>12, <2>1, SumTake
  <2> QED BY <1>14, <1>15, <1>16, <2>1, <2>2
<1>18. CASE p \notin U
  <2>1. p \in out /\ out \ {p} = r \ U /\ in = r \cap U
    BY <1>7, <1>8, <1>11, <1>18
  <2>2. Sum(f, out) = f[p] + Sum(f, out \ {p})
    BY <1>12, <2>1, SumTake
  <2>3. Sum(f, in) = a /\ Sum(f, out) = c + b
    BY <1>14, <2>1, <2>2
  <2> QED BY <1>15, <1>16, <2>3
<1> QED BY <1>17, <1>18

LEMMA SumSplits ==
  ASSUME NEW f, NEW S, NEW U, IsFiniteSet(S), IntOn(f, S)
  PROVE  Splits(f, S, U)
<1>1. ASSUME NEW F, NEW s, NEW u, IsFiniteSet(s), \A x \in s : F[x] \in Int
      PROVE  Splits(F, s, u)
  BY <1>1, SumSplit DEF Splits
<1> QED BY <1>1 DEF IntOn

(* A sum of zeros.                                                         *)
LEMMA SumZero ==
  ASSUME NEW f, NEW S, IsFiniteSet(S), \A x \in S : f[x] = 0
  PROVE  Sum(f, S) = 0
<1>1. \A x \in S : f[x] \in Int /\ f[x] = f[x] - f[x]
  OBVIOUS
<1>2. Sum(f, S) = Sum(f, S) - Sum(f, S)
  BY <1>1, SumMinus
<1>3. Sum(f, S) \in Int
  BY <1>1, SumInt
<1> QED BY <1>2, <1>3

(* What is zero may be left out of a sum.                                  *)
ZeroOutside(f, S, U) == \A x \in S \ U : f[x] = 0

LEMMA SumSupport ==
  ASSUME NEW f, NEW S, NEW U, IsFiniteSet(S), IntOn(f, S), U \subseteq S, ZeroOutside(f, S, U)
  PROVE  Sum(f, S) = Sum(f, U)
<1>1. PICK R : R = S \ U
  OBVIOUS
<1>2. IsFiniteSet(R) /\ IsFiniteSet(U)
  BY <1>1, FS_Subset
<1>3. Sum(f, R) = 0
  BY <1>1, <1>2, SumZero DEF ZeroOutside
<1>4. Sum(f, U) \in Int
  BY <1>2, SumInt DEF IntOn
<1>5. Sum(f, S) = Sum(f, U) + Sum(f, R)
  <2>1. U = S \cap U
    OBVIOUS
  <2> QED BY <1>1, <2>1, SumSplits DEF Splits
<1> QED BY <1>3, <1>4, <1>5

-----------------------------------------------------------------------------
(* A loop.                                                                 *)

(* A value carried through n turns, each of which may do what it likes to  *)
(* it.                                                                     *)
Turns(step, n, V) == step \in [1 .. n -> [V -> V]]
Carried(h, step, n, V, base) ==
  h \in [0 .. n -> V] /\ h[0] = base /\ \A k \in 1 .. n : h[k] = step[k][h[k - 1]]

LEMMA LoopExists ==
  ASSUME NEW n \in Nat, NEW V, NEW base \in V, NEW step, Turns(step, n, V)
  PROVE  \E h : Carried(h, step, n, V, base)
<1> USE DEF Turns, Carried
<1>1. PICK T : T = {m \in 0 .. n : ~\E h \in [0 .. m -> V] :
                      h[0] = base /\ \A k \in 1 .. m : h[k] = step[k][h[k - 1]]}
  OBVIOUS
<1>2. SUFFICES ASSUME T # {} PROVE FALSE
  BY <1>1
<1>3. PICK m \in T : \A i \in T : m <= i
  <2>1. T \in SUBSET Nat
    BY <1>1
  <2> QED BY <2>1, <1>2, LeastNatural
<1>4. m # 0
  <2>1. PICK h : h = [k \in 0 .. 0 |-> base]
    OBVIOUS
  <2>2. h \in [0 .. 0 -> V] /\ h[0] = base /\ \A k \in 1 .. 0 : h[k] = step[k][h[k - 1]]
    BY <2>1
  <2> QED BY <1>1, <2>2
<1>5. m \in 1 .. n /\ m - 1 \in 0 .. n /\ m - 1 \notin T
  BY <1>1, <1>3, <1>4
<1>6. PICK g \in [0 .. m - 1 -> V] :
        g[0] = base /\ \A k \in 1 .. m - 1 : g[k] = step[k][g[k - 1]]
  BY <1>1, <1>5
<1>7. PICK h : h = [k \in 0 .. m |-> IF k = m THEN step[m][g[m - 1]] ELSE g[k]]
  OBVIOUS
<1>8. h \in [0 .. m -> V]
  <2>1. g[m - 1] \in V /\ step[m] \in [V -> V]
    BY <1>5, <1>6
  <2>2. \A k \in 0 .. m : k # m => g[k] \in V
    BY <1>5, <1>6
  <2> QED BY <1>7, <2>1, <2>2
<1>9. h[0] = base
  BY <1>5, <1>6, <1>7
<1>10. ASSUME NEW k \in 1 .. m PROVE h[k] = step[k][h[k - 1]]
  <2>1. h[k - 1] = g[k - 1]
    BY <1>5, <1>7
  <2>2. CASE k = m
    BY <1>5, <1>7, <2>1, <2>2
  <2>3. CASE k # m
    BY <1>5, <1>6, <1>7, <2>1, <2>3
  <2> QED BY <2>2, <2>3
<1> QED BY <1>1, <1>3, <1>8, <1>9, <1>10

-----------------------------------------------------------------------------
(* Powers of two.                                                          *)

(* The subsets of a set with one more element are twice as many.           *)
LEMMA PowersDouble ==
  ASSUME NEW n \in Nat
  PROVE  2 ^ (n + 1) = 2 * 2 ^ n
<1>1. PICK S : S = 1 .. n
  OBVIOUS
<1>2. PICK x : x = n + 1
  OBVIOUS
<1>3. IsFiniteSet(S) /\ Cardinality(S) = n /\ x \notin S
  <2>1. IsFiniteSet(1 .. n) /\ Cardinality(1 .. n) = n
    BY FS_Interval
  <2> QED BY <1>1, <1>2, <2>1
<1>4. PICK U : U = S \cup {x}
  OBVIOUS
<1>5. IsFiniteSet(U) /\ Cardinality(U) = n + 1
  BY <1>3, <1>4, FS_AddElement
<1>6. PICK A : A = SUBSET S
  OBVIOUS
<1>7. PICK B : B = {T \in SUBSET U : x \in T}
  OBVIOUS
<1>8. PICK f : f = [T \in A |-> T \cup {x}]
  OBVIOUS
<1>9. SUBSET U = A \cup B /\ A \cap B = {}
  BY <1>3, <1>4, <1>6, <1>7
<1>10. f \in Bijection(A, B)
  <2>1. \A T \in A : T \cup {x} \in B
    BY <1>4, <1>6, <1>7
  <2>2. f \in [A -> B]
    BY <1>8, <2>1
  <2>3. \A T1, T2 \in A : f[T1] = f[T2] => T1 = T2
    <3>1. \A T1, T2 \in A : T1 \cup {x} = T2 \cup {x} => T1 = T2
      BY <1>3, <1>6
    <3> QED BY <1>8, <3>1
  <2>4. \A T \in B : \E T1 \in A : f[T1] = T
    <3>1. ASSUME NEW T \in B PROVE T \ {x} \in A /\ f[T \ {x}] = T
      BY <1>4, <1>6, <1>7, <1>8
    <3> QED BY <3>1
  <2> QED BY <2>2, <2>3, <2>4 DEF Bijection, Injection, Surjection, IsInjective
<1>11. IsFiniteSet(A) /\ Cardinality(A) = 2 ^ n
  BY <1>3, <1>6, FS_SUBSET
<1>12. IsFiniteSet(B) /\ Cardinality(B) = 2 ^ n
  <2>1. ExistsBijection(A, B)
    BY <1>10 DEF ExistsBijection
  <2> QED BY <1>11, <2>1, FS_Bijection
<1>13. Cardinality(A \cap B) = 0
  BY <1>9, FS_EmptySet
<1>14. Cardinality(A \cup B) = 2 ^ n + 2 ^ n - 0
  BY <1>11, <1>12, <1>13, FS_Union
<1>15. Cardinality(SUBSET U) = 2 ^ (n + 1)
  BY <1>5, FS_SUBSET
<1>16. 2 ^ (n + 1) = 2 ^ n + 2 ^ n - 0
  BY <1>9, <1>14, <1>15
<1>17. \A p \in Int : p + p - 0 = 2 * p
  OBVIOUS
<1>18. 2 ^ n \in Int
  OBVIOUS
<1> QED BY <1>16, <1>17, <1>18

LEMMA PowersArePositive ==
  ASSUME NEW n \in Nat
  PROVE  2 ^ n \in Nat \ {0}
<1>1. PICK T : T = {m \in Nat : 2 ^ m \notin Nat \ {0}}
  OBVIOUS
<1>2. SUFFICES ASSUME T # {} PROVE FALSE
  BY <1>1
<1>3. PICK m \in T : \A i \in T : m <= i
  BY <1>1, <1>2, LeastNatural
<1>4. ASSUME NEW i, i = 0 PROVE 2 ^ i = 1
  <2>1. 2 ^ 0 = 1
    OBVIOUS
  <2> QED BY <1>4, <2>1, Zenon
<1>5. PICK k \in Nat : m = k + 1
  <2>1. m \in Nat /\ 2 ^ m \notin Nat \ {0}
    BY <1>1
  <2>2. m # 0
    BY <1>4, <2>1
  <2> QED BY <2>1, <2>2
<1>6. 2 ^ k \in Nat \ {0}
  BY <1>1, <1>3, <1>5
<1>7. 2 ^ m = 2 * 2 ^ k
  BY <1>5, PowersDouble
<1> QED BY <1>1, <1>6, <1>7

LEMMA PowersMultiply ==
  ASSUME NEW a \in Nat, NEW b \in Nat
  PROVE  2 ^ (a + b) = 2 ^ a * 2 ^ b
<1>1. PICK T : T = {m \in Nat : 2 ^ (a + m) # 2 ^ a * 2 ^ m}
  OBVIOUS
<1>2. SUFFICES ASSUME T # {} PROVE FALSE
  BY <1>1
<1>3. PICK m \in T : \A i \in T : m <= i
  BY <1>1, <1>2, LeastNatural
<1>4. PICK p \in Nat : p = 2 ^ a
  BY PowersArePositive
<1>5. m # 0
  <2>1. 2 ^ 0 = 1 /\ a + 0 = a
    OBVIOUS
  <2>2. 2 ^ a = 2 ^ a * 1
    BY <1>4
  <2> QED BY <1>1, <2>1, <2>2
<1>6. PICK k \in Nat : m = k + 1
  <2>1. m \in Nat
    BY <1>1
  <2> QED BY <1>5, <2>1
<1>7. PICK q \in Nat : q = 2 ^ k
  BY PowersArePositive
<1>8. 2 ^ (a + k) = p * q
  BY <1>1, <1>3, <1>4, <1>6, <1>7
<1>9. 2 ^ (a + m) = 2 * 2 ^ (a + k)
  <2>1. a + m = (a + k) + 1 /\ a + k \in Nat
    BY <1>6
  <2> QED BY <2>1, PowersDouble
<1>10. 2 ^ m = 2 * q
  BY <1>6, <1>7, PowersDouble
<1>11. 2 * (p * q) = p * (2 * q)
  OBVIOUS
<1> QED BY <1>1, <1>4, <1>8, <1>9, <1>10, <1>11

-----------------------------------------------------------------------------
(* Numbers as sums of powers of two.                                       *)

(* f gives each of the places 1 to n the power of two it stands for.       *)
Places(f, n) == \A a \in 1 .. n : f[a] = 2 ^ (a - 1)

Within(s, i, j) == s \in SUBSET (i .. j)

LEMMA PlacesAreNaturals ==
  ASSUME NEW n \in Nat, NEW f, Places(f, n), NEW s, Within(s, 1, n)
  PROVE  IsFiniteSet(s) /\ (\A a \in s : f[a] \in Int) /\ Sum(f, s) \in Nat
<1>1. IsFiniteSet(1 .. n)
  BY FS_Interval
<1>2. IsFiniteSet(s)
  BY <1>1, FS_Subset DEF Within
<1>3. \A a \in s : f[a] \in Nat
  <2>1. ASSUME NEW a \in s PROVE f[a] \in Nat
    <3>1. a - 1 \in Nat /\ f[a] = 2 ^ (a - 1)
      BY DEF Places, Within
    <3> QED BY <3>1, PowersArePositive
  <2> QED BY <2>1
<1>4. Sum(f, s) \in Nat
  BY <1>2, <1>3, SumNat
<1> QED BY <1>2, <1>3, <1>4

(* The first m places add up to less than the next one.                    *)
LEMMA LowPlaces ==
  ASSUME NEW n \in Nat, NEW f, Places(f, n), NEW m \in 0 .. n, NEW s, Within(s, 1, m)
  PROVE  Sum(f, s) < 2 ^ m
<1>1. PICK T : T = {i \in 0 .. n : \E u : Within(u, 1, i) /\ ~(Sum(f, u) < 2 ^ i)}
  OBVIOUS
<1>2. SUFFICES ASSUME T # {} PROVE FALSE
  BY <1>1
<1>3. PICK i \in T : \A j \in T : i <= j
  <2>1. T \in SUBSET Nat
    BY <1>1
  <2> QED BY <2>1, <1>2, LeastNatural
<1>4. PICK u : Within(u, 1, i) /\ ~(Sum(f, u) < 2 ^ i)
  BY <1>1
<1>5. i \in 0 .. n
  BY <1>1
<1>6. i # 0
  <2>1. ASSUME i = 0 PROVE FALSE
    <3>1. u = {}
      BY <1>4, <2>1 DEF Within
    <3>2. 2 ^ 0 = 1
      OBVIOUS
    <3>3. ~(Sum(f, u) < 2 ^ 0)
      BY <1>4, <2>1
    <3> QED BY <3>1, <3>2, <3>3, SumEmpty
  <2> QED BY <2>1
<1>7. PICK k \in Nat : i = k + 1
  BY <1>5, <1>6
<1>8. PICK w \in Nat : w = 2 ^ k
  BY PowersArePositive
<1>9. 2 ^ i = 2 * w
  BY <1>7, <1>8, PowersDouble
<1>10. \A v : Within(v, 1, k) => Sum(f, v) < w
  BY <1>1, <1>3, <1>5, <1>7, <1>8
<1>11. CASE i \notin u
  <2>1. Within(u, 1, k) /\ Within(u, 1, n)
    BY <1>4, <1>5, <1>7, <1>11 DEF Within
  <2>2. PICK x \in Nat : x = Sum(f, u)
    BY <2>1, PlacesAreNaturals
  <2> QED BY <1>4, <1>9, <1>10, <2>1, <2>2
<1>12. CASE i \in u
  <2>1. Within(u, 1, n)
    BY <1>4, <1>5 DEF Within
  <2>2. PICK v : v = u \ {i}
    OBVIOUS
  <2>3. Within(v, 1, k) /\ Within(v, 1, n)
    BY <1>4, <1>5, <1>7, <2>2 DEF Within
  <2>4. Sum(f, u) = f[i] + Sum(f, v)
    <3>1. IsFiniteSet(u)
      BY <2>1, PlacesAreNaturals
    <3>2. \A a \in u : f[a] \in Int
      BY <2>1, PlacesAreNaturals
    <3> QED BY <1>12, <2>2, <3>1, <3>2, SumTake
  <2>5. f[i] = w
    <3>1. i \in 1 .. n /\ i - 1 = k
      BY <1>5, <1>7
    <3> QED BY <1>8, <3>1 DEF Places
  <2>6. PICK x \in Nat : x = Sum(f, v)
    BY <2>3, PlacesAreNaturals
  <2>7. x < w
    BY <1>10, <2>3, <2>6
  <2>8. Sum(f, u) = w + x
    BY <2>4, <2>5, <2>6
  <2> QED BY <1>4, <1>9, <2>7, <2>8
<1> QED BY <1>11, <1>12

(* The places after the first m add up to a multiple of the next one.      *)
LEMMA HighPlaces ==
  ASSUME NEW n \in Nat, NEW f, Places(f, n), NEW m \in 0 .. n,
         NEW s, Within(s, m + 1, n)
  PROVE  \E k \in Nat : Sum(f, s) = 2 ^ m * k
<1>1. PICK T : T = {u \in SUBSET s : ~\E k \in Nat : Sum(f, u) = 2 ^ m * k}
  OBVIOUS
<1>2. SUFFICES ASSUME T # {} PROVE FALSE
  BY <1>1
<1>3. Within(s, 1, n)
  BY DEF Within
<1>4. PICK u \in T : \A v \in T : ~(v \subseteq u /\ v # u)
  <2>1. T \in SUBSET (SUBSET s)
    BY <1>1
  <2>2. IsFiniteSet(s)
    BY <1>3, PlacesAreNaturals
  <2> QED BY <2>1, <2>2, <1>2, MinimalSubset
<1>5. u \in SUBSET s /\ Within(u, 1, n)
  BY <1>1, <1>3 DEF Within
<1>6. PICK w \in Nat : w = 2 ^ m
  BY PowersArePositive
<1>7. u # {}
  <2>1. Sum(f, {}) = w * 0
    BY SumEmpty
  <2> QED BY <1>1, <1>6, <2>1
<1>8. PICK p : p \in u
  BY <1>7
<1>9. p \in (m + 1) .. n
  BY <1>5, <1>8 DEF Within
<1>10. PICK v : v = u \ {p}
  OBVIOUS
<1>11. PICK k \in Nat : Sum(f, v) = w * k
  <2>1. v \in SUBSET s /\ v \notin T
    BY <1>4, <1>5, <1>8, <1>10
  <2>2. \E k \in Nat : Sum(f, v) = 2 ^ m * k
    BY <1>1, <2>1
  <2> QED BY <1>6, <2>2
<1>12. Sum(f, u) = f[p] + Sum(f, v)
  <2>1. IsFiniteSet(u) /\ \A a \in u : f[a] \in Int
    BY <1>5, PlacesAreNaturals
  <2> QED BY <1>8, <1>10, <2>1, SumTake
<1>13. PICK d \in Nat : p - 1 = m + d
  <2>1. p - 1 - m \in Nat /\ p - 1 = m + (p - 1 - m)
    BY <1>9
  <2> QED BY <2>1
<1>14. PICK q \in Nat : q = 2 ^ d
  BY PowersArePositive
<1>15. f[p] = w * q
  <2>1. f[p] = 2 ^ (p - 1)
    BY <1>9 DEF Places
  <2>2. 2 ^ (m + d) = w * q
    BY <1>6, <1>14, PowersMultiply
  <2> QED BY <1>13, <2>1, <2>2
<1>16. w * q + w * k = w * (q + k) /\ q + k \in Nat
  OBVIOUS
<1>17. Sum(f, u) = w * (q + k)
  BY <1>11, <1>12, <1>15, <1>16
<1> QED BY <1>1, <1>6, <1>16, <1>17

(* Shifting and masking finds the places that were added.                  *)
LEMMA PlaceIsRead ==
  ASSUME NEW n \in Nat, NEW f, Places(f, n), NEW s, Within(s, 1, n), NEW a \in 1 .. n
  PROVE  (Sum(f, s) \div 2 ^ (a - 1)) % 2 = 1 <=> a \in s
<1>1. PICK m \in Nat : a = m + 1 /\ m = a - 1
  OBVIOUS
<1>2. PICK low, rest, at, high :
        /\ low = s \cap (1 .. m) /\ rest = s \ (1 .. m)
        /\ at = rest \cap {a} /\ high = rest \ {a}
  OBVIOUS
<1>3. /\ Within(low, 1, m) /\ Within(low, 1, n)
      /\ Within(rest, 1, n) /\ Within(at, 1, n)
      /\ Within(high, a + 1, n) /\ Within(high, 1, n)
      /\ m \in 0 .. n /\ a \in 0 .. n
      /\ at = IF a \in s THEN {a} ELSE {}
  BY <1>1, <1>2 DEF Within
<1>4. PICK w \in Nat \ {0} : w = 2 ^ m
  BY PowersArePositive
<1>5. PICK r \in Nat : r = Sum(f, low)
  BY <1>3, PlacesAreNaturals
<1>6. r < w
  BY <1>3, <1>4, <1>5, LowPlaces
<1>7. PICK k \in Nat : Sum(f, high) = 2 * w * k
  <2>1. a \in 0 .. n /\ Within(high, a + 1, n)
    BY <1>3
  <2>2. PICK k \in Nat : Sum(f, high) = 2 ^ a * k
    <3>1. PICK b \in 0 .. n : b = a /\ Within(high, b + 1, n)
      BY <2>1
    <3>2. \E k \in Nat : Sum(f, high) = 2 ^ b * k
      BY <3>1, HighPlaces
    <3> QED BY <3>1, <3>2
  <2>3. 2 ^ a = 2 * w
    BY <1>1, <1>4, PowersDouble
  <2> QED BY <2>2, <2>3
<1>8. PICK e \in {0, 1} : e = IF a \in s THEN 1 ELSE 0
  OBVIOUS
<1>9. Sum(f, at) = w * e
  <2>1. CASE a \in s
    <3>1. at = {a} /\ IsFiniteSet(at) /\ \A b \in at : f[b] \in Int
      BY <1>3, <2>1, PlacesAreNaturals
    <3>2. Sum(f, at) = f[a] + Sum(f, at \ {a})
      BY <3>1, SumTake
    <3>3. at \ {a} = {}
      BY <3>1
    <3>4. f[a] = w
      BY <1>1, <1>4 DEF Places
    <3>5. Sum(f, {}) = 0
      BY SumEmpty
    <3> QED BY <1>8, <2>1, <3>2, <3>3, <3>4, <3>5
  <2>2. CASE a \notin s
    BY <1>3, <1>8, <2>2, SumEmpty
  <2> QED BY <2>1, <2>2
<1>10. Sum(f, s) = Sum(f, low) + Sum(f, rest)
  <2>1. IsFiniteSet(s) /\ IntOn(f, s)
    BY PlacesAreNaturals DEF IntOn
  <2>2. Splits(f, s, 1 .. m)
    BY <2>1, SumSplits
  <2> QED BY <1>2, <2>2 DEF Splits
<1>11. Sum(f, rest) = Sum(f, at) + Sum(f, high)
  <2>1. IsFiniteSet(rest) /\ IntOn(f, rest)
    BY <1>3, PlacesAreNaturals DEF IntOn
  <2>2. Splits(f, rest, {a})
    BY <2>1, SumSplits
  <2> QED BY <1>2, <2>2 DEF Splits
<1>12. PICK c \in Nat : c = e + 2 * k
  BY <1>8
<1>13. Sum(f, s) = r + w * c
  <2>1. w * e + 2 * w * k = w * c
    BY <1>12
  <2> QED BY <1>5, <1>7, <1>9, <1>10, <1>11, <2>1
<1>14. (r + w * c) \div w = c
  BY <1>6
<1>15. c % 2 = e
  BY <1>8, <1>12
<1> QED BY <1>1, <1>4, <1>8, <1>13, <1>14, <1>15
=============================================================================
