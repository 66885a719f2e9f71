----------------------------- MODULE FiniteSums -----------------------------
(***************************************************************************)
(* Sums over finite sets: what MapThenSumSet computes when the summand is  *)
(* a function.  The community module defines it by a recursive function on *)
(* the subsets of the set; that such a function exists, and that it does   *)
(* not matter which element is taken first, is proved here from the fact   *)
(* that every set of subsets of a finite set has a minimal element.        *)
(***************************************************************************)
EXTENDS Integers, FiniteSets, FiniteSetsExt, FiniteSetTheorems, WellFoundedInduction, TLAPS

SumOver(f, S) == MapThenSumSet(LAMBDA x : f[x], S)

\* The sum over s, when g has the sums over the smaller sets.
Part(f, g, s) ==
    IF s = {} THEN 0 ELSE f[CHOOSE x \in s : TRUE] + g[s \ {CHOOSE x \in s : TRUE}]

\* g has the sums of f over the subsets of t.
IsPartial(f, g, t) == g = [s \in SUBSET t |-> Part(f, g, s)]

\* Every non-empty set of subsets of a finite set has a minimal element.
LEMMA MinimalSubset ==
    ASSUME NEW S, IsFiniteSet(S), NEW B, B \subseteq SUBSET S, B # {}
    PROVE  \E m \in B : \A s \in B : s \subseteq m => s = m
<1>1. IsWellFoundedOn(StrictSubsetOrdering(S), SUBSET S)
    BY FS_StrictSubsetOrderingWellFounded, FS_FiniteSubsetsOfFinite
<1>2. PICK m \in B : \A s \in B : <<s, m>> \notin StrictSubsetOrdering(S)
    <2> DEFINE R == StrictSubsetOrdering(S)  T == SUBSET S
    <2> HIDE DEF R, T
    <2> SUFFICES \E m \in B : \A s \in B : ~(<<s, m>> \in R) BY DEF R
    <2>1. IsWellFoundedOn(R, T) /\ B \subseteq T BY <1>1 DEF R, T
    <2> QED BY <2>1, WFMin
<1> QED BY <1>2 DEF StrictSubsetOrdering

\* The definition of the sum.
LEMMA SumUnfold ==
    ASSUME NEW f, NEW S
    PROVE  SumOver(f, S) = (CHOOSE g : IsPartial(f, g, S))[S]
BY DEF SumOver, MapThenSumSet, MapThenFoldSet, IsPartial, Part

\* There is one such function.
LEMMA PartialUnique ==
    ASSUME NEW f, NEW t, IsFiniteSet(t), NEW g, NEW h, IsPartial(f, g, t), IsPartial(f, h, t)
    PROVE  g = h
<1> DEFINE B == {s \in SUBSET t : g[s] # h[s]}
<1>1. SUFFICES B = {}
    <2>1. g = [s \in SUBSET t |-> g[s]] /\ h = [s \in SUBSET t |-> h[s]] BY DEF IsPartial
    <2>2. \A s \in SUBSET t : g[s] = h[s] BY <1>1
    <2> HIDE DEF B
    <2> QED BY ONLY <2>1, <2>2, Zenon
<1>2. SUFFICES ASSUME B # {} PROVE FALSE OBVIOUS
<1>3. PICK m \in B : \A s \in B : s \subseteq m => s = m
    <2>1. B \subseteq SUBSET t OBVIOUS
    <2> HIDE DEF B
    <2> QED BY <1>2, <2>1, MinimalSubset
<1>4. g[m] = Part(f, g, m) /\ h[m] = Part(f, h, m) BY DEF IsPartial
<1>5. m # {} BY <1>3, <1>4 DEF Part
<1> DEFINE r == m \ {CHOOSE x \in m : TRUE}
<1>6. r \subseteq m /\ r # m BY <1>5
<1>7. g[r] = h[r] BY <1>3, <1>6
<1> QED BY <1>3, <1>4, <1>5, <1>7 DEF Part

\* Its restriction to the subsets of a smaller set is that set's.
LEMMA PartialRestrict ==
    ASSUME NEW f, NEW t, NEW g, IsPartial(f, g, t), NEW r \in SUBSET t
    PROVE  IsPartial(f, [s \in SUBSET r |-> g[s]], r)
<1> DEFINE h == [s \in SUBSET r |-> g[s]]
<1>1. ASSUME NEW s \in SUBSET r PROVE h[s] = Part(f, h, s)
    <2>1. h[s] = Part(f, g, s) BY DEF IsPartial
    <2>2. h[s \ {CHOOSE x \in s : TRUE}] = g[s \ {CHOOSE x \in s : TRUE}] OBVIOUS
    <2> HIDE DEF h
    <2> QED BY <2>1, <2>2 DEF Part
<1>2. h = [s \in SUBSET r |-> h[s]] OBVIOUS
<1> HIDE DEF h
<1>3. h = [s \in SUBSET r |-> Part(f, h, s)] BY <1>1, <1>2, Zenon
<1> QED BY <1>3 DEF IsPartial, h

\* It exists: the least subset without one would have one, put together from
\* those of its own subsets.
LEMMA PartialExists ==
    ASSUME NEW f, NEW S, IsFiniteSet(S)
    PROVE  \E g : IsPartial(f, g, S)
<1> DEFINE B == {t \in SUBSET S : ~ \E g : IsPartial(f, g, t)}
<1> SUFFICES ASSUME B # {} PROVE FALSE OBVIOUS
<1>1. PICK t \in B : \A s \in B : s \subseteq t => s = t
    <2>1. B \subseteq SUBSET S OBVIOUS
    <2> HIDE DEF B
    <2> QED BY <2>1, MinimalSubset
<1>2. t \in SUBSET S /\ \A r \in SUBSET t : IsFiniteSet(r) BY FS_Subset
<1> DEFINE k(r) == CHOOSE g : IsPartial(f, g, r)
           h == [r \in SUBSET t |-> k(r)[r]]
           g == [s \in SUBSET t |-> Part(f, h, s)]
           less(s) == s \ {CHOOSE x \in s : TRUE}
<1>3. ASSUME NEW r \in SUBSET t, r # t PROVE IsPartial(f, k(r), r)
    BY <1>1, <1>2, <1>3
<1>4. ASSUME NEW s \in SUBSET t, s # {} PROVE less(s) \in SUBSET t /\ less(s) # t
    BY <1>4
<1>5. ASSUME NEW r \in SUBSET t, r # t PROVE g[r] = h[r]
    <2> HIDE DEF B
    <2>1. k(r)[r] = Part(f, k(r), r)
        <3> HIDE DEF k
        <3> QED BY <1>3, <1>5 DEF IsPartial
    <2>2. ASSUME r # {} PROVE k(less(r))[less(r)] = k(r)[less(r)]
        <3>1. less(r) \in SUBSET t /\ less(r) # t BY <1>4, <2>2
        <3>2. less(r) \in SUBSET r OBVIOUS
        <3> HIDE DEF k, less
        <3>3. IsPartial(f, k(less(r)), less(r)) BY <1>3, <3>1
        <3>4. IsPartial(f, [s \in SUBSET less(r) |-> k(r)[s]], less(r))
            BY <1>3, <1>5, <3>2, PartialRestrict
        <3>5. k(less(r)) = [s \in SUBSET less(r) |-> k(r)[s]]
            BY <1>2, <3>1, <3>3, <3>4, PartialUnique
        <3> DEFINE q == less(r)  m == [s \in SUBSET q |-> k(r)[s]]
        <3>6. k(q)[q] = m[q] BY <3>5
        <3>7. m[q] = k(r)[q] OBVIOUS
        <3> QED BY <3>6, <3>7
    <2>3. ASSUME r # {} PROVE h[less(r)] = k(less(r))[less(r)]
        BY <1>4, <2>3
    <2>4. g[r] = Part(f, h, r) /\ h[r] = k(r)[r] OBVIOUS
    <2> HIDE DEF k, h, g
    <2>5. Part(f, h, r) = Part(f, k(r), r) BY <2>2, <2>3 DEF Part
    <2> QED BY <2>1, <2>4, <2>5
<1>6. ASSUME NEW s \in SUBSET t PROVE g[s] = Part(f, g, s)
    <2>1. ASSUME s # {} PROVE g[less(s)] = h[less(s)]
        <3>1. less(s) \in SUBSET t /\ less(s) # t BY <1>4, <2>1
        <3> HIDE DEF g, h, less
        <3> QED BY <1>5, <3>1
    <2>2. g[s] = Part(f, h, s) OBVIOUS
    <2> HIDE DEF g, h
    <2> QED BY <2>1, <2>2 DEF Part
<1>7. g = [s \in SUBSET t |-> Part(f, g, s)]
    <2>1. g = [s \in SUBSET t |-> g[s]] OBVIOUS
    <2> HIDE DEF g
    <2> QED BY <1>6, <2>1, Zenon
<1> HIDE DEF g
<1> QED BY <1>1, <1>7 DEF IsPartial

\* The empty sum.
LEMMA SumEmpty ==
    ASSUME NEW f
    PROVE  SumOver(f, {}) = 0
<1> DEFINE g == CHOOSE g : IsPartial(f, g, {})
<1>1. IsPartial(f, g, {}) BY PartialExists, FS_EmptySet
<1>2. SumOver(f, {}) = g[{}] BY SumUnfold
<1> HIDE DEF g
<1> QED BY <1>1, <1>2 DEF IsPartial, Part

\* A sum without the element that is taken first.
LEMMA SumChosen ==
    ASSUME NEW f, NEW S, IsFiniteSet(S), S # {}
    PROVE  LET x == CHOOSE x \in S : TRUE
           IN  SumOver(f, S) = f[x] + SumOver(f, S \ {x})
<1> DEFINE x == CHOOSE x \in S : TRUE  T == S \ {x}
           g == CHOOSE g : IsPartial(f, g, S)   h == CHOOSE h : IsPartial(f, h, T)
           m == [s \in SUBSET T |-> g[s]]
<1>1. IsFiniteSet(T) BY FS_RemoveElement
<1>2. IsPartial(f, g, S) BY PartialExists
<1>3. IsPartial(f, h, T) BY <1>1, PartialExists
<1>4. SumOver(f, S) = g[S] /\ SumOver(f, T) = h[T] BY SumUnfold
<1>5. g[S] = Part(f, g, S)
    <2> HIDE DEF g
    <2> QED BY <1>2 DEF IsPartial
<1>6. Part(f, g, S) = f[x] + g[T] BY DEF Part
<1>7. T \in SUBSET S OBVIOUS
<1>8. m[T] = g[T] OBVIOUS
<1> HIDE DEF g, h, T
<1>9. h = m
    <2>1. IsPartial(f, m, T) BY <1>2, <1>7, PartialRestrict
    <2> HIDE DEF m
    <2> QED BY <1>1, <1>3, <2>1, PartialUnique
<1> HIDE DEF m
<1> QED BY <1>4, <1>5, <1>6, <1>8, <1>9 DEF T

-----------------------------------------------------------------------------
(***************************************************************************)
(* Sums of integers and of natural numbers.                                *)
(***************************************************************************)
\* A sum of integers is one.
LEMMA SumInt ==
    ASSUME NEW f, NEW S, IsFiniteSet(S), \A x \in S : f[x] \in Int
    PROVE  SumOver(f, S) \in Int
<1> DEFINE B == {s \in SUBSET S : SumOver(f, s) \notin Int}
<1> SUFFICES ASSUME B # {} PROVE FALSE OBVIOUS
<1>1. PICK m \in B : \A s \in B : s \subseteq m => s = m
    <2>1. B \subseteq SUBSET S OBVIOUS
    <2> HIDE DEF B
    <2> QED BY <2>1, MinimalSubset
<1>2. m # {}
    <2>1. SumOver(f, {}) = 0 BY SumEmpty
    <2>2. SumOver(f, m) \notin Int BY <1>1
    <2> QED BY <2>1, <2>2
<1> DEFINE x == CHOOSE x \in m : TRUE
<1>3. x \in m /\ m \ {x} \in SUBSET S /\ m \ {x} # m BY <1>2
<1>4. SumOver(f, m \ {x}) \in Int BY <1>1, <1>3
<1>5. IsFiniteSet(m) BY FS_Subset
<1>6. SumOver(f, m) = f[x] + SumOver(f, m \ {x}) BY <1>2, <1>5, SumChosen
<1>7. SumOver(f, m) \in Int BY <1>3, <1>4, <1>6
<1> QED BY <1>1, <1>7

\* Any element may be taken first.
LEMMA SumRemove ==
    ASSUME NEW f, NEW S, IsFiniteSet(S), \A x \in S : f[x] \in Int, NEW y \in S
    PROVE  SumOver(f, S) = f[y] + SumOver(f, S \ {y})
<1> DEFINE B == {s \in SUBSET S : \E z \in s : SumOver(f, s) # f[z] + SumOver(f, s \ {z})}
<1> SUFFICES ASSUME B # {} PROVE FALSE OBVIOUS
<1>1. PICK m \in B : \A s \in B : s \subseteq m => s = m
    <2>1. B \subseteq SUBSET S OBVIOUS
    <2> HIDE DEF B
    <2> QED BY <2>1, MinimalSubset
<1>2. PICK z \in m : SumOver(f, m) # f[z] + SumOver(f, m \ {z}) BY <1>1
<1> DEFINE x == CHOOSE x \in m : TRUE
<1>3. x \in m BY <1>2
<1>4. \A t \in SUBSET S : IsFiniteSet(t) /\ SumOver(f, t) \in Int BY FS_Subset, SumInt
<1>5. SumOver(f, m) = f[x] + SumOver(f, m \ {x}) BY <1>3, <1>4, SumChosen
<1> HIDE DEF x
<1>6. x # z BY <1>2, <1>5
<1> DEFINE t == m \ {x}  u == m \ {z}  v == m \ {x, z}
<1>7. t \ {z} = v /\ u \ {x} = v /\ z \in t /\ x \in u BY <1>2, <1>3, <1>6
<1>8. t \in SUBSET S /\ u \in SUBSET S /\ v \in SUBSET S OBVIOUS
<1>9. t \notin B /\ u \notin B BY <1>1, <1>2, <1>3
<1>10. SumOver(f, t) = f[z] + SumOver(f, t \ {z}) BY <1>7, <1>8, <1>9
<1>11. SumOver(f, u) = f[x] + SumOver(f, u \ {x}) BY <1>7, <1>8, <1>9
<1>12. f[x] \in Int /\ f[z] \in Int BY <1>2, <1>3
<1>13. SumOver(f, v) \in Int BY <1>4, <1>8
<1>14. SumOver(f, t) = f[z] + SumOver(f, v) /\ SumOver(f, u) = f[x] + SumOver(f, v)
    <2> HIDE DEF t, u, v
    <2> QED BY <1>7, <1>10, <1>11
<1>15. SumOver(f, m) = f[x] + (f[z] + SumOver(f, v)) BY <1>5, <1>14
<1>16. SumOver(f, m) = f[z] + (f[x] + SumOver(f, v))
    <2> HIDE DEF v
    <2> QED BY <1>12, <1>13, <1>15
<1> QED BY <1>2, <1>14, <1>16

\* One more summand.
LEMMA SumAdd ==
    ASSUME NEW f, NEW S, IsFiniteSet(S), NEW y, y \notin S, \A x \in S \cup {y} : f[x] \in Int
    PROVE  SumOver(f, S \cup {y}) = f[y] + SumOver(f, S)
<1>1. IsFiniteSet(S \cup {y}) /\ (S \cup {y}) \ {y} = S BY FS_AddElement
<1> DEFINE T == S \cup {y}
<1>2. y \in T /\ T \ {y} = S BY <1>1
<1> HIDE DEF T
<1>3. SumOver(f, T) = f[y] + SumOver(f, T \ {y}) BY <1>1, <1>2, SumRemove DEF T
<1> QED BY <1>2, <1>3 DEF T

\* Sums compare as their summands do.
LEMMA SumMonotone ==
    ASSUME NEW f, NEW g, NEW S, IsFiniteSet(S),
           \A x \in S : f[x] \in Int /\ g[x] \in Int /\ f[x] <= g[x]
    PROVE  SumOver(f, S) <= SumOver(g, S)
<1> DEFINE B == {s \in SUBSET S : ~(SumOver(f, s) <= SumOver(g, s))}
<1> SUFFICES ASSUME B # {} PROVE FALSE OBVIOUS
<1>1. PICK m \in B : \A s \in B : s \subseteq m => s = m
    <2>1. B \subseteq SUBSET S OBVIOUS
    <2> HIDE DEF B
    <2> QED BY <2>1, MinimalSubset
<1>2. m # {}
    <2>1. SumOver(f, {}) = 0 /\ SumOver(g, {}) = 0 BY SumEmpty
    <2>2. ~(SumOver(f, m) <= SumOver(g, m)) BY <1>1
    <2> QED BY <2>1, <2>2
<1>3. PICK x \in m : TRUE BY <1>2
<1>4. \A t \in SUBSET S : IsFiniteSet(t) /\ SumOver(f, t) \in Int /\ SumOver(g, t) \in Int
    BY FS_Subset, SumInt
<1>5. SumOver(f, m) = f[x] + SumOver(f, m \ {x}) BY <1>4, SumRemove
<1>6. SumOver(g, m) = g[x] + SumOver(g, m \ {x}) BY <1>4, SumRemove
<1>7. m \ {x} \in SUBSET S /\ m \ {x} \notin B BY <1>1, <1>3
<1>8. SumOver(f, m \ {x}) <= SumOver(g, m \ {x}) BY <1>7
<1> QED BY <1>1, <1>4, <1>5, <1>6, <1>7, <1>8

\* Only the summands count.
LEMMA SumAgree ==
    ASSUME NEW f, NEW g, NEW S, IsFiniteSet(S),
           \A x \in S : f[x] \in Int /\ f[x] = g[x]
    PROVE  SumOver(f, S) = SumOver(g, S)
<1>1. SumOver(f, S) <= SumOver(g, S) BY SumMonotone
<1>2. SumOver(g, S) <= SumOver(f, S) BY SumMonotone
<1>3. SumOver(f, S) \in Int /\ SumOver(g, S) \in Int BY SumInt
<1> QED BY <1>1, <1>2, <1>3

\* One summand is changed.
LEMMA SumUpdate ==
    ASSUME NEW f, NEW g, NEW S, IsFiniteSet(S), NEW y \in S,
           \A x \in S : f[x] \in Int /\ g[x] \in Int,
           \A x \in S \ {y} : g[x] = f[x]
    PROVE  SumOver(g, S) = SumOver(f, S) + g[y] - f[y]
<1>1. IsFiniteSet(S \ {y}) BY FS_RemoveElement
<1>2. SumOver(g, S \ {y}) = SumOver(f, S \ {y}) BY <1>1, SumAgree
<1>3. SumOver(f, S) = f[y] + SumOver(f, S \ {y}) BY SumRemove
<1>4. SumOver(g, S) = g[y] + SumOver(g, S \ {y}) BY SumRemove
<1>5. SumOver(f, S \ {y}) \in Int BY <1>1, SumInt
<1> QED BY <1>2, <1>3, <1>4, <1>5

\* A sum of zeros.
LEMMA SumZero ==
    ASSUME NEW f, NEW S, IsFiniteSet(S), \A x \in S : f[x] = 0
    PROVE  SumOver(f, S) = 0
<1> DEFINE B == {s \in SUBSET S : SumOver(f, s) # 0}
<1> SUFFICES ASSUME B # {} PROVE FALSE OBVIOUS
<1>1. PICK m \in B : \A s \in B : s \subseteq m => s = m
    <2>1. B \subseteq SUBSET S OBVIOUS
    <2> HIDE DEF B
    <2> QED BY <2>1, MinimalSubset
<1>2. m # {}
    <2>1. SumOver(f, {}) = 0 BY SumEmpty
    <2> QED BY <1>1, <2>1
<1>3. PICK x \in m : TRUE BY <1>2
<1>4. IsFiniteSet(m) /\ \A y \in m : f[y] = 0 BY FS_Subset
<1>5. SumOver(f, m \ {x}) = 0 BY <1>1, <1>3
<1>6. SumOver(f, m) = f[x] + SumOver(f, m \ {x}) BY <1>4, SumRemove
<1> QED BY <1>1, <1>3, <1>4, <1>5, <1>6

\* A sum of natural numbers is at least each of them.
LEMMA SumNat ==
    ASSUME NEW f, NEW S, IsFiniteSet(S), \A x \in S : f[x] \in Nat
    PROVE  /\ SumOver(f, S) \in Nat
           /\ \A x \in S : f[x] <= SumOver(f, S)
<1>1. ASSUME NEW T \in SUBSET S PROVE SumOver(f, T) \in Nat
    <2> DEFINE z == [x \in T |-> 0]
    <2>1. IsFiniteSet(T) BY FS_Subset
    <2>2. \A x \in T : z[x] = 0 OBVIOUS
    <2> HIDE DEF z
    <2>3. SumOver(z, T) = 0 BY <2>1, <2>2, SumZero
    <2>4. SumOver(z, T) <= SumOver(f, T) BY <2>1, <2>2, SumMonotone
    <2>5. SumOver(f, T) \in Int BY <2>1, SumInt
    <2> QED BY <2>3, <2>4, <2>5
<1>2. ASSUME NEW x \in S PROVE f[x] <= SumOver(f, S)
    <2>1. SumOver(f, S) = f[x] + SumOver(f, S \ {x}) BY SumRemove
    <2>2. SumOver(f, S \ {x}) \in Nat BY <1>1
    <2> QED BY <2>1, <2>2
<1> QED BY <1>1, <1>2

\* Fewer summands, none of them negative.
LEMMA SumSubset ==
    ASSUME NEW f, NEW S, IsFiniteSet(S), NEW T \in SUBSET S, \A x \in S : f[x] \in Nat
    PROVE  SumOver(f, T) <= SumOver(f, S)
<1> DEFINE B == {s \in SUBSET S : T \subseteq s /\ ~(SumOver(f, T) <= SumOver(f, s))}
<1> SUFFICES ASSUME B # {} PROVE FALSE OBVIOUS
<1>1. PICK m \in B : \A s \in B : s \subseteq m => s = m
    <2>1. B \subseteq SUBSET S OBVIOUS
    <2> HIDE DEF B
    <2> QED BY <2>1, MinimalSubset
<1>2. \A t \in SUBSET S : IsFiniteSet(t) /\ SumOver(f, t) \in Nat BY FS_Subset, SumNat
<1>3. m # T BY <1>1, <1>2
<1>4. PICK x \in m : x \notin T BY <1>1, <1>3
<1>5. SumOver(f, m) = f[x] + SumOver(f, m \ {x}) BY <1>2, SumRemove
<1>6. m \ {x} \in SUBSET S /\ T \subseteq m \ {x} /\ m \ {x} \notin B BY <1>1, <1>4
<1>7. SumOver(f, T) <= SumOver(f, m \ {x}) BY <1>6
<1>8. f[x] \in Nat /\ SumOver(f, m \ {x}) \in Nat /\ SumOver(f, T) \in Nat BY <1>2, <1>6
<1> QED BY <1>1, <1>5, <1>7, <1>8

\* A bound on every summand, in units of k, bounds the sum.
LEMMA SumScaled ==
    ASSUME NEW f, NEW g, NEW S, IsFiniteSet(S), NEW k \in Nat,
           \A x \in S : f[x] \in Int /\ g[x] \in Int /\ k * f[x] <= g[x]
    PROVE  k * SumOver(f, S) <= SumOver(g, S)
<1> DEFINE B == {s \in SUBSET S : ~(k * SumOver(f, s) <= SumOver(g, s))}
<1> SUFFICES ASSUME B # {} PROVE FALSE OBVIOUS
<1>1. PICK m \in B : \A s \in B : s \subseteq m => s = m
    <2>1. B \subseteq SUBSET S OBVIOUS
    <2> HIDE DEF B
    <2> QED BY <2>1, MinimalSubset
<1>2. m # {}
    <2>1. SumOver(f, {}) = 0 /\ SumOver(g, {}) = 0 BY SumEmpty
    <2>2. k * 0 = 0 OBVIOUS
    <2>3. k * SumOver(f, {}) <= SumOver(g, {}) BY <2>1, <2>2
    <2>4. ~(k * SumOver(f, m) <= SumOver(g, m)) BY <1>1
    <2> QED BY <2>3, <2>4, Zenon
<1>3. PICK x \in m : TRUE BY <1>2
<1>4. \A t \in SUBSET S : IsFiniteSet(t) /\ SumOver(f, t) \in Int /\ SumOver(g, t) \in Int
    BY FS_Subset, SumInt
<1> DEFINE a == SumOver(f, m \ {x})  b == SumOver(g, m \ {x})
<1>5. SumOver(f, m) = f[x] + a BY <1>4, SumRemove
<1>6. SumOver(g, m) = g[x] + b BY <1>4, SumRemove
<1>7. m \ {x} \in SUBSET S /\ m \ {x} \notin B BY <1>1, <1>3
<1>8. k * a <= b BY <1>7
<1>9. a \in Int /\ b \in Int /\ f[x] \in Int /\ g[x] \in Int /\ k * f[x] <= g[x]
    BY <1>3, <1>4, <1>7
<1> HIDE DEF a, b
<1>10. k * (f[x] + a) = k * f[x] + k * a
    <2> DEFINE c == f[x]
    <2>1. c \in Int BY <1>9
    <2> HIDE DEF c
    <2>2. k * (c + a) = k * c + k * a BY <1>9, <2>1
    <2> QED BY <2>2 DEF c
<1>11. k * f[x] \in Int /\ k * a \in Int BY <1>9
<1>12. k * (f[x] + a) <= g[x] + b BY <1>8, <1>9, <1>10, <1>11
<1> QED BY <1>1, <1>5, <1>6, <1>12

\* Outside a finite set the summands are zero.
LEMMA SumSupport ==
    ASSUME NEW f, NEW S, IsFiniteSet(S), NEW T \in SUBSET S, \A x \in T : f[x] \in Int,
           \A x \in S \ T : f[x] = 0
    PROVE  SumOver(f, S) = SumOver(f, T)
<1> DEFINE B == {s \in SUBSET S : T \subseteq s /\ SumOver(f, s) # SumOver(f, T)}
<1> SUFFICES ASSUME B # {} PROVE FALSE
    OBVIOUS
<1>1. PICK m \in B : \A s \in B : s \subseteq m => s = m
    <2>1. B \subseteq SUBSET S
        OBVIOUS
    <2> HIDE DEF B
    <2> QED BY <2>1, MinimalSubset
<1>2. PICK x \in m : x \notin T
    <2>1. m # T /\ T \subseteq m
        BY <1>1
    <2> QED BY <2>1
<1>3. IsFiniteSet(m) /\ \A y \in m : f[y] \in Int
    BY <1>1, FS_Subset
<1>4. SumOver(f, m) = f[x] + SumOver(f, m \ {x})
    BY <1>3, SumRemove
<1>5. f[x] = 0 /\ m \ {x} \notin B /\ m \ {x} \in SUBSET S /\ T \subseteq m \ {x}
    BY <1>1, <1>2
<1>6. SumOver(f, m \ {x}) = SumOver(f, T)
    BY <1>5
<1>7. SumOver(f, T) \in Int
    <2>1. IsFiniteSet(T)
        BY FS_Subset
    <2> QED BY <2>1, SumInt
<1> QED BY <1>1, <1>4, <1>5, <1>6, <1>7

-----------------------------------------------------------------------------
(***************************************************************************)
(* Cardinalities.                                                          *)
(***************************************************************************)
\* The image of a finite set under a function, and under an injective one.
LEMMA ImageIs ==
    ASSUME NEW f, NEW S, IsFiniteSet(S)
    PROVE  LET T == {f[x] : x \in S}
           IN  /\ IsFiniteSet(T) /\ Cardinality(T) \in Nat /\ Cardinality(T) <= Cardinality(S)
               /\ (\A x, y \in S : f[x] = f[y] => x = y) => Cardinality(T) = Cardinality(S)
<1> DEFINE T == {f[x] : x \in S}  g == [x \in S |-> f[x]]
<1>1. g \in Surjection(S, T)
    BY DEF Surjection
<1>2. (\A x, y \in S : f[x] = f[y] => x = y) => g \in Injection(S, T)
    BY DEF Injection, IsInjective
<1> HIDE DEF T, g
<1>3. /\ IsFiniteSet(T) /\ Cardinality(T) <= Cardinality(S)
      /\ Cardinality(T) = Cardinality(S) <=> g \in Injection(S, T)
    BY <1>1, FS_Surjection
<1>4. Cardinality(T) \in Nat
    BY <1>3, FS_CardinalityType
<1> QED BY <1>2, <1>3, <1>4 DEF T

\* Two parts of a finite set.
LEMMA PartsIs ==
    ASSUME NEW A, NEW B, IsFiniteSet(A), IsFiniteSet(B)
    PROVE  /\ Cardinality(A) \in Nat /\ Cardinality(B) \in Nat
           /\ IsFiniteSet(A \cup B) /\ Cardinality(A \cup B) \in Nat
           /\ Cardinality(A \cup B) <= Cardinality(A) + Cardinality(B)
           /\ A \cap B = {} => Cardinality(A \cup B) = Cardinality(A) + Cardinality(B)
<1> DEFINE a == Cardinality(A)  b == Cardinality(B)  c == Cardinality(A \cap B)
           d == Cardinality(A \cup B)
<1>1. IsFiniteSet(A \cup B) /\ IsFiniteSet(A \cap B) /\ d = a + b - c
    <2>1. A \cap B \in SUBSET A
        OBVIOUS
    <2> QED BY <2>1, FS_Union, FS_Subset
<1>2. a \in Nat /\ b \in Nat /\ c \in Nat /\ d \in Nat
    BY <1>1, FS_CardinalityType
<1>3. A \cap B = {} => c = 0
    BY FS_EmptySet
<1> HIDE DEF a, b, c, d
<1>4. d <= a + b /\ (A \cap B = {} => d = a + b)
    BY <1>1, <1>2, <1>3
<1> QED BY <1>1, <1>2, <1>4 DEF a, b, c, d

\* A sum of zeros and ones counts the ones.
LEMMA SumOnes ==
    ASSUME NEW f, NEW S, IsFiniteSet(S), \A x \in S : f[x] \in {0, 1}
    PROVE  SumOver(f, S) = Cardinality({x \in S : f[x] = 1})
<1> DEFINE ones(s) == {x \in s : f[x] = 1}
           B == {s \in SUBSET S : SumOver(f, s) # Cardinality(ones(s))}
<1> SUFFICES ASSUME B # {} PROVE FALSE
    OBVIOUS
<1>1. PICK m \in B : \A s \in B : s \subseteq m => s = m
    <2>1. B \subseteq SUBSET S
        OBVIOUS
    <2> HIDE DEF B
    <2> QED BY <2>1, MinimalSubset
<1>2. m # {}
    <2>1. ones({}) = {}
        OBVIOUS
    <2> QED BY <1>1, <2>1, SumEmpty, FS_EmptySet
<1>3. PICK x \in m : TRUE
    BY <1>2
<1>4. IsFiniteSet(m) /\ IsFiniteSet(ones(m \ {x})) /\ \A y \in m : f[y] \in {0, 1}
    <2>1. IsFiniteSet(m) /\ ones(m \ {x}) \subseteq m
        BY FS_Subset
    <2> QED BY <2>1, FS_Subset
<1>5. SumOver(f, m \ {x}) = Cardinality(ones(m \ {x}))
    BY <1>1, <1>3
<1>6. SumOver(f, m) = f[x] + SumOver(f, m \ {x})
    BY <1>3, <1>4, SumRemove
<1>7. /\ f[x] = 1 => ones(m) = ones(m \ {x}) \cup {x} /\ x \notin ones(m \ {x})
      /\ f[x] = 0 => ones(m) = ones(m \ {x})
    BY <1>3
<1>8. Cardinality(ones(m)) = f[x] + Cardinality(ones(m \ {x}))
    <2> DEFINE r == ones(m \ {x})
    <2> HIDE DEF ones
    <2>1. Cardinality(r) \in Nat
        BY <1>4, FS_CardinalityType
    <2>2. CASE f[x] = 1
        <3>1. Cardinality(r \cup {x}) = Cardinality(r) + 1
            BY <1>4, <1>7, <2>2, FS_AddElement
        <3>2. Cardinality(ones(m)) = Cardinality(r \cup {x})
            BY <1>7, <2>2
        <3> HIDE DEF r
        <3> QED BY <2>1, <2>2, <3>1, <3>2 DEF r
    <2>3. CASE f[x] = 0
        BY <1>7, <2>1, <2>3
    <2> QED BY <1>3, <1>4, <2>2, <2>3
<1> QED BY <1>1, <1>5, <1>6, <1>8

=============================================================================
