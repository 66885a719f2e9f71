---------------------------- MODULE RadixProofs ----------------------------
(***************************************************************************)
(* What the operations on the prefix tree of RadixCache preserve: the      *)
(* shape of the tree, the counters of its locked and unlocked tokens, and  *)
(* reference counts that say how many handles run through a node.          *)
(***************************************************************************)
EXTENDS RadixCache, FiniteSums, SequenceTheorems

-----------------------------------------------------------------------------
(***************************************************************************)
(* Pages of tokens.                                                        *)
(***************************************************************************)
LEMMA TimesIs ==
    ASSUME NEW a \in Nat, NEW b \in Nat
    PROVE  /\ a * PageSize \in Nat
           /\ a < b <=> a * PageSize < b * PageSize
           /\ a < b => a * PageSize + PageSize <= b * PageSize
           /\ a <= b <=> a * PageSize <= b * PageSize
           /\ a * PageSize = b * PageSize => a = b
           /\ (a + 1) * PageSize = a * PageSize + PageSize
BY PageSizeAssumption, SMTT(30)

LEMMA DivIs ==
    ASSUME NEW n \in Nat
    PROVE  /\ n \div PageSize \in Nat /\ n % PageSize \in 0..(PageSize - 1)
           /\ (n \div PageSize) * PageSize \in Nat
           /\ (n \div PageSize) * PageSize = n - (n % PageSize)
<1>1. n \div PageSize \in Nat
    BY PageSizeAssumption, SMTT(30)
<1>2. n % PageSize \in 0..(PageSize - 1)
    BY PageSizeAssumption, SMTT(30)
<1>3. n % PageSize = n - PageSize * (n \div PageSize)
    BY PageSizeAssumption, SMTT(30)
<1>4. ASSUME NEW q \in Nat, NEW r \in Nat, r = n - PageSize * q
      PROVE  q * PageSize \in Nat /\ q * PageSize = n - r
    BY <1>4, PageSizeAssumption, SMTT(30)
<1> DEFINE q == n \div PageSize  r == n % PageSize
<1>5. q \in Nat /\ r \in 0..(PageSize - 1) /\ r = n - PageSize * q /\ r \in Nat
    BY <1>1, <1>2, <1>3, PageSizeAssumption
<1>6. q * PageSize \in Nat /\ q * PageSize = n - r
    <2> HIDE DEF q, r
    <2> QED BY <1>4, <1>5
<1> QED BY <1>5, <1>6

LEMMA MultipleIs ==
    ASSUME NEW a \in Nat
    PROVE  (a * PageSize) % PageSize = 0 /\ (a * PageSize) \div PageSize = a
<1> DEFINE n == a * PageSize  q == n \div PageSize  r == n % PageSize
<1>1. n \in Nat
    BY TimesIs
<1>2. n \in Nat /\ q \in Nat /\ r \in 0..(PageSize - 1) /\ q * PageSize = n - r /\ q * PageSize \in Nat
    <2> HIDE DEF n
    <2> QED BY <1>1, DivIs
<1>4. PageSize \in Nat \ {0}
    BY PageSizeAssumption
<1> HIDE DEF q, r
<1>3. /\ q < a => q * PageSize + PageSize <= a * PageSize
      /\ a < q => a * PageSize + PageSize <= q * PageSize
      /\ a * PageSize = n
    BY <1>2, TimesIs
<1>5. q = a
    <2> HIDE DEF n
    <2> QED BY <1>2, <1>3, <1>4
<1>6. r = 0
    <2>1. n = q * PageSize
        BY <1>5
    <2> HIDE DEF n
    <2> QED BY <1>2, <1>4, <2>1
<1> QED BY <1>5, <1>6 DEF q, r

\* The whole pages of n tokens, and those that hold all of them.
LEMMA PagesIs ==
    ASSUME NEW n \in Nat
    PROVE  /\ AlignDown(n) \in 0..n /\ AlignDown(n) % PageSize = 0 /\ n < AlignDown(n) + PageSize
           /\ AlignDown(n) = (n \div PageSize) * PageSize
           /\ Pages(n) \in Nat /\ n <= Pages(n) * PageSize /\ Pages(n) * PageSize < n + PageSize
<1>1. /\ n \div PageSize \in Nat /\ n % PageSize \in 0..(PageSize - 1)
      /\ (n \div PageSize) * PageSize = n - (n % PageSize) /\ (n \div PageSize) * PageSize \in Nat
    BY DivIs
<1>2. AlignDown(n) = (n \div PageSize) * PageSize
    BY <1>1, PageSizeAssumption DEF AlignDown
<1>3. AlignDown(n) \in 0..n /\ AlignDown(n) % PageSize = 0 /\ n < AlignDown(n) + PageSize
    BY <1>1, <1>2, MultipleIs, PageSizeAssumption
<1> DEFINE m == n + PageSize - 1  q == m \div PageSize  r == m % PageSize
<1>4. m \in Nat /\ Pages(n) = q
    BY PageSizeAssumption DEF Pages
<1>5. q \in Nat /\ r \in 0..(PageSize - 1) /\ q * PageSize = m - r /\ q * PageSize \in Nat
    <2> HIDE DEF m
    <2> QED BY <1>4, DivIs
<1> HIDE DEF q, r
<1>6. n <= q * PageSize /\ q * PageSize < n + PageSize
    BY <1>5, PageSizeAssumption
<1> QED BY <1>2, <1>3, <1>4, <1>5, <1>6

\* Lengths of whole pages.
LEMMA WholeIs ==
    ASSUME NEW n \in Nat, n % PageSize = 0
    PROVE  /\ (n \div PageSize) * PageSize = n /\ n \div PageSize \in Nat /\ AlignDown(n) = n
           /\ Pages(n) = n \div PageSize
           /\ \A m \in Nat : m % PageSize = 0 /\ m < n => m + PageSize <= n
<1>1. (n \div PageSize) * PageSize = n /\ n \div PageSize \in Nat
    BY DivIs
<1>2. AlignDown(n) = n
    BY DEF AlignDown
<1>3. Pages(n) = n \div PageSize
    <2> DEFINE a == n \div PageSize  b == Pages(n)
    <2>1. a \in Nat /\ b \in Nat /\ a * PageSize = n /\ n <= b * PageSize /\ b * PageSize < n + PageSize
        BY <1>1, PagesIs
    <2> HIDE DEF a, b
    <2>2. /\ a <= b <=> a * PageSize <= b * PageSize
          /\ a < b => a * PageSize + PageSize <= b * PageSize
        BY <2>1, TimesIs
    <2>3. a * PageSize \in Nat /\ b * PageSize \in Nat /\ PageSize \in Nat
        BY <2>1, TimesIs, PageSizeAssumption
    <2>4. a = b
        BY <2>1, <2>2, <2>3
    <2> QED BY <2>4 DEF a, b
<1>4. ASSUME NEW m \in Nat, m % PageSize = 0, m < n PROVE m + PageSize <= n
    <2> DEFINE a == n \div PageSize  b == m \div PageSize
    <2>1. a \in Nat /\ b \in Nat /\ a * PageSize = n /\ b * PageSize = m
        BY <1>1, <1>4, DivIs
    <2> HIDE DEF a, b
    <2>2. (b < a <=> b * PageSize < a * PageSize) /\ (b < a => b * PageSize + PageSize <= a * PageSize)
        BY <2>1, TimesIs
    <2> QED BY <1>4, <2>1, <2>2
<1> QED BY <1>1, <1>2, <1>3, <1>4

-----------------------------------------------------------------------------
(***************************************************************************)
(* Prefixes.                                                               *)
(***************************************************************************)
LEMMA UptoIs ==
    ASSUME NEW T, NEW t \in Seq(T), NEW n \in 0..Len(t)
    PROVE  /\ Upto(t, n) \in Seq(T) /\ Len(Upto(t, n)) = n
           /\ \A i \in 1..n : Upto(t, n)[i] = t[i]
<1>1. Len(t) \in Nat /\ \A i \in 1..n : t[i] \in T
    OBVIOUS
<1>2. 1 \in Int /\ n \in Int
    BY <1>1
<1>3. /\ SubSeq(t, 1, n) \in Seq(T)
      /\ Len(SubSeq(t, 1, n)) = IF 1 <= n THEN n - 1 + 1 ELSE 0
      /\ \A i \in 1..(n - 1 + 1) : SubSeq(t, 1, n)[i] = t[1 + i - 1]
    BY <1>1, <1>2, SubSeqProperties
<1> QED BY <1>1, <1>3 DEF Upto

LEMMA PrefixIs ==
    ASSUME NEW T, NEW s \in Seq(T), NEW t \in Seq(T)
    PROVE  /\ IsPrefix(s, t) <=> Len(s) <= Len(t) /\ \A i \in 1..Len(s) : s[i] = t[i]
           /\ IsPrefix(s, t) <=> Len(s) <= Len(t) /\ s = Upto(t, Len(s))
<1>1. Len(s) \in Nat /\ Len(t) \in Nat /\ SubSeq(s, 1, Len(s)) = s
    BY SubSeqFull
<1>2. IsPrefix(s, t) <=> Len(s) <= Len(t) /\ s = Upto(t, Len(s))
    BY <1>1 DEF IsPrefix, Upto
<1>3. ASSUME Len(s) <= Len(t)
      PROVE  s = Upto(t, Len(s)) <=> \A i \in 1..Len(s) : s[i] = t[i]
    <2>1. /\ Upto(t, Len(s)) \in Seq(T) /\ Len(Upto(t, Len(s))) = Len(s)
          /\ \A i \in 1..Len(s) : Upto(t, Len(s))[i] = t[i]
        BY <1>1, <1>3, UptoIs
    <2>2. ASSUME \A i \in 1..Len(s) : s[i] = t[i] PROVE s = Upto(t, Len(s))
        BY <2>1, <2>2, SeqEqual
    <2> QED BY <2>1, <2>2
<1> QED BY <1>2, <1>3

LEMMA UptoPrefix ==
    ASSUME NEW T, NEW t \in Seq(T), NEW n \in 0..Len(t)
    PROVE  IsPrefix(Upto(t, n), t)
BY UptoIs, PrefixIs

\* Prefixes of one sequence are prefixes of each other.
LEMMA PrefixOrder ==
    ASSUME NEW T, NEW r \in Seq(T), NEW s \in Seq(T), NEW t \in Seq(T)
    PROVE  /\ IsPrefix(s, s)
           /\ IsPrefix(r, s) /\ IsPrefix(s, t) => IsPrefix(r, t)
           /\ IsPrefix(r, t) /\ IsPrefix(s, t) /\ Len(r) <= Len(s) => IsPrefix(r, s)
           /\ IsPrefix(r, s) /\ IsPrefix(s, r) => r = s
           /\ IsPrefix(r, s) /\ Len(s) <= Len(r) => r = s
           /\ IsPrefix(r, s) => Len(r) <= Len(s)
           /\ IsPrefix(r, s) /\ r # s => Len(r) < Len(s)
<1>1. Len(r) \in Nat /\ Len(s) \in Nat /\ Len(t) \in Nat
    OBVIOUS
<1>2. /\ IsPrefix(s, s) <=> Len(s) <= Len(s) /\ \A i \in 1..Len(s) : s[i] = s[i]
      /\ IsPrefix(r, s) <=> Len(r) <= Len(s) /\ \A i \in 1..Len(r) : r[i] = s[i]
      /\ IsPrefix(s, r) <=> Len(s) <= Len(r) /\ \A i \in 1..Len(s) : s[i] = r[i]
      /\ IsPrefix(r, t) <=> Len(r) <= Len(t) /\ \A i \in 1..Len(r) : r[i] = t[i]
      /\ IsPrefix(s, t) <=> Len(s) <= Len(t) /\ \A i \in 1..Len(s) : s[i] = t[i]
    BY PrefixIs
<1>3. IsPrefix(r, s) /\ Len(s) <= Len(r) => r = s
    <2> SUFFICES ASSUME IsPrefix(r, s), Len(s) <= Len(r) PROVE r = s
        OBVIOUS
    <2>1. Len(r) = Len(s) /\ \A i \in 1..Len(r) : r[i] = s[i]
        BY <1>1, <1>2
    <2> QED BY <2>1, SeqEqual
<1> QED BY <1>1, <1>2, <1>3

LEMMA EmptyPrefix ==
    ASSUME NEW T, NEW t \in Seq(T)
    PROVE  <<>> \in Seq(T) /\ Len(<<>>) = 0 /\ IsPrefix(<<>>, t) /\ (IsPrefix(t, <<>>) => t = <<>>)
<1>1. <<>> \in Seq(T) /\ Len(<<>>) = 0 /\ Len(t) \in Nat
    OBVIOUS
<1>2. <<>> = Upto(t, 0)
    BY <1>1 DEF Upto
<1>3. IsPrefix(<<>>, t)
    BY <1>1, <1>2, UptoPrefix
<1> QED BY <1>1, <1>3, PrefixOrder

LEMMA UptoOfPrefix ==
    ASSUME NEW T, NEW s \in Seq(T), NEW t \in Seq(T), IsPrefix(s, t), NEW n \in 0..Len(s)
    PROVE  Upto(s, n) = Upto(t, n) /\ n \in 0..Len(t)
<1>1. Len(s) \in Nat /\ Len(t) \in Nat /\ Len(s) <= Len(t) /\ \A i \in 1..Len(s) : s[i] = t[i]
    BY PrefixIs
<1>4. n \in 0..Len(t)
    BY <1>1
<1>2. /\ Upto(s, n) \in Seq(T) /\ Len(Upto(s, n)) = n /\ \A i \in 1..n : Upto(s, n)[i] = s[i]
      /\ Upto(t, n) \in Seq(T) /\ Len(Upto(t, n)) = n /\ \A i \in 1..n : Upto(t, n)[i] = t[i]
    BY <1>4, UptoIs
<1>3. \A i \in 1..n : Upto(s, n)[i] = Upto(t, n)[i]
    BY <1>1, <1>2
<1> QED BY <1>2, <1>3, <1>4, SeqEqual

\* The page prefixes of t, and the longest of a set of prefixes of t.
WholeKeys(T) == {k \in Seq(T) : k # <<>> /\ Len(k) % PageSize = 0}

LEMMA WholeKeyIs ==
    ASSUME NEW T, NEW k \in WholeKeys(T)
    PROVE  k \in Seq(T) /\ k # <<>> /\ Len(k) \in Nat \ {0} /\ Len(k) % PageSize = 0
BY DEF WholeKeys

LEMMA PagePrefixIs ==
    ASSUME NEW T, NEW t \in Seq(T)
    PROVE  PagePrefixes(t) = {k \in WholeKeys(T) : IsPrefix(k, t)}
<1> DEFINE N == {m \in 1..Len(t) : m % PageSize = 0}
<1>1. Len(t) \in Nat
    OBVIOUS
<1>2. ASSUME NEW n \in N PROVE Upto(t, n) \in WholeKeys(T) /\ IsPrefix(Upto(t, n), t)
    <2>1. n \in 0..Len(t) /\ n # 0 /\ n % PageSize = 0
        BY <1>1
    <2>2. Upto(t, n) \in Seq(T) /\ Len(Upto(t, n)) = n /\ IsPrefix(Upto(t, n), t)
        BY <2>1, UptoIs, UptoPrefix
    <2>3. Upto(t, n) # <<>>
        BY <2>1, <2>2
    <2> QED BY <2>1, <2>2, <2>3 DEF WholeKeys
<1>3. ASSUME NEW k \in WholeKeys(T), IsPrefix(k, t) PROVE Len(k) \in N /\ k = Upto(t, Len(k))
    <2>1. k \in Seq(T) /\ Len(k) \in Nat \ {0} /\ Len(k) % PageSize = 0
        BY WholeKeyIs
    <2>2. Len(k) <= Len(t) /\ k = Upto(t, Len(k))
        BY <1>3, <2>1, PrefixIs
    <2> QED BY <1>1, <2>1, <2>2
<1>4. PagePrefixes(t) = {Upto(t, n) : n \in N}
    BY DEF PagePrefixes
<1> HIDE DEF N
<1> QED BY <1>2, <1>3, <1>4

\* Of sequences with a common extension the longest extends the others.
LEMMA LongestIs ==
    ASSUME NEW T, NEW t \in Seq(T), NEW S, S # {}, \A s \in S : s \in Seq(T) /\ IsPrefix(s, t)
    PROVE  Longest(S) \in S /\ \A r \in S : IsPrefix(r, Longest(S))
<1>1. Len(t) \in Nat /\ \A s \in S : Len(s) \in Nat /\ Len(s) <= Len(t)
    <2>1. ASSUME NEW s \in S PROVE Len(s) \in Nat /\ Len(s) <= Len(t)
        BY PrefixIs
    <2> QED BY <2>1
<1> DEFINE rest(s) == 1..(Len(t) - Len(s))  B == {rest(s) : s \in S}
<1>2. PICK m \in B : \A r \in B : r \subseteq m => r = m
    <2> DEFINE R == 1..Len(t)
    <2>1. IsFiniteSet(R)
        BY <1>1, FS_Interval
    <2>2. B \subseteq SUBSET R
        BY <1>1
    <2>3. B # {}
        OBVIOUS
    <2> HIDE DEF B, R
    <2> QED BY <2>1, <2>2, <2>3, MinimalSubset
<1>3. PICK s \in S : m = rest(s)
    OBVIOUS
<1>4. ASSUME NEW r \in S PROVE Len(r) <= Len(s)
    <2> SUFFICES ASSUME Len(s) < Len(r) PROVE FALSE
        BY <1>1
    <2>1. Len(s) \in Nat /\ Len(r) \in Nat /\ Len(r) <= Len(t) /\ Len(t) \in Nat
        BY <1>1
    <2>2. rest(r) \subseteq rest(s)
        BY <2>1
    <2>3. rest(r) = rest(s)
        BY <1>2, <1>3, <2>2
    <2>4. Len(t) - Len(s) \in rest(s) /\ Len(t) - Len(s) \notin rest(r)
        BY <2>1
    <2> QED BY <2>3, <2>4
<1>5. Longest(S) \in S /\ \A r \in S : Len(r) <= Len(Longest(S))
    <2>1. \E l \in S : \A r \in S : Len(r) <= Len(l)
        BY <1>4
    <2> QED BY <2>1, Zenon DEF Longest
<1> DEFINE l == Longest(S)
<1>6. ASSUME NEW r \in S PROVE IsPrefix(r, l)
    <2>1. r \in Seq(T) /\ IsPrefix(r, t) /\ l \in Seq(T) /\ IsPrefix(l, t) /\ Len(r) <= Len(l)
        BY <1>5
    <2> HIDE DEF l
    <2> QED BY <2>1, PrefixOrder
<1> QED BY <1>5, <1>6

\* The i-th page of s ends the key of its first i pages.
LEMMA PageKeyIs ==
    ASSUME NEW T, NEW s \in Seq(T), Len(s) % PageSize = 0
    PROVE  /\ Len(s) \div PageSize \in Nat /\ (Len(s) \div PageSize) * PageSize = Len(s)
           /\ \A i \in 1..(Len(s) \div PageSize) :
                 /\ Upto(s, i * PageSize) \in WholeKeys(T) /\ IsPrefix(Upto(s, i * PageSize), s)
                 /\ Len(Upto(s, i * PageSize)) = i * PageSize /\ i * PageSize \in 1..Len(s)
                 /\ Len(Upto(s, i * PageSize)) \div PageSize = i
           /\ \A k \in WholeKeys(T) : IsPrefix(k, s) =>
                 /\ Len(k) \div PageSize \in 1..(Len(s) \div PageSize)
                 /\ (Len(k) \div PageSize) * PageSize = Len(k)
                 /\ k = Upto(s, Len(k))
<1> DEFINE b == Len(s) \div PageSize
<1>1. Len(s) \in Nat /\ b \in Nat /\ b * PageSize = Len(s) /\ PageSize \in Nat \ {0}
    <2>1. Len(s) \in Nat
        OBVIOUS
    <2> QED BY <2>1, WholeIs, PageSizeAssumption
<1>2. ASSUME NEW i \in 1..b
      PROVE  /\ Upto(s, i * PageSize) \in WholeKeys(T) /\ IsPrefix(Upto(s, i * PageSize), s)
             /\ Len(Upto(s, i * PageSize)) = i * PageSize /\ i * PageSize \in 1..Len(s)
             /\ Len(Upto(s, i * PageSize)) \div PageSize = i
    <2> DEFINE n == i * PageSize
    <2> HIDE DEF b
    <2>1. i \in Nat /\ 0 < i /\ i <= b
        BY <1>1
    <2>2. /\ n \in Nat /\ n <= b * PageSize /\ 0 * PageSize < n
          /\ n % PageSize = 0 /\ n \div PageSize = i
        BY <1>1, <2>1, TimesIs, MultipleIs
    <2>3. 0 * PageSize = 0
        BY <1>1
    <2> HIDE DEF n
    <2>4. n \in 1..Len(s) /\ n \in 0..Len(s)
        BY <1>1, <2>2, <2>3
    <2>5. Upto(s, n) \in Seq(T) /\ Len(Upto(s, n)) = n /\ IsPrefix(Upto(s, n), s)
        BY <2>4, UptoIs, UptoPrefix
    <2>6. Upto(s, n) # <<>>
        BY <2>4, <2>5
    <2>7. Upto(s, n) \in WholeKeys(T)
        BY <2>2, <2>5, <2>6 DEF WholeKeys
    <2> QED BY <2>2, <2>4, <2>5, <2>7 DEF n
<1>3. ASSUME NEW k \in WholeKeys(T), IsPrefix(k, s)
      PROVE  /\ Len(k) \div PageSize \in 1..b /\ (Len(k) \div PageSize) * PageSize = Len(k)
             /\ k = Upto(s, Len(k))
    <2>1. k \in Seq(T) /\ Len(k) \in Nat \ {0} /\ Len(k) % PageSize = 0
        BY WholeKeyIs
    <2>2. Len(k) <= Len(s) /\ k = Upto(s, Len(k))
        BY <1>3, <2>1, PrefixIs
    <2> DEFINE i == Len(k) \div PageSize
    <2>3. i \in Nat /\ i * PageSize = Len(k)
        BY <2>1, WholeIs
    <2> HIDE DEF i, b
    <2>4. (i <= b <=> i * PageSize <= b * PageSize) /\ 0 * PageSize = 0
        BY <1>1, <2>3, TimesIs
    <2>5. i <= b /\ i # 0
        BY <1>1, <2>1, <2>2, <2>3, <2>4
    <2>6. i \in 1..b
        BY <1>1, <2>3, <2>5
    <2> QED BY <2>2, <2>3, <2>6 DEF i
<1> QED BY <1>1, <1>2, <1>3

-----------------------------------------------------------------------------
(***************************************************************************)
(* The tree: keys are closed under prefixes, and each key ends, on every   *)
(* way down, in the edge of one node.                                      *)
(***************************************************************************)
\* e is the first node at or below the key k.
EndsAt(c, k, e) ==
    IsPrefix(k, e) /\ \A f \in Nodes(c) : IsPrefix(k, f) => IsPrefix(e, f)

Tree(c, T) ==
    /\ c = [pages |-> c.pages, refs |-> c.refs,
            evictable |-> c.evictable, protected |-> c.protected]
    /\ c.pages = [k \in Keys(c) |-> c.pages[k]] /\ c.refs = [e \in Nodes(c) |-> c.refs[e]]
    /\ IsFiniteSet(Keys(c)) /\ Keys(c) \subseteq WholeKeys(T) /\ Nodes(c) \subseteq Keys(c)
    /\ \A k \in Keys(c), j \in WholeKeys(T) : IsPrefix(j, k) => j \in Keys(c)
    /\ \A k \in Keys(c) : \E e \in Nodes(c) : EndsAt(c, k, e)

LEMMA EmptyTree ==
    ASSUME NEW T
    PROVE  Tree(EmptyRadix, T) /\ Keys(EmptyRadix) = {} /\ Nodes(EmptyRadix) = {}
<1>1. Keys(EmptyRadix) = {} /\ Nodes(EmptyRadix) = {}
    BY DEF EmptyRadix, Keys, Nodes
<1> QED BY <1>1, FS_EmptySet DEF Tree, EmptyRadix

LEMMA NodeOfIs ==
    ASSUME NEW T, NEW c, Tree(c, T), NEW k \in Keys(c)
    PROVE  /\ NodeOf(c, k) \in Nodes(c) /\ EndsAt(c, k, NodeOf(c, k))
           /\ \A e \in Nodes(c) : EndsAt(c, k, e) => e = NodeOf(c, k)
<1>1. PICK e \in Nodes(c) : EndsAt(c, k, e)
    BY DEF Tree
<1>2. \A f \in Nodes(c) : f \in Seq(T) /\ Len(f) \in Nat
    BY WholeKeyIs DEF Tree
<1>3. ASSUME NEW f \in Nodes(c), IsPrefix(k, f) PROVE Len(e) <= Len(f)
    <2>1. IsPrefix(e, f)
        BY <1>1, <1>3 DEF EndsAt
    <2> QED BY <1>2, <2>1, PrefixOrder
<1>4. /\ NodeOf(c, k) \in Nodes(c) /\ IsPrefix(k, NodeOf(c, k))
      /\ \A f \in Nodes(c) : IsPrefix(k, f) => Len(NodeOf(c, k)) <= Len(f)
    <2>1. \E g \in Nodes(c) : /\ IsPrefix(k, g)
                              /\ \A f \in Nodes(c) : IsPrefix(k, f) => Len(g) <= Len(f)
        BY <1>1, <1>3 DEF EndsAt
    <2> QED BY <2>1, Zenon DEF NodeOf
<1> DEFINE g == NodeOf(c, k)
<1> HIDE DEF g
<1>5. ASSUME NEW f \in Nodes(c), EndsAt(c, k, f) PROVE f = g
    <2>1. g \in Nodes(c) /\ IsPrefix(k, g) /\ IsPrefix(k, f)
        BY <1>4, <1>5 DEF g, EndsAt
    <2>2. IsPrefix(f, g) /\ Len(g) <= Len(f)
        BY <1>4, <1>5, <2>1 DEF g, EndsAt
    <2> QED BY <1>2, <2>1, <2>2, PrefixOrder
<1>6. e = g
    BY <1>1, <1>5
<1> QED BY <1>1, <1>5, <1>6 DEF g

LEMMA NodeOfNode ==
    ASSUME NEW T, NEW c, Tree(c, T), NEW e \in Nodes(c)
    PROVE  NodeOf(c, e) = e
<1>1. e \in Keys(c) /\ e \in Seq(T)
    BY WholeKeyIs DEF Tree
<1>2. EndsAt(c, e, e)
    BY <1>1, PrefixOrder DEF EndsAt
<1> QED BY <1>1, <1>2, NodeOfIs

\* The walk ends at the longest key on the way.
LEMMA WalkIs ==
    ASSUME NEW T, NEW c, Tree(c, T), NEW t \in Seq(T)
    PROVE  /\ Walk(c, t) \in Keys(c) \cup {<<>>} /\ Walk(c, t) \in Seq(T) /\ IsPrefix(Walk(c, t), t)
           /\ Len(Walk(c, t)) \in Nat /\ Len(Walk(c, t)) % PageSize = 0
           /\ Len(Walk(c, t)) <= Len(t)
           /\ \A k \in Keys(c) : IsPrefix(k, t) => IsPrefix(k, Walk(c, t))
           /\ \A k \in WholeKeys(T) : IsPrefix(k, Walk(c, t)) => k \in Keys(c)
<1> DEFINE S == {<<>>} \cup {k \in PagePrefixes(t) : k \in Keys(c)}  w == Walk(c, t)
<1>1. PagePrefixes(t) = {k \in WholeKeys(T) : IsPrefix(k, t)}
    BY PagePrefixIs
<1>2. \A s \in S : s \in Seq(T) /\ IsPrefix(s, t)
    BY <1>1, EmptyPrefix, WholeKeyIs
<1>3. w = Longest(S)
    BY DEF Walk
<1>4. \A k \in Keys(c) : IsPrefix(k, t) => k \in S
    BY <1>1 DEF Tree
<1>5. S \subseteq Keys(c) \cup {<<>>}
    OBVIOUS
<1>6. w \in S /\ \A s \in S : IsPrefix(s, w)
    <2>1. S # {}
        OBVIOUS
    <2> HIDE DEF S, w
    <2> QED BY <1>2, <1>3, <2>1, LongestIs
<1>7. w \in Keys(c) \cup {<<>>} /\ w \in Seq(T) /\ IsPrefix(w, t)
    <2> HIDE DEF S, w
    <2> QED BY <1>2, <1>5, <1>6
<1>8. Len(w) \in Nat /\ Len(w) <= Len(t)
    <2> HIDE DEF S, w
    <2> QED BY <1>7, PrefixIs
<1>9. Len(w) % PageSize = 0
    <2> HIDE DEF S, w
    <2>1. CASE w \in Keys(c)
        BY <2>1, WholeKeyIs DEF Tree
    <2>2. CASE w = <<>>
        BY <2>2, PageSizeAssumption
    <2> QED BY <1>7, <2>1, <2>2
<1>10. ASSUME NEW k \in WholeKeys(T), IsPrefix(k, w) PROVE k \in Keys(c)
    <2> HIDE DEF S, w
    <2>1. CASE w \in Keys(c)
        BY <1>10, <2>1 DEF Tree
    <2>2. CASE w = <<>>
        BY <1>10, <2>2, EmptyPrefix, WholeKeyIs
    <2> QED BY <1>7, <2>1, <2>2
<1> HIDE DEF S
<1> QED BY <1>4, <1>6, <1>7, <1>8, <1>9, <1>10

-----------------------------------------------------------------------------
(***************************************************************************)
(* The tokens of a node: those of the keys in its edge.                    *)
(***************************************************************************)
\* The keys on the way to t past its prefix s.
Span(T, s, t) == {k \in WholeKeys(T) : IsPrefix(k, t) /\ Len(s) < Len(k)}

LEMMA SpanIs ==
    ASSUME NEW T, NEW s \in Seq(T), NEW t \in Seq(T), Len(s) <= Len(t),
           Len(s) % PageSize = 0, Len(t) % PageSize = 0
    PROVE  /\ IsFiniteSet(Span(T, s, t)) /\ Cardinality(Span(T, s, t)) \in Nat
           /\ PageSize * Cardinality(Span(T, s, t)) = Len(t) - Len(s)
<1> DEFINE a == Len(s) \div PageSize  b == Len(t) \div PageSize  N == (a + 1)..b
           at == [i \in N |-> Upto(t, i * PageSize)]
<1>1. /\ Len(s) \in Nat /\ Len(t) \in Nat /\ a \in Nat /\ b \in Nat
      /\ a * PageSize = Len(s) /\ b * PageSize = Len(t)
    BY WholeIs
<1>2. a <= b
    <2> HIDE DEF a, b
    <2> QED BY <1>1, TimesIs
<1>3. ASSUME NEW i \in N
      PROVE  /\ i \in Nat /\ i * PageSize \in 0..Len(t) /\ i * PageSize \in Nat
             /\ Len(s) < i * PageSize /\ (i * PageSize) % PageSize = 0
    <2> HIDE DEF a, b
    <2>1. i \in Nat /\ a < i /\ i <= b
        BY <1>1
    <2>2. i * PageSize \in Nat /\ a * PageSize < i * PageSize /\ i * PageSize <= b * PageSize
        BY <1>1, <2>1, TimesIs
    <2>3. (i * PageSize) % PageSize = 0
        BY <2>1, MultipleIs
    <2> DEFINE n == i * PageSize
    <2>4. n \in Nat /\ Len(s) < n /\ n <= Len(t)
        BY <1>1, <2>2
    <2> HIDE DEF n
    <2>5. n \in 0..Len(t)
        BY <1>1, <2>4
    <2> QED BY <2>1, <2>3, <2>4, <2>5 DEF n
<1>4. ASSUME NEW i \in N
      PROVE  at[i] \in Span(T, s, t) /\ Len(at[i]) = i * PageSize
    <2>1. at[i] = Upto(t, i * PageSize)
        OBVIOUS
    <2> HIDE DEF at, N
    <2> DEFINE n == i * PageSize
    <2>2. n \in 0..Len(t) /\ Len(s) < n /\ n % PageSize = 0 /\ n # 0
        BY <1>1, <1>3
    <2> HIDE DEF n
    <2>3. Upto(t, n) \in Seq(T) /\ Len(Upto(t, n)) = n /\ IsPrefix(Upto(t, n), t)
        BY <2>2, UptoIs, UptoPrefix
    <2>4. Upto(t, n) # <<>>
        BY <2>2, <2>3
    <2>5. at[i] = Upto(t, n)
        BY <2>1 DEF n
    <2>6. at[i] \in Span(T, s, t) /\ Len(at[i]) = n
        BY <2>2, <2>3, <2>4, <2>5 DEF Span, WholeKeys
    <2> QED BY <2>6 DEF n
<1>5. ASSUME NEW k \in Span(T, s, t) PROVE \E i \in N : at[i] = k
    <2> DEFINE i == Len(k) \div PageSize
    <2>1. k \in Seq(T) /\ Len(k) \in Nat /\ Len(k) % PageSize = 0 /\ IsPrefix(k, t) /\ Len(s) < Len(k)
        BY WholeKeyIs DEF Span
    <2>2. i \in Nat /\ i * PageSize = Len(k)
        BY <2>1, WholeIs
    <2>3. Len(k) <= Len(t) /\ k = Upto(t, Len(k))
        BY <2>1, PrefixIs
    <2>4. i \in N
        <3> HIDE DEF i, a, b
        <3>1. (a < i <=> a * PageSize < i * PageSize) /\ (i <= b <=> i * PageSize <= b * PageSize)
            BY <1>1, <2>2, TimesIs
        <3>2. a < i /\ i <= b
            BY <1>1, <2>1, <2>2, <2>3, <3>1
        <3> QED BY <1>1, <2>2, <3>2
    <2> HIDE DEF i
    <2>5. at[i] = k
        BY <2>2, <2>3, <2>4
    <2> QED BY <2>4, <2>5
<1>6. IsFiniteSet(N) /\ Cardinality(N) = b - a
    <2> HIDE DEF a, b
    <2>1. a + 1 \in Int /\ b \in Int
        BY <1>1
    <2>2. IsFiniteSet(N) /\ Cardinality(N) = IF a + 1 > b THEN 0 ELSE b - (a + 1) + 1
        BY <2>1, FS_Interval
    <2> QED BY <1>1, <1>2, <2>2
<1>7. ExistsBijection(N, Span(T, s, t))
    <2> DEFINE D == Span(T, s, t)
    <2>1. at \in [N -> D]
        <3>1. \A i \in N : at[i] \in D
            BY <1>4
        <3>2. at = [i \in N |-> at[i]]
            OBVIOUS
        <3> HIDE DEF at, D, N
        <3> QED BY <3>1, <3>2
    <2>2. \A i, j \in N : at[i] = at[j] => i = j
        <3> HIDE DEF at, N
        <3> SUFFICES ASSUME NEW i \in N, NEW j \in N, at[i] = at[j] PROVE i = j
            OBVIOUS
        <3>1. i \in Nat /\ j \in Nat /\ i * PageSize = j * PageSize
            BY <1>3, <1>4
        <3> QED BY <3>1, TimesIs
    <2>3. \A k \in D : \E i \in N : at[i] = k
        BY <1>5
    <2> HIDE DEF at, D, N
    <2>4. at \in Bijection(N, D)
        BY <2>1, <2>2, <2>3 DEF Bijection, Injection, Surjection, IsInjective
    <2> QED BY <2>4 DEF ExistsBijection, D
<1>8. IsFiniteSet(Span(T, s, t)) /\ Cardinality(Span(T, s, t)) = b - a
    <2> HIDE DEF N
    <2> QED BY <1>6, <1>7, FS_Bijection
<1>9. PageSize * (b - a) = Len(t) - Len(s) /\ b - a \in Nat
    <2> HIDE DEF a, b
    <2> QED BY <1>1, <1>2, PageSizeAssumption
<1> HIDE DEF a, b
<1> QED BY <1>8, <1>9

LEMMA ParentIs ==
    ASSUME NEW T, NEW c, Tree(c, T), NEW e \in Nodes(c)
    PROVE  /\ Parent(c, e) \in Nodes(c) \cup {<<>>} /\ Parent(c, e) \in Seq(T)
           /\ IsPrefix(Parent(c, e), e) /\ Parent(c, e) # e
           /\ \A f \in Nodes(c) : IsPrefix(f, e) /\ f # e => IsPrefix(f, Parent(c, e))
<1> DEFINE S == {<<>>} \cup {f \in Nodes(c) : IsStrictPrefix(f, e)}
<1>1. e \in Seq(T) /\ e # <<>> /\ \A f \in Nodes(c) : f \in Seq(T)
    BY WholeKeyIs DEF Tree
<1>2. \A s \in S : s \in Seq(T) /\ IsPrefix(s, e) /\ s # e
    BY <1>1, EmptyPrefix DEF IsStrictPrefix
<1>3. Parent(c, e) = Longest(S)
    BY DEF Parent
<1>4. S # {} /\ S \subseteq Nodes(c) \cup {<<>>} /\ \A f \in Nodes(c) : IsPrefix(f, e) /\ f # e => f \in S
    BY DEF IsStrictPrefix
<1> HIDE DEF S
<1>5. Longest(S) \in S /\ \A s \in S : IsPrefix(s, Longest(S))
    BY <1>1, <1>2, <1>4, LongestIs
<1> QED BY <1>2, <1>3, <1>4, <1>5

\* The keys of node e's edge.
EdgeKeys(c, e) == {k \in Keys(c) : NodeOf(c, k) = e}

LEMMA EdgeIs ==
    ASSUME NEW T, NEW c, Tree(c, T), NEW e \in Nodes(c)
    PROVE  /\ EdgeKeys(c, e) = Span(T, Parent(c, e), e)
           /\ IsFiniteSet(EdgeKeys(c, e)) /\ Cardinality(EdgeKeys(c, e)) \in Nat
           /\ NodeLen(c, e) = PageSize * Cardinality(EdgeKeys(c, e))
<1> DEFINE p == Parent(c, e)
<1>1. /\ p \in Nodes(c) \cup {<<>>} /\ p \in Seq(T) /\ IsPrefix(p, e) /\ p # e
      /\ \A f \in Nodes(c) : IsPrefix(f, e) /\ f # e => IsPrefix(f, p)
    BY ParentIs
<1> HIDE DEF p
<1>2. /\ e \in Keys(c) /\ e \in Seq(T) /\ Len(e) % PageSize = 0 /\ Len(p) % PageSize = 0
      /\ Len(e) \in Nat /\ Len(p) \in Nat /\ Len(p) <= Len(e)
    <2>1. e \in Keys(c) /\ e \in Seq(T) /\ Len(e) % PageSize = 0
        BY WholeKeyIs DEF Tree
    <2>2. CASE p \in Nodes(c)
        BY <2>1, <2>2, <1>1, WholeKeyIs, PrefixIs DEF Tree
    <2>3. CASE p = <<>>
        BY <2>1, <2>3, <1>1, PrefixIs, PageSizeAssumption
    <2> QED BY <1>1, <2>2, <2>3
<1>3. ASSUME NEW k \in EdgeKeys(c, e) PROVE k \in Span(T, p, e)
    <2>1. k \in Keys(c) /\ k \in WholeKeys(T) /\ k \in Seq(T) /\ k # <<>> /\ EndsAt(c, k, e)
        BY ZenonT(60), NodeOfIs, WholeKeyIs DEF EdgeKeys, Tree
    <2>2. IsPrefix(k, e)
        BY <2>1 DEF EndsAt
    <2>3. ASSUME Len(k) <= Len(p) PROVE FALSE
        <3>1. IsPrefix(k, p)
            BY <1>1, <1>2, <2>1, <2>2, <2>3, PrefixOrder
        <3>2. p \in Nodes(c)
            BY <1>1, <2>1, <3>1, EmptyPrefix
        <3>3. IsPrefix(e, p)
            BY <2>1, <3>1, <3>2 DEF EndsAt
        <3> QED BY <1>1, <1>2, <3>3, PrefixOrder
    <2>4. Len(k) \in Nat
        BY <2>1
    <2> QED BY <1>2, <2>1, <2>2, <2>3, <2>4 DEF Span
<1>4. ASSUME NEW k \in Span(T, p, e) PROVE k \in EdgeKeys(c, e)
    <2>1. k \in WholeKeys(T) /\ k \in Seq(T) /\ IsPrefix(k, e) /\ Len(p) < Len(k) /\ Len(k) \in Nat
        BY WholeKeyIs DEF Span
    <2>2. k \in Keys(c)
        BY <1>2, <2>1 DEF Tree
    <2> DEFINE f == NodeOf(c, k)
    <2>3. f \in Nodes(c) /\ EndsAt(c, k, f)
        BY <2>2, NodeOfIs
    <2> HIDE DEF f
    <2>4. f \in Seq(T) /\ IsPrefix(k, f) /\ IsPrefix(f, e)
        BY <2>1, <2>3, WholeKeyIs DEF EndsAt, Tree
    <2>5. ASSUME f # e PROVE FALSE
        <3>1. IsPrefix(f, p)
            BY <1>1, <2>3, <2>4, <2>5
        <3>2. Len(k) <= Len(f) /\ Len(f) <= Len(p) /\ Len(f) \in Nat
            BY <1>1, <2>1, <2>4, <3>1, PrefixOrder
        <3> QED BY <1>2, <2>1, <3>2
    <2> QED BY <2>2, <2>5 DEF EdgeKeys, f
<1>5. EdgeKeys(c, e) = Span(T, p, e)
    BY <1>3, <1>4
<1>6. /\ IsFiniteSet(Span(T, p, e)) /\ Cardinality(Span(T, p, e)) \in Nat
      /\ PageSize * Cardinality(Span(T, p, e)) = Len(e) - Len(p)
    BY <1>1, <1>2, SpanIs
<1> QED BY <1>5, <1>6 DEF NodeLen, p

\* Size is the sum of a function.
LEMMA SizeSum ==
    ASSUME NEW c, NEW E, IsFiniteSet(E), NEW f, \A e \in E : f[e] = NodeLen(c, e)
    PROVE  Size(c, E) = SumOver(f, E)
<1> DEFINE IsSize(g) == g = [s \in SUBSET E |->
                                IF s = {} THEN 0
                                ELSE NodeLen(c, CHOOSE x \in s : TRUE)
                                         + g[s \ {CHOOSE x \in s : TRUE}]]
<1>1. Size(c, E) = (CHOOSE g : IsSize(g))[E]
    BY DEF Size, MapThenSumSet, MapThenFoldSet
<1>2. ASSUME NEW g PROVE IsSize(g) <=> IsPartial(f, g, E)
    <2>1. ASSUME NEW s \in SUBSET E
          PROVE  (IF s = {} THEN 0
                  ELSE NodeLen(c, CHOOSE x \in s : TRUE) + g[s \ {CHOOSE x \in s : TRUE}])
                 = Part(f, g, s)
        <3>1. CASE s = {}
            BY <3>1 DEF Part
        <3>2. CASE s # {}
            <4>1. (CHOOSE x \in s : TRUE) \in E
                BY <3>2
            <4> QED BY <3>2, <4>1 DEF Part
        <3> QED BY <3>1, <3>2
    <2> QED BY <2>1 DEF IsPartial
<1>3. PICK g : IsPartial(f, g, E)
    BY PartialExists
<1> HIDE DEF IsSize
<1>4. IsSize(CHOOSE h : IsSize(h)) /\ IsPartial(f, CHOOSE h : IsPartial(f, h, E), E)
    BY <1>2, <1>3
<1>5. (CHOOSE h : IsSize(h)) = g /\ (CHOOSE h : IsPartial(f, h, E)) = g
    <2> DEFINE h1 == CHOOSE h : IsSize(h)  h2 == CHOOSE h : IsPartial(f, h, E)
    <2>1. IsPartial(f, h1, E) /\ IsPartial(f, h2, E)
        BY <1>2, <1>4
    <2> HIDE DEF h1, h2
    <2>2. h1 = g /\ h2 = g
        BY <1>3, <2>1, PartialUnique
    <2> QED BY <2>2 DEF h1, h2
<1> QED BY <1>1, <1>5, SumUnfold

\* The size of some nodes is that of the keys in their edges.
LEMMA SizeIs ==
    ASSUME NEW T, NEW c, Tree(c, T), NEW E \in SUBSET Nodes(c)
    PROVE  /\ IsFiniteSet(EvictedKeys(c, E)) /\ Cardinality(EvictedKeys(c, E)) \in Nat
           /\ Size(c, E) = PageSize * Cardinality(EvictedKeys(c, E))
<1> DEFINE f == [e \in Nodes(c) |-> NodeLen(c, e)]
           size(s) == PageSize * Cardinality(EvictedKeys(c, s))
           B == {s \in SUBSET E : SumOver(f, s) # size(s)}
<1>1. IsFiniteSet(Keys(c)) /\ IsFiniteSet(Nodes(c)) /\ IsFiniteSet(E)
    BY FS_Subset DEF Tree
<1>2. \A s : IsFiniteSet(EvictedKeys(c, s)) /\ Cardinality(EvictedKeys(c, s)) \in Nat
    <2> SUFFICES ASSUME NEW s PROVE IsFiniteSet(EvictedKeys(c, s)) /\ Cardinality(EvictedKeys(c, s)) \in Nat
        OBVIOUS
    <2>1. EvictedKeys(c, s) \subseteq Keys(c)
        BY DEF EvictedKeys
    <2> QED BY <1>1, <2>1, FS_Subset, FS_CardinalityType
<1>3. \A e \in E : f[e] = NodeLen(c, e) /\ f[e] = PageSize * Cardinality(EdgeKeys(c, e))
                   /\ f[e] \in Int /\ IsFiniteSet(EdgeKeys(c, e)) /\ Cardinality(EdgeKeys(c, e)) \in Nat
    <2> SUFFICES ASSUME NEW e \in E
                 PROVE  f[e] = NodeLen(c, e) /\ f[e] = PageSize * Cardinality(EdgeKeys(c, e))
                        /\ f[e] \in Int /\ IsFiniteSet(EdgeKeys(c, e)) /\ Cardinality(EdgeKeys(c, e)) \in Nat
        OBVIOUS
    <2>1. /\ IsFiniteSet(EdgeKeys(c, e)) /\ Cardinality(EdgeKeys(c, e)) \in Nat
          /\ NodeLen(c, e) = PageSize * Cardinality(EdgeKeys(c, e))
        BY EdgeIs
    <2>2. f[e] = NodeLen(c, e)
        OBVIOUS
    <2> HIDE DEF f
    <2> QED BY <2>1, <2>2, PageSizeAssumption
<1>4. Size(c, E) = SumOver(f, E)
    <2> HIDE DEF f
    <2> QED BY <1>1, <1>3, SizeSum
<1>5. B = {}
    <2> SUFFICES ASSUME B # {} PROVE FALSE
        OBVIOUS
    <2>1. PICK m \in B : \A s \in B : s \subseteq m => s = m
        <3>1. B \subseteq SUBSET E
            OBVIOUS
        <3> HIDE DEF B
        <3> QED BY <1>1, <3>1, MinimalSubset
    <2>2. CASE m = {}
        <3>1. EvictedKeys(c, m) = {}
            BY <2>2 DEF EvictedKeys
        <3>2. SumOver(f, m) = 0 /\ size(m) = 0
            BY <2>2, <3>1, SumEmpty, FS_EmptySet, PageSizeAssumption
        <3> QED BY <2>1, <3>2
    <2>3. CASE m # {}
        <3>1. PICK e \in m : TRUE
            BY <2>3
        <3> DEFINE r == m \ {e}
        <3>2. IsFiniteSet(m) /\ m \subseteq E /\ r \subseteq E /\ r \subseteq m /\ r # m
            BY <1>1, <2>1, <3>1, FS_Subset
        <3>3. SumOver(f, r) = size(r)
            BY <2>1, <3>2
        <3>4. SumOver(f, m) = f[e] + SumOver(f, r)
            <4>1. \A x \in m : f[x] \in Int
                BY <1>3, <3>2
            <4> HIDE DEF f
            <4> QED BY <3>1, <3>2, <4>1, SumRemove
        <3>5. /\ EvictedKeys(c, m) = EdgeKeys(c, e) \cup EvictedKeys(c, r)
              /\ EdgeKeys(c, e) \cap EvictedKeys(c, r) = {}
            BY <3>1 DEF EvictedKeys, EdgeKeys
        <3>6. Cardinality(EvictedKeys(c, m))
                  = Cardinality(EdgeKeys(c, e)) + Cardinality(EvictedKeys(c, r))
            <4>1. IsFiniteSet(EdgeKeys(c, e)) /\ Cardinality(EdgeKeys(c, e)) \in Nat
                BY <1>3, <3>1, <3>2
            <4> DEFINE A == EdgeKeys(c, e)  D == EvictedKeys(c, r)
            <4>2. IsFiniteSet(D) /\ Cardinality(D) \in Nat
                BY <1>2
            <4>3. EvictedKeys(c, m) = A \cup D /\ A \cap D = {}
                BY <3>5
            <4> HIDE DEF A, D
            <4>4. Cardinality(A \cup D) = Cardinality(A) + Cardinality(D) - Cardinality(A \cap D)
                BY <4>1, <4>2, FS_Union DEF A
            <4>5. Cardinality(A) \in Nat /\ Cardinality(A \cap D) = 0
                BY <4>1, <4>3, FS_EmptySet DEF A
            <4>6. Cardinality(EvictedKeys(c, m)) = Cardinality(A) + Cardinality(D)
                BY <4>2, <4>3, <4>4, <4>5
            <4> QED BY <4>6 DEF A, D
        <3>7. ASSUME NEW x \in Nat, NEW y \in Nat, NEW z, z = x + y
              PROVE  PageSize * z = PageSize * x + PageSize * y
            BY <3>7, PageSizeAssumption
        <3>8. size(m) = f[e] + size(r)
            <4>1. f[e] = PageSize * Cardinality(EdgeKeys(c, e)) /\ Cardinality(EdgeKeys(c, e)) \in Nat
                BY <1>3, <3>1, <3>2
            <4> HIDE DEF f
            <4> QED BY <1>2, <3>6, <3>7, <4>1
        <3>9. SumOver(f, m) # size(m)
            BY <2>1
        <3> HIDE DEF f, size, r
        <3> QED BY <3>3, <3>4, <3>8, <3>9
    <2> QED BY <2>2, <2>3
<1>6. SumOver(f, E) = size(E)
    BY <1>5
<1> QED BY <1>2, <1>4, <1>6

-----------------------------------------------------------------------------
(***************************************************************************)
(* The counts.  H has the handle of each holder, <<>> for none; a key is   *)
(* used by the holders whose handle runs through it.                       *)
(***************************************************************************)
Users(H, k) == {u \in DOMAIN H : IsPrefix(k, H[u])}
UsedKeys(c, H) == {k \in Keys(c) : Users(H, k) # {}}

Counts(c, H) ==
    /\ IsFiniteSet(DOMAIN H) /\ \A u \in DOMAIN H : H[u] \in Nodes(c) \cup {<<>>}
    /\ \A e \in Nodes(c) : c.refs[e] = Cardinality(Users(H, e))
    /\ c.evictable = PageSize * Cardinality(Keys(c) \ UsedKeys(c, H))
    /\ c.protected = PageSize * Cardinality(UsedKeys(c, H))

\* Whoever uses a key uses its node.
LEMMA NodeUsers ==
    ASSUME NEW T, NEW c, Tree(c, T), NEW h \in Nodes(c) \cup {<<>>}, NEW k \in Keys(c)
    PROVE  IsPrefix(k, h) <=> IsPrefix(NodeOf(c, k), h)
<1> DEFINE e == NodeOf(c, k)
<1>1. e \in Nodes(c) /\ EndsAt(c, k, e)
    BY NodeOfIs
<1> HIDE DEF e
<1>2. k \in Seq(T) /\ k # <<>> /\ e \in Seq(T) /\ \A f \in Nodes(c) : f \in Seq(T)
    BY <1>1, WholeKeyIs DEF Tree
<1>3. h \in Seq(T)
    BY <1>2, EmptyPrefix
<1>4. ASSUME IsPrefix(k, h) PROVE IsPrefix(e, h)
    <2>1. h # <<>>
        BY <1>2, <1>4, EmptyPrefix
    <2> QED BY <1>1, <1>4, <2>1 DEF EndsAt
<1>5. ASSUME IsPrefix(e, h) PROVE IsPrefix(k, h)
    BY <1>1, <1>2, <1>3, <1>5, PrefixOrder DEF EndsAt
<1> QED BY <1>4, <1>5 DEF e

LEMMA KeyCounts ==
    ASSUME NEW T, NEW c, Tree(c, T), NEW H, Counts(c, H), NEW k \in Keys(c)
    PROVE  /\ c.refs[NodeOf(c, k)] = Cardinality(Users(H, k)) /\ IsFiniteSet(Users(H, k))
           /\ c.refs[NodeOf(c, k)] \in Nat
           /\ c.refs[NodeOf(c, k)] = 0 <=> k \notin UsedKeys(c, H)
<1>1. Users(H, k) = Users(H, NodeOf(c, k))
    <2>1. ASSUME NEW u \in DOMAIN H PROVE IsPrefix(k, H[u]) <=> IsPrefix(NodeOf(c, k), H[u])
        <3>1. H[u] \in Nodes(c) \cup {<<>>}
            BY DEF Counts
        <3> DEFINE h == H[u]
        <3>2. h \in Nodes(c) \cup {<<>>}
            BY <3>1
        <3> HIDE DEF h
        <3>3. IsPrefix(k, h) <=> IsPrefix(NodeOf(c, k), h)
            BY <3>2, NodeUsers
        <3> QED BY <3>3 DEF h
    <2> QED BY <2>1 DEF Users
<1>2. IsFiniteSet(Users(H, k))
    <2>1. Users(H, k) \subseteq DOMAIN H
        BY DEF Users
    <2> QED BY <2>1, FS_Subset DEF Counts
<1>3. NodeOf(c, k) \in Nodes(c)
    BY NodeOfIs
<1>4. c.refs[NodeOf(c, k)] = Cardinality(Users(H, k))
    BY <1>1, <1>3 DEF Counts
<1>5. k \in UsedKeys(c, H) <=> Users(H, k) # {}
    BY DEF UsedKeys
<1> QED BY <1>2, <1>4, <1>5, FS_EmptySet, FS_CardinalityType

\* The size of the used and of the unused keys when some of them change sides.
LEMMA CountsMove ==
    ASSUME NEW K, IsFiniteSet(K), NEW A \in SUBSET K, NEW B \in SUBSET K, B \cap A = {}
    PROVE  /\ PageSize * Cardinality(A \cup B) = PageSize * Cardinality(A) + PageSize * Cardinality(B)
           /\ PageSize * Cardinality(K \ (A \cup B))
                  = PageSize * Cardinality(K \ A) - PageSize * Cardinality(B)
           /\ PageSize * Cardinality(A) \in Nat /\ PageSize * Cardinality(B) \in Nat
<1>1. /\ IsFiniteSet(A) /\ IsFiniteSet(B) /\ IsFiniteSet(A \cup B)
      /\ IsFiniteSet(K \ A) /\ IsFiniteSet(K \ (A \cup B))
    <2>1. A \cup B \subseteq K /\ K \ A \subseteq K /\ K \ (A \cup B) \subseteq K
        OBVIOUS
    <2> QED BY <2>1, FS_Subset
<1> DEFINE a == Cardinality(A)  b == Cardinality(B)  ab == Cardinality(A \cup B)
           na == Cardinality(K \ A)  nab == Cardinality(K \ (A \cup B))
<1>2. a \in Nat /\ b \in Nat /\ ab \in Nat /\ na \in Nat /\ nab \in Nat
    BY <1>1, FS_CardinalityType
<1>3. ab = a + b
    <2>1. ab = a + b - Cardinality(A \cap B)
        BY <1>1, FS_Union
    <2>2. Cardinality(A \cap B) = 0
        BY FS_EmptySet
    <2> HIDE DEF a, b, ab
    <2> QED BY <1>2, <2>1, <2>2
<1>4. na = nab + b
    <2> DEFINE N == K \ (A \cup B)
    <2>1. K \ A = N \cup B /\ N \cap B = {}
        BY SMT
    <2>2. IsFiniteSet(N)
        BY <1>1
    <2> HIDE DEF N
    <2>3. Cardinality(N \cup B) = Cardinality(N) + Cardinality(B) - Cardinality(N \cap B)
        BY <1>1, <2>2, FS_Union
    <2>4. Cardinality(N \cap B) = 0 /\ na = Cardinality(N \cup B) /\ nab = Cardinality(N)
        BY <2>1, FS_EmptySet DEF N
    <2> HIDE DEF na, nab
    <2> QED BY <1>2, <2>3, <2>4
<1> HIDE DEF a, b, ab, na, nab
<1>5. /\ PageSize * ab = PageSize * a + PageSize * b
      /\ PageSize * nab = PageSize * na - PageSize * b
      /\ PageSize * a \in Nat /\ PageSize * b \in Nat
    BY <1>2, <1>3, <1>4, PageSizeAssumption
<1> QED BY <1>5 DEF a, b, ab, na, nab

\* The shape of a tree is that of its keys and nodes.
LEMMA SameShape ==
    ASSUME NEW T, NEW c, Tree(c, T), NEW d, Keys(d) = Keys(c), Nodes(d) = Nodes(c),
           d = [pages |-> d.pages, refs |-> d.refs,
                evictable |-> d.evictable, protected |-> d.protected],
           d.pages = [k \in Keys(d) |-> d.pages[k]], d.refs = [e \in Nodes(d) |-> d.refs[e]]
    PROVE  Tree(d, T)
BY DEF Tree, EndsAt

\* The node that a split adds takes over the references of the one it splits.
LEMMA SplitIs ==
    ASSUME NEW T, NEW c, Tree(c, T), NEW k \in Keys(c) \cup {<<>>}
    PROVE  /\ Tree(Split(c, k), T) /\ Split(c, k).pages = c.pages /\ Keys(Split(c, k)) = Keys(c)
           /\ Nodes(Split(c, k)) = Nodes(c) \cup ({k} \ {<<>>})
           /\ Split(c, k).evictable = c.evictable /\ Split(c, k).protected = c.protected
           /\ \A H : Counts(c, H) => Counts(Split(c, k), H)
<1>1. CASE k = <<>> \/ k \in Nodes(c)
    <2>1. Split(c, k) = c
        BY <1>1 DEF Split
    <2>2. <<>> \notin Nodes(c)
        BY WholeKeyIs DEF Tree
    <2>3. Nodes(c) = Nodes(c) \cup ({k} \ {<<>>})
        BY <1>1
    <2> QED BY <2>1, <2>3
<1>2. CASE k # <<>> /\ k \notin Nodes(c)
    <2> DEFINE d == Split(c, k)  N == Nodes(c) \cup {k}
               r == [e \in N |-> IF e = k THEN c.refs[NodeOf(c, k)] ELSE c.refs[e]]
    <2>1. k \in Keys(c)
        BY <1>2
    <2>2. d = [pages |-> c.pages, refs |-> r, evictable |-> c.evictable, protected |-> c.protected]
        BY <1>2 DEF Split, Tree
    <2>3. Keys(d) = Keys(c) /\ Nodes(d) = N /\ d.pages = c.pages /\ d.refs = r
        BY <2>2 DEF Keys, Nodes
    <2>4. d.evictable = c.evictable /\ d.protected = c.protected
        BY <2>2
    <2>5. ASSUME NEW j \in Keys(c) PROVE \E e \in N : EndsAt(d, j, e)
        <3> HIDE DEF d
        <3>1. PICK e \in Nodes(c) : EndsAt(c, j, e)
            BY DEF Tree
        <3>2. j \in Seq(T) /\ e \in Seq(T) /\ k \in Seq(T)
            BY <2>1, <3>1, WholeKeyIs DEF Tree
        <3>3. CASE ~IsPrefix(j, k)
            BY <2>3, <3>1, <3>3 DEF EndsAt
        <3>4. CASE IsPrefix(j, k) /\ IsPrefix(e, k)
            BY <2>3, <3>1, <3>4 DEF EndsAt
        <3>5. CASE IsPrefix(j, k) /\ ~IsPrefix(e, k)
            <4>1. PICK g \in Nodes(c) : EndsAt(c, k, g)
                BY <2>1 DEF Tree
            <4>2. g \in Seq(T) /\ IsPrefix(k, g)
                BY <4>1, WholeKeyIs DEF Tree, EndsAt
            <4>3. IsPrefix(j, g)
                BY <3>2, <3>5, <4>2, PrefixOrder
            <4>4. IsPrefix(e, g)
                BY <3>1, <4>1, <4>3 DEF EndsAt
            <4>5. IsPrefix(k, e)
                <5>1. Len(e) \in Nat /\ Len(k) \in Nat
                    BY <3>2
                <5> QED BY <3>2, <3>5, <4>2, <4>4, <5>1, PrefixOrder
            <4>6. IsPrefix(k, k)
                BY <3>2, PrefixOrder
            <4>7. ASSUME NEW f \in Nodes(c), IsPrefix(j, f) PROVE IsPrefix(k, f)
                <5>1. IsPrefix(e, f) /\ f \in Seq(T)
                    BY <3>1, <4>7, WholeKeyIs DEF EndsAt, Tree
                <5> QED BY <3>2, <4>5, <5>1, PrefixOrder
            <4> QED BY <2>3, <3>5, <4>6, <4>7 DEF EndsAt
        <3> QED BY <3>3, <3>4, <3>5
    <2>6. Tree(d, T)
        <3>1. /\ d = [pages |-> d.pages, refs |-> d.refs,
                      evictable |-> d.evictable, protected |-> d.protected]
              /\ d.pages = [j \in Keys(d) |-> d.pages[j]] /\ d.refs = [e \in Nodes(d) |-> d.refs[e]]
            BY <2>2, <2>3 DEF Tree
        <3> HIDE DEF d
        <3> QED BY <2>1, <2>3, <2>5, <3>1 DEF Tree
    <2>7. ASSUME NEW H, Counts(c, H) PROVE Counts(d, H)
        <3>1. c.refs[NodeOf(c, k)] = Cardinality(Users(H, k))
            BY <2>1, <2>7, KeyCounts
        <3>2. UsedKeys(d, H) = UsedKeys(c, H)
            BY <2>3 DEF UsedKeys
        <3>3. \A e \in N : d.refs[e] = Cardinality(Users(H, e))
            BY <2>3, <2>7, <3>1 DEF Counts
        <3> HIDE DEF d
        <3> QED BY <2>3, <2>4, <2>7, <3>2, <3>3 DEF Counts
    <2>8. N = Nodes(c) \cup ({k} \ {<<>>})
        BY <1>2
    <2> HIDE DEF d, N
    <2> QED BY <2>3, <2>4, <2>6, <2>7, <2>8 DEF d
<1> QED BY <1>1, <1>2

\* A lock moves the keys that nobody used to the protected side.
LEMMA LockIs ==
    ASSUME NEW T, NEW c, Tree(c, T), NEW k \in Nodes(c) \cup {<<>>}
    PROVE  /\ Tree(Lock(c, k), T) /\ Lock(c, k).pages = c.pages
           /\ Keys(Lock(c, k)) = Keys(c) /\ Nodes(Lock(c, k)) = Nodes(c)
           /\ \A H, u : Counts(c, H) /\ u \in DOMAIN H /\ H[u] = <<>>
                            => Counts(Lock(c, k), [H EXCEPT ![u] = k])
<1> DEFINE d == Lock(c, k)  E == {e \in Path(c, k) : c.refs[e] = 0}  moved == Size(c, E)
           r == [e \in Nodes(c) |-> IF e \in Path(c, k) THEN c.refs[e] + 1 ELSE c.refs[e]]
<1>1. d = [pages |-> c.pages, refs |-> r, evictable |-> c.evictable - moved,
           protected |-> c.protected + moved]
    <2>1. d = [c EXCEPT !.refs = r, !.evictable = @ - moved, !.protected = @ + moved]
        BY DEF Lock
    <2> HIDE DEF d, r, moved
    <2> QED BY <2>1 DEF Tree
<1>2. /\ d.pages = c.pages /\ d.refs = r /\ Keys(d) = Keys(c) /\ Nodes(d) = Nodes(c)
      /\ d.evictable = c.evictable - moved /\ d.protected = c.protected + moved
    BY <1>1 DEF Keys, Nodes
<1>3. Tree(d, T)
    <2>1. /\ d = [pages |-> d.pages, refs |-> d.refs,
                  evictable |-> d.evictable, protected |-> d.protected]
          /\ d.pages = [j \in Keys(d) |-> d.pages[j]] /\ d.refs = [e \in Nodes(d) |-> d.refs[e]]
        BY <1>1, <1>2 DEF Tree
    <2> HIDE DEF d
    <2> QED BY <1>2, <2>1, SameShape
<1>4. ASSUME NEW H, NEW u \in DOMAIN H, Counts(c, H), H[u] = <<>>
      PROVE  Counts(d, [H EXCEPT ![u] = k])
    <2> DEFINE G == [H EXCEPT ![u] = k]
    <2>1. DOMAIN G = DOMAIN H /\ G[u] = k /\ \A v \in DOMAIN H \ {u} : G[v] = H[v]
        OBVIOUS
    <2> HIDE DEF G, d, r
    <2>2. ASSUME NEW j \in Keys(c)
          PROVE  /\ u \notin Users(H, j)
                 /\ Users(G, j) = Users(H, j) \cup (IF IsPrefix(j, k) THEN {u} ELSE {})
        <3>1. ~IsPrefix(j, <<>>)
            BY EmptyPrefix, WholeKeyIs DEF Tree
        <3> QED BY <1>4, <2>1, <3>1 DEF Users
    <2>3. ASSUME NEW e \in Nodes(c) PROVE d.refs[e] = Cardinality(Users(G, e))
        <3>1. e \in Keys(c) /\ NodeOf(c, e) = e
            BY NodeOfNode DEF Tree
        <3>2. c.refs[e] = Cardinality(Users(H, e)) /\ IsFiniteSet(Users(H, e)) /\ c.refs[e] \in Nat
            BY <1>4, <3>1, KeyCounts
        <3>3. e \in Path(c, k) <=> IsPrefix(e, k)
            BY DEF Path
        <3>4. d.refs[e] = IF IsPrefix(e, k) THEN c.refs[e] + 1 ELSE c.refs[e]
            BY <1>2, <3>3 DEF r
        <3>5. CASE IsPrefix(e, k)
            <4>1. Users(G, e) = Users(H, e) \cup {u} /\ u \notin Users(H, e)
                BY <2>2, <3>1, <3>5
            <4> QED BY ZenonT(60), <3>2, <3>4, <3>5, <4>1, FS_AddElement
        <3>6. CASE ~IsPrefix(e, k)
            BY <2>2, <3>1, <3>2, <3>4, <3>6
        <3> QED BY <3>5, <3>6
    <2> DEFINE A == UsedKeys(c, H)  B == EvictedKeys(c, E)
    <2>4. UsedKeys(d, G) = A \cup B /\ B \cap A = {}
        <3>1. ASSUME NEW j \in Keys(c)
              PROVE  j \in B <=> IsPrefix(j, k) /\ j \notin A
            <4>1. j \in B <=> NodeOf(c, j) \in E
                BY DEF EvictedKeys
            <4>2. NodeOf(c, j) \in E <=> IsPrefix(NodeOf(c, j), k) /\ c.refs[NodeOf(c, j)] = 0
                BY NodeOfIs DEF Path
            <4>3. IsPrefix(NodeOf(c, j), k) <=> IsPrefix(j, k)
                BY NodeUsers
            <4>4. c.refs[NodeOf(c, j)] = 0 <=> j \notin A
                BY <1>4, KeyCounts
            <4> QED BY <4>1, <4>2, <4>3, <4>4
        <3>2. ASSUME NEW j \in Keys(c)
              PROVE  j \in UsedKeys(d, G) <=> IsPrefix(j, k) \/ j \in A
            BY <1>2, <2>2 DEF UsedKeys
        <3>3. B \subseteq Keys(c) /\ A \subseteq Keys(c) /\ UsedKeys(d, G) \subseteq Keys(c)
            BY <1>2 DEF EvictedKeys, UsedKeys
        <3> HIDE DEF A, B
        <3> QED BY <3>1, <3>2, <3>3
    <2>5. moved = PageSize * Cardinality(B)
        <3>1. E \in SUBSET Nodes(c)
            BY DEF Path
        <3> HIDE DEF E
        <3> QED BY <3>1, SizeIs
    <2>6. d.evictable = PageSize * Cardinality(Keys(d) \ UsedKeys(d, G))
          /\ d.protected = PageSize * Cardinality(UsedKeys(d, G))
        <3>1. /\ c.evictable = PageSize * Cardinality(Keys(c) \ A)
              /\ c.protected = PageSize * Cardinality(A)
            BY <1>4 DEF Counts
        <3>2. IsFiniteSet(Keys(c)) /\ A \in SUBSET Keys(c) /\ B \in SUBSET Keys(c)
            BY DEF Tree, UsedKeys, EvictedKeys
        <3> HIDE DEF A, B, moved
        <3>3. /\ PageSize * Cardinality(A \cup B) = PageSize * Cardinality(A) + PageSize * Cardinality(B)
              /\ PageSize * Cardinality(Keys(c) \ (A \cup B))
                    = PageSize * Cardinality(Keys(c) \ A) - PageSize * Cardinality(B)
              /\ PageSize * Cardinality(A) \in Nat /\ PageSize * Cardinality(B) \in Nat
            BY <2>4, <3>2, CountsMove
        <3> QED BY <1>2, <2>4, <2>5, <3>1, <3>3
    <2>7. \A v \in DOMAIN G : G[v] \in Nodes(d) \cup {<<>>}
        BY <1>2, <1>4, <2>1 DEF Counts
    <2> QED BY <1>2, <1>4, <2>1, <2>3, <2>6, <2>7 DEF Counts, G
<1> HIDE DEF d
<1> QED BY <1>2, <1>3, <1>4 DEF d

\* An unlock moves them back.
LEMMA UnlockIs ==
    ASSUME NEW T, NEW c, Tree(c, T), NEW k \in Nodes(c) \cup {<<>>}
    PROVE  /\ Tree(Unlock(c, k), T) /\ Unlock(c, k).pages = c.pages
           /\ Keys(Unlock(c, k)) = Keys(c) /\ Nodes(Unlock(c, k)) = Nodes(c)
           /\ \A H, u : Counts(c, H) /\ u \in DOMAIN H /\ H[u] = k
                            => Counts(Unlock(c, k), [H EXCEPT ![u] = <<>>])
<1> DEFINE d == Unlock(c, k)  E == {e \in Path(c, k) : c.refs[e] = 1}  moved == Size(c, E)
           r == [e \in Nodes(c) |-> IF e \in Path(c, k) THEN c.refs[e] - 1 ELSE c.refs[e]]
<1>1. d = [pages |-> c.pages, refs |-> r, evictable |-> c.evictable + moved,
           protected |-> c.protected - moved]
    <2>1. d = [c EXCEPT !.refs = r, !.evictable = @ + moved, !.protected = @ - moved]
        BY DEF Unlock
    <2> HIDE DEF d, r, moved
    <2> QED BY <2>1 DEF Tree
<1>2. /\ d.pages = c.pages /\ d.refs = r /\ Keys(d) = Keys(c) /\ Nodes(d) = Nodes(c)
      /\ d.evictable = c.evictable + moved /\ d.protected = c.protected - moved
    BY <1>1 DEF Keys, Nodes
<1>3. Tree(d, T)
    <2>1. /\ d = [pages |-> d.pages, refs |-> d.refs,
                  evictable |-> d.evictable, protected |-> d.protected]
          /\ d.pages = [j \in Keys(d) |-> d.pages[j]] /\ d.refs = [e \in Nodes(d) |-> d.refs[e]]
        BY <1>1, <1>2 DEF Tree
    <2> HIDE DEF d
    <2> QED BY <1>2, <2>1, SameShape
<1>4. ASSUME NEW H, NEW u \in DOMAIN H, Counts(c, H), H[u] = k
      PROVE  Counts(d, [H EXCEPT ![u] = <<>>])
    <2> DEFINE G == [H EXCEPT ![u] = <<>>]
    <2>1. DOMAIN G = DOMAIN H /\ G[u] = <<>> /\ \A v \in DOMAIN H \ {u} : G[v] = H[v]
        OBVIOUS
    <2> HIDE DEF G, d, r
    <2>2. ASSUME NEW j \in Keys(c)
          PROVE  /\ u \in Users(H, j) <=> IsPrefix(j, k)
                 /\ Users(G, j) = Users(H, j) \ {u}
        <3>1. ~IsPrefix(j, <<>>)
            BY EmptyPrefix, WholeKeyIs DEF Tree
        <3> QED BY <1>4, <2>1, <3>1 DEF Users
    <2>3. ASSUME NEW e \in Nodes(c) PROVE d.refs[e] = Cardinality(Users(G, e))
        <3>1. e \in Keys(c) /\ NodeOf(c, e) = e
            BY NodeOfNode DEF Tree
        <3>2. c.refs[e] = Cardinality(Users(H, e)) /\ IsFiniteSet(Users(H, e)) /\ c.refs[e] \in Nat
            BY <1>4, <3>1, KeyCounts
        <3>3. e \in Path(c, k) <=> IsPrefix(e, k)
            BY DEF Path
        <3>4. d.refs[e] = IF IsPrefix(e, k) THEN c.refs[e] - 1 ELSE c.refs[e]
            BY <1>2, <3>3 DEF r
        <3>5. Users(G, e) = Users(H, e) \ {u} /\ (u \in Users(H, e) <=> IsPrefix(e, k))
            BY <2>2, <3>1
        <3> QED BY ZenonT(60), <3>2, <3>4, <3>5, FS_RemoveElement
    <2> DEFINE A == UsedKeys(d, G)  B == EvictedKeys(c, E)
    <2>4. UsedKeys(c, H) = A \cup B /\ B \cap A = {}
        <3>1. ASSUME NEW j \in Keys(c)
              PROVE  j \in B <=> Users(H, j) = {u}
            <4>1. j \in B <=> NodeOf(c, j) \in E
                BY DEF EvictedKeys
            <4>2. NodeOf(c, j) \in E <=> IsPrefix(NodeOf(c, j), k) /\ c.refs[NodeOf(c, j)] = 1
                BY NodeOfIs DEF Path
            <4>3. IsPrefix(NodeOf(c, j), k) <=> IsPrefix(j, k)
                BY NodeUsers
            <4>4. c.refs[NodeOf(c, j)] = Cardinality(Users(H, j)) /\ IsFiniteSet(Users(H, j))
                BY <1>4, KeyCounts
            <4>5. Cardinality(Users(H, j)) = 1 <=> \E x : Users(H, j) = {x}
                BY <4>4, FS_Singleton
            <4>6. u \in Users(H, j) <=> IsPrefix(j, k)
                BY <2>2
            <4> QED BY <4>1, <4>2, <4>3, <4>4, <4>5, <4>6
        <3>2. ASSUME NEW j \in Keys(c)
              PROVE  j \in A <=> Users(H, j) \ {u} # {}
            BY <1>2, <2>2 DEF UsedKeys
        <3>3. B \subseteq Keys(c) /\ A \subseteq Keys(c) /\ UsedKeys(c, H) \subseteq Keys(c)
            BY <1>2 DEF EvictedKeys, UsedKeys
        <3>4. ASSUME NEW j \in Keys(c)
              PROVE  j \in UsedKeys(c, H) <=> Users(H, j) # {}
            BY DEF UsedKeys
        <3>5. ASSUME NEW j \in Keys(c)
              PROVE  /\ Users(H, j) # {} <=> Users(H, j) = {u} \/ Users(H, j) \ {u} # {}
                     /\ ~(Users(H, j) = {u} /\ Users(H, j) \ {u} # {})
            OBVIOUS
        <3>6. ASSUME NEW j \in Keys(c)
              PROVE  (j \in UsedKeys(c, H) <=> j \in B \/ j \in A) /\ ~(j \in B /\ j \in A)
            BY <3>1, <3>2, <3>4, <3>5
        <3> HIDE DEF A, B
        <3> QED BY <3>3, <3>6
    <2>5. moved = PageSize * Cardinality(B)
        <3>1. E \in SUBSET Nodes(c)
            BY DEF Path
        <3> HIDE DEF E
        <3> QED BY <3>1, SizeIs
    <2>6. d.evictable = PageSize * Cardinality(Keys(d) \ UsedKeys(d, G))
          /\ d.protected = PageSize * Cardinality(UsedKeys(d, G))
        <3>1. /\ c.evictable = PageSize * Cardinality(Keys(c) \ (A \cup B))
              /\ c.protected = PageSize * Cardinality(A \cup B)
            BY <1>4, <2>4 DEF Counts
        <3>2. IsFiniteSet(Keys(c)) /\ A \in SUBSET Keys(c) /\ B \in SUBSET Keys(c)
            BY <1>2 DEF Tree, UsedKeys, EvictedKeys
        <3>4. IsFiniteSet(Keys(c) \ A) /\ Cardinality(Keys(c) \ A) \in Nat
            BY <3>2, FS_Difference, FS_CardinalityType
        <3> HIDE DEF A, B, moved
        <3>3. /\ PageSize * Cardinality(A \cup B) = PageSize * Cardinality(A) + PageSize * Cardinality(B)
              /\ PageSize * Cardinality(Keys(c) \ (A \cup B))
                    = PageSize * Cardinality(Keys(c) \ A) - PageSize * Cardinality(B)
              /\ PageSize * Cardinality(A) \in Nat /\ PageSize * Cardinality(B) \in Nat
            BY <2>4, <3>2, CountsMove
        <3>5. PageSize * Cardinality(Keys(c) \ A) \in Nat
            BY <3>4, PageSizeAssumption
        <3>6. d.evictable = PageSize * Cardinality(Keys(c) \ A) /\ d.protected = PageSize * Cardinality(A)
            BY <1>2, <2>5, <3>1, <3>3, <3>5
        <3> QED BY <1>2, <3>6 DEF A
    <2>7. \A v \in DOMAIN G : G[v] \in Nodes(d) \cup {<<>>}
        BY <1>2, <1>4, <2>1 DEF Counts
    <2> QED BY <1>2, <1>4, <2>1, <2>3, <2>6, <2>7 DEF Counts, G
<1> HIDE DEF d
<1> QED BY <1>2, <1>3, <1>4 DEF d

-----------------------------------------------------------------------------
(***************************************************************************)
(* A new leaf, and the eviction of unlocked leaves.                        *)
(***************************************************************************)
\* The whole pages of t.
KeyOf(t) == Upto(t, AlignDown(Len(t)))

LEMMA KeyOfIs ==
    ASSUME NEW T, NEW t \in Seq(T)
    PROVE  /\ KeyOf(t) \in Seq(T) /\ Len(KeyOf(t)) = AlignDown(Len(t)) /\ Len(KeyOf(t)) \in Nat
           /\ Len(KeyOf(t)) % PageSize = 0 /\ Len(KeyOf(t)) <= Len(t)
           /\ IsPrefix(KeyOf(t), t) /\ KeyOf(t) \in WholeKeys(T) \cup {<<>>}
           /\ \A k \in WholeKeys(T) : IsPrefix(k, t) => IsPrefix(k, KeyOf(t))
<1> DEFINE n == AlignDown(Len(t))  key == KeyOf(t)
<1>1. /\ n \in 0..Len(t) /\ n % PageSize = 0 /\ Len(t) < n + PageSize /\ Len(t) \in Nat
      /\ PageSize \in Nat \ {0}
    <2>1. Len(t) \in Nat
        OBVIOUS
    <2> QED BY <2>1, PagesIs, PageSizeAssumption
<1>2. key = Upto(t, n)
    BY DEF KeyOf
<1> HIDE DEF n, key
<1>3. key \in Seq(T) /\ Len(key) = n /\ IsPrefix(key, t)
    BY <1>1, <1>2, UptoIs, UptoPrefix
<1>4. key \in WholeKeys(T) \cup {<<>>}
    BY <1>1, <1>3 DEF WholeKeys
<1>5. ASSUME NEW k \in WholeKeys(T), IsPrefix(k, t) PROVE IsPrefix(k, key)
    <2>1. k \in Seq(T) /\ Len(k) \in Nat /\ Len(k) % PageSize = 0 /\ Len(k) <= Len(t)
        BY <1>5, WholeKeyIs, PrefixIs
    <2>2. ASSUME n < Len(k) PROVE FALSE
        <3>1. n \in Nat /\ n + PageSize <= Len(k)
            BY <1>1, <2>1, <2>2, WholeIs
        <3> QED BY <1>1, <2>1, <3>1
    <2>3. Len(k) <= Len(key)
        BY <1>1, <1>3, <2>1, <2>2
    <2> QED BY <1>3, <1>5, <2>1, <2>3, PrefixOrder
<1>6. Len(key) \in Nat /\ Len(key) <= Len(t) /\ Len(key) % PageSize = 0
    BY <1>1, <1>3
<1> QED BY <1>3, <1>4, <1>5, <1>6 DEF key, n

LEMMA InsertIs ==
    ASSUME NEW T, NEW c, Tree(c, T), NEW t \in Seq(T), NEW row
    PROVE  LET d == Insert(c, t, row)
               new == Span(T, Walk(c, KeyOf(t)), KeyOf(t))
           IN  /\ Tree(d, T) /\ Keys(d) = Keys(c) \cup new /\ Keys(c) \cap new = {}
               /\ \A k \in Keys(c) : d.pages[k] = c.pages[k]
               /\ \A k \in new : d.pages[k] = row[Len(k) \div PageSize]
               /\ Nodes(c) \subseteq Nodes(d) /\ KeyOf(t) \in Nodes(d) \cup {<<>>}
               /\ \A H : Counts(c, H) => Counts(d, H)
<1> DEFINE key == KeyOf(t)  hit == Walk(c, key)  s == Split(c, hit)  d == Insert(c, t, row)
           new == Span(T, hit, key)
<1>1. /\ key \in Seq(T) /\ Len(key) \in Nat /\ Len(key) % PageSize = 0
      /\ key \in WholeKeys(T) \cup {<<>>}
    BY KeyOfIs
<1> HIDE DEF key
<1>2. /\ hit \in Keys(c) \cup {<<>>} /\ hit \in Seq(T) /\ IsPrefix(hit, key)
      /\ Len(hit) \in Nat /\ Len(hit) % PageSize = 0 /\ Len(hit) <= Len(key)
      /\ \A k \in Keys(c) : IsPrefix(k, key) => IsPrefix(k, hit)
      /\ \A k \in WholeKeys(T) : IsPrefix(k, hit) => k \in Keys(c)
    BY <1>1, WalkIs
<1> HIDE DEF hit
<1>3. /\ Tree(s, T) /\ s.pages = c.pages /\ Keys(s) = Keys(c)
      /\ Nodes(s) = Nodes(c) \cup ({hit} \ {<<>>})
      /\ s.evictable = c.evictable /\ s.protected = c.protected
      /\ \A H : Counts(c, H) => Counts(s, H)
    BY <1>2, SplitIs
<1> HIDE DEF s
<1>4. Keys(c) \cap new = {}
    <2> SUFFICES ASSUME NEW k \in Keys(c), k \in new PROVE FALSE
        OBVIOUS
    <2>1. k \in Seq(T) /\ Len(k) \in Nat /\ IsPrefix(k, key) /\ Len(hit) < Len(k)
        BY WholeKeyIs DEF Span
    <2>2. IsPrefix(k, hit)
        BY <1>2, <2>1
    <2> QED BY <1>2, <2>1, <2>2, PrefixOrder
<1>5. IsFiniteSet(new) /\ PageSize * Cardinality(new) = Len(key) - Len(hit)
      /\ PageSize * Cardinality(new) \in Nat
    BY <1>1, <1>2, SpanIs, PageSizeAssumption
<1>6. CASE hit = key
    <2>1. d = s
        BY <1>6 DEF Insert, s, hit, key, KeyOf
    <2>2. new = {}
        <3>1. ASSUME NEW k \in new PROVE FALSE
            <4>1. k \in Seq(T) /\ Len(k) \in Nat /\ IsPrefix(k, key) /\ Len(hit) < Len(k)
                BY WholeKeyIs DEF Span
            <4> QED BY <1>1, <1>6, <4>1, PrefixOrder
        <3> QED BY <3>1
    <2>3. key \in Nodes(s) \cup {<<>>}
        BY <1>3, <1>6
    <2> HIDE DEF d, new
    <2> QED BY <1>3, <2>1, <2>2, <2>3 DEF d, new, hit, key
<1>7. CASE hit # key
    <2> DEFINE K == Keys(c) \cup new  N == Nodes(s) \cup {key}
               p == [k \in K |-> IF k \in new THEN row[Len(k) \div PageSize] ELSE c.pages[k]]
               r == [e \in N |-> IF e = key THEN 0 ELSE s.refs[e]]
    <2>1. new = {k \in PagePrefixes(key) : Len(k) > Len(hit)}
        <3>1. PagePrefixes(key) = {k \in WholeKeys(T) : IsPrefix(k, key)}
            BY <1>1, PagePrefixIs
        <3>2. \A k \in WholeKeys(T) : Len(k) \in Nat
            BY WholeKeyIs
        <3> QED BY <1>2, <3>1, <3>2 DEF Span
    <2>2. d = [pages |-> p, refs |-> r, evictable |-> s.evictable + Added(key, hit),
               protected |-> s.protected]
        <3> HIDE DEF new
        <3> QED BY <1>7, <2>1 DEF Insert, s, hit, key, KeyOf
    <2> HIDE DEF d
    <2>3. /\ d.pages = p /\ d.refs = r /\ Keys(d) = K /\ Nodes(d) = N
          /\ d.evictable = s.evictable + Added(key, hit) /\ d.protected = s.protected
        BY <2>2 DEF Keys, Nodes
    <2>4. key \in WholeKeys(T) /\ key \in new /\ key # <<>> /\ Len(hit) < Len(key)
        <3>1. Len(hit) < Len(key)
            BY <1>1, <1>2, <1>7, PrefixOrder
        <3>2. key # <<>>
            BY <1>2, <3>1
        <3>3. key \in WholeKeys(T) /\ IsPrefix(key, key)
            BY <1>1, <3>2, PrefixOrder
        <3> QED BY <3>1, <3>2, <3>3 DEF Span
    <2>5. key \notin Keys(c) /\ key \notin Nodes(s) /\ Nodes(s) \subseteq Keys(c)
        BY <1>3, <1>4, <2>4 DEF Tree
    <2>6. IsFiniteSet(K) /\ K \subseteq WholeKeys(T) /\ N \subseteq K
        <3>1. new \subseteq WholeKeys(T)
            BY DEF Span
        <3> HIDE DEF new
        <3> QED BY <1>5, <2>4, <2>5, <3>1, FS_Union DEF Tree
    <2>7. ASSUME NEW k \in K, NEW j \in WholeKeys(T), IsPrefix(j, k) PROVE j \in K
        <3>1. CASE k \in Keys(c)
            BY <2>7, <3>1 DEF Tree
        <3>2. CASE k \in new
            <4>1. k \in Seq(T) /\ IsPrefix(k, key) /\ j \in Seq(T) /\ Len(j) \in Nat
                BY <3>2, WholeKeyIs DEF Span
            <4>2. IsPrefix(j, key)
                BY <1>1, <2>7, <4>1, PrefixOrder
            <4>3. CASE Len(hit) < Len(j)
                BY <4>2, <4>3 DEF Span
            <4>4. CASE ~(Len(hit) < Len(j))
                <5>1. IsPrefix(j, hit)
                    BY <1>1, <1>2, <4>1, <4>2, <4>4, PrefixOrder
                <5> QED BY <1>2, <5>1
            <4> QED BY <4>3, <4>4
        <3> QED BY <2>7, <3>1, <3>2
    <2>8. ASSUME NEW k \in K PROVE \E e \in N : EndsAt(d, k, e)
        <3>1. CASE k \in Keys(c)
            <4>1. PICK e \in Nodes(s) : EndsAt(s, k, e)
                BY <1>3, <3>1 DEF Tree
            <4>2. k \in Seq(T) /\ k # <<>> /\ e \in Seq(T)
                BY <1>3, <3>1, <4>1, WholeKeyIs DEF Tree
            <4>3. ASSUME IsPrefix(k, key) PROVE IsPrefix(e, key)
                <5>1. IsPrefix(k, hit) /\ hit # <<>>
                    BY <1>2, <3>1, <4>2, <4>3, EmptyPrefix
                <5>2. hit \in Nodes(s)
                    BY <1>3, <5>1
                <5>3. IsPrefix(e, hit)
                    BY <4>1, <5>1, <5>2 DEF EndsAt
                <5> QED BY <1>1, <1>2, <4>2, <5>3, PrefixOrder
            <4> QED BY <2>3, <4>1, <4>3 DEF EndsAt
        <3>2. CASE k \in new
            <4>1. IsPrefix(k, key) /\ k \in WholeKeys(T)
                BY <3>2 DEF Span
            <4>2. ASSUME NEW f \in Nodes(s), IsPrefix(k, f) PROVE FALSE
                <5>1. k \in Keys(c)
                    BY <2>5, <4>1, <4>2 DEF Tree
                <5> QED BY <1>4, <3>2, <5>1
            <4>3. IsPrefix(key, key)
                BY <1>1, PrefixOrder
            <4> QED BY <2>3, <4>1, <4>2, <4>3 DEF EndsAt
        <3> QED BY <3>1, <3>2
    <2>9. Tree(d, T)
        <3>1. /\ d = [pages |-> d.pages, refs |-> d.refs,
                      evictable |-> d.evictable, protected |-> d.protected]
              /\ d.pages = [j \in Keys(d) |-> d.pages[j]] /\ d.refs = [e \in Nodes(d) |-> d.refs[e]]
            BY <2>2, <2>3
        <3> HIDE DEF K, N, new
        <3> QED BY <2>3, <2>6, <2>7, <2>8, <3>1 DEF Tree
    <2>10. ASSUME NEW H, Counts(s, H) PROVE Counts(d, H)
        <3>1. ASSUME NEW k \in new PROVE Users(H, k) = {}
            <4> SUFFICES ASSUME NEW u \in DOMAIN H, IsPrefix(k, H[u]) PROVE FALSE
                BY DEF Users
            <4>1. k \in WholeKeys(T) /\ k \in Seq(T) /\ k # <<>>
                BY WholeKeyIs DEF Span
            <4>2. H[u] \in Nodes(s)
                BY <2>10, <4>1, EmptyPrefix DEF Counts
            <4>3. k \in Keys(c)
                BY <2>5, <4>1, <4>2 DEF Tree
            <4> QED BY <1>4, <4>3
        <3>2. UsedKeys(d, H) = UsedKeys(s, H)
            BY <1>3, <2>3, <3>1 DEF UsedKeys
        <3>3. \A e \in N : d.refs[e] = Cardinality(Users(H, e))
            <4>1. Cardinality(Users(H, key)) = 0
                BY <2>4, <3>1, FS_EmptySet
            <4> QED BY <2>3, <2>10, <4>1 DEF Counts
        <3>4. d.evictable = PageSize * Cardinality(K \ UsedKeys(s, H))
            <4> DEFINE A == Keys(c) \ UsedKeys(s, H)
            <4>1. K \ UsedKeys(s, H) = A \cup new /\ new \cap A = {}
                BY <1>3, <1>4 DEF UsedKeys
            <4>2. s.evictable = PageSize * Cardinality(A)
                BY <1>3, <2>10 DEF Counts
            <4>3. IsFiniteSet(K) /\ A \in SUBSET K /\ new \in SUBSET K
                BY <2>6
            <4>4. d.evictable = s.evictable + Len(key) - Len(hit)
                BY <2>3, <1>3 DEF Added
            <4> HIDE DEF A, new, K
            <4>5. /\ PageSize * Cardinality(A \cup new) = PageSize * Cardinality(A) + PageSize * Cardinality(new)
                  /\ PageSize * Cardinality(K \ (A \cup new))
                        = PageSize * Cardinality(K \ A) - PageSize * Cardinality(new)
                  /\ PageSize * Cardinality(A) \in Nat /\ PageSize * Cardinality(new) \in Nat
                BY <4>1, <4>3, CountsMove
            <4> QED BY <1>1, <1>2, <1>5, <4>1, <4>2, <4>4, <4>5
        <3> QED BY <2>3, <2>10, <3>2, <3>3, <3>4 DEF Counts
    <2>11. /\ \A k \in Keys(c) : d.pages[k] = c.pages[k]
           /\ \A k \in new : d.pages[k] = row[Len(k) \div PageSize]
        <3> HIDE DEF new
        <3> QED BY <1>4, <2>3
    <2>12. Nodes(c) \subseteq Nodes(d) /\ key \in Nodes(d)
        BY <1>3, <2>3
    <2> HIDE DEF d, new
    <2> QED BY <1>3, <1>4, <2>3, <2>9, <2>10, <2>11, <2>12 DEF d, new, hit, key
<1> QED BY <1>6, <1>7

LEMMA EvictIs ==
    ASSUME NEW T, NEW c, Tree(c, T), NEW E \in SUBSET Nodes(c),
           \A e \in E, f \in Nodes(c) : IsPrefix(e, f) => f \in E
    PROVE  LET d == Evict(c, E)
           IN  /\ Tree(d, T) /\ Keys(d) = Keys(c) \ EvictedKeys(c, E) /\ Nodes(d) = Nodes(c) \ E
               /\ \A k \in Keys(d) : d.pages[k] = c.pages[k]
               /\ \A H : Counts(c, H) /\ (\A e \in E : c.refs[e] = 0)
                            => Counts(d, H) /\ EvictedKeys(c, E) \cap UsedKeys(c, H) = {}
<1> DEFINE d == Evict(c, E)  X == EvictedKeys(c, E)  K == Keys(c) \ X  N == Nodes(c) \ E
<1>1. /\ Keys(d) = K /\ Nodes(d) = N /\ d.pages = [k \in K |-> c.pages[k]]
      /\ d.refs = [e \in N |-> c.refs[e]]
      /\ d.evictable = c.evictable - Size(c, E) /\ d.protected = c.protected
      /\ d = [pages |-> d.pages, refs |-> d.refs,
              evictable |-> d.evictable, protected |-> d.protected]
    BY DEF Evict, Keys, Nodes
<1> HIDE DEF d
<1>2. ASSUME NEW k \in Keys(c) PROVE k \in X <=> NodeOf(c, k) \in E
    BY DEF EvictedKeys
<1>3. ASSUME NEW k \in K, NEW j \in WholeKeys(T), IsPrefix(j, k) PROVE j \in K
    <2>1. j \in Keys(c) /\ k \in Keys(c)
        BY <1>3 DEF Tree
    <2> DEFINE e == NodeOf(c, k)  g == NodeOf(c, j)
    <2>2. e \in Nodes(c) /\ EndsAt(c, k, e) /\ g \in Nodes(c) /\ EndsAt(c, j, g)
        BY <2>1, NodeOfIs
    <2>3. e \notin E /\ (j \in X => g \in E)
        BY <1>2, <2>1
    <2> HIDE DEF e, g
    <2>4. j \in Seq(T) /\ k \in Seq(T) /\ e \in Seq(T)
        BY <2>1, <2>2, WholeKeyIs DEF Tree
    <2>5. IsPrefix(j, e)
        BY <1>3, <2>2, <2>4, PrefixOrder DEF EndsAt
    <2>6. IsPrefix(g, e)
        BY <2>2, <2>5 DEF EndsAt
    <2> QED BY <2>1, <2>2, <2>3, <2>6
<1>4. N \subseteq K
    <2> SUFFICES ASSUME NEW e \in N PROVE e \in K
        OBVIOUS
    <2>1. e \in Keys(c) /\ NodeOf(c, e) = e
        BY NodeOfNode DEF Tree
    <2> QED BY <1>2, <2>1
<1>5. ASSUME NEW k \in K PROVE \E e \in N : EndsAt(d, k, e)
    <2>1. NodeOf(c, k) \in Nodes(c) /\ EndsAt(c, k, NodeOf(c, k))
        BY NodeOfIs
    <2>2. NodeOf(c, k) \in N
        BY <1>2, <2>1
    <2> QED BY <1>1, <2>1, <2>2 DEF EndsAt
<1>6. Tree(d, T)
    <2>1. IsFiniteSet(K) /\ K \subseteq WholeKeys(T)
        BY FS_Difference DEF Tree
    <2> HIDE DEF X
    <2>2. d.pages = [j \in Keys(d) |-> d.pages[j]] /\ d.refs = [e \in Nodes(d) |-> d.refs[e]]
        BY <1>1
    <2> HIDE DEF K, N
    <2> QED BY <1>1, <1>3, <1>4, <1>5, <2>1, <2>2 DEF Tree
<1>7. ASSUME NEW H, Counts(c, H), \A e \in E : c.refs[e] = 0
      PROVE  Counts(d, H) /\ X \cap UsedKeys(c, H) = {}
    <2> DEFINE A == UsedKeys(c, H)
    <2>1. X \cap A = {}
        <3> SUFFICES ASSUME NEW k \in X, k \in A PROVE FALSE
            OBVIOUS
        <3>1. k \in Keys(c) /\ c.refs[NodeOf(c, k)] = 0
            BY <1>7 DEF EvictedKeys
        <3> QED BY <1>7, <3>1, KeyCounts
    <2>2. UsedKeys(d, H) = A
        BY <1>1, <2>1 DEF UsedKeys
    <2>3. ASSUME NEW u \in DOMAIN H PROVE H[u] \in N \cup {<<>>}
        <3> SUFFICES ASSUME H[u] \in E PROVE FALSE
            BY <1>7 DEF Counts
        <3> DEFINE h == H[u]
        <3>1. h \in Keys(c) /\ NodeOf(c, h) = h /\ h \in Seq(T) /\ c.refs[h] = 0
            BY <1>7, NodeOfNode, WholeKeyIs DEF Tree
        <3>2. u \in Users(H, h)
            <4>1. IsPrefix(h, h)
                BY <3>1, PrefixOrder
            <4> QED BY <4>1 DEF Users
        <3> HIDE DEF h
        <3>3. h \in A
            BY <3>1, <3>2 DEF UsedKeys
        <3> QED BY <1>7, <3>1, <3>3, KeyCounts
    <2>4. Size(c, E) = PageSize * Cardinality(X)
        BY SizeIs
    <2>5. d.evictable = PageSize * Cardinality(K \ A)
        <3>1. c.evictable = PageSize * Cardinality(Keys(c) \ A)
            BY <1>7 DEF Counts
        <3>2. IsFiniteSet(Keys(c)) /\ A \in SUBSET Keys(c) /\ X \in SUBSET Keys(c)
            BY DEF Tree, UsedKeys, EvictedKeys
        <3>3. K \ A = Keys(c) \ (A \cup X)
            BY SMT
        <3> HIDE DEF A, X, K
        <3>4. /\ PageSize * Cardinality(A \cup X) = PageSize * Cardinality(A) + PageSize * Cardinality(X)
              /\ PageSize * Cardinality(Keys(c) \ (A \cup X))
                    = PageSize * Cardinality(Keys(c) \ A) - PageSize * Cardinality(X)
              /\ PageSize * Cardinality(A) \in Nat /\ PageSize * Cardinality(X) \in Nat
            BY <2>1, <3>2, CountsMove
        <3> QED BY <1>1, <2>4, <3>1, <3>3, <3>4
    <2>6. \A e \in N : d.refs[e] = Cardinality(Users(H, e))
        BY <1>1, <1>7 DEF Counts
    <2> HIDE DEF X, A, K, N
    <2> QED BY <1>1, <1>7, <2>1, <2>2, <2>3, <2>5, <2>6 DEF Counts, A
<1> QED BY <1>1, <1>6, <1>7 DEF d

=============================================================================
