---------------------------- MODULE HybridProofs ----------------------------
(***************************************************************************)
(* The hybrid cache manager, for any number of requests, pages, snapshot   *)
(* slots and tokens, any page size, chunk and prompts: every page and      *)
(* every state slot is in exactly one place, a snapshot is the state after *)
(* exactly the tokens of its node, what a row reads is its own request's   *)
(* KV, and the tree, its snapshots and its counters agree; and no pool     *)
(* fails a request that was admitted.                                      *)
(*                                                                         *)
(* All but the last hold together, as in CacheManagerProofs, and rest on   *)
(* RadixProofs for the tree.  A step is a sequence of a few moves (a       *)
(* donation, a lock, an eviction, an allocation), each a lemma about the   *)
(* values it changes: the tree h, the functions pages and snap that say    *)
(* what it holds, a free list, and what each request holds of the pool.    *)
(***************************************************************************)
EXTENDS HybridManager, RadixProofs

-----------------------------------------------------------------------------
(***************************************************************************)
(* A pool X: an element is on its free list once, held by one request, or  *)
(* a value of f, that is, held by the tree under one key.                  *)
(***************************************************************************)
Pool(X, list, f, O) ==
    /\ IsInjective(f) /\ Range(f) \subseteq X
    /\ list = [x \in X |-> IF x \in Range(f) \/ \E u \in Req : x \in O[u] THEN 0 ELSE 1]
    /\ DOMAIN O = Req /\ \A u \in Req : O[u] \subseteq X /\ O[u] \cap Range(f) = {}
    /\ \A u, v \in Req : u # v => O[u] \cap O[v] = {}

\* A request gives elements back to the list.
LEMMA PoolFreed ==
    ASSUME NEW X, NEW list, NEW f, NEW O, Pool(X, list, f, O), NEW u \in Req,
           NEW S \in SUBSET O[u]
    PROVE  Pool(X, Put(list, S), f, [O EXCEPT ![u] = @ \ S])
<1> DEFINE Q == [O EXCEPT ![u] = @ \ S]
<1>1. DOMAIN Q = Req /\ Q[u] = O[u] \ S /\ \A v \in Req \ {u} : Q[v] = O[v]
    BY DEF Pool
<1>2. DOMAIN list = X
    BY DEF Pool
<1>3. ASSUME NEW x \in X
      PROVE  Put(list, S)[x] = IF x \in Range(f) \/ \E v \in Req : x \in Q[v] THEN 0 ELSE 1
    <2>1. Put(list, S)[x] = IF x \in S THEN list[x] + 1 ELSE list[x]
        BY <1>2 DEF Put
    <2>2. CASE x \in S
        <3>1. x \in O[u] /\ x \notin Range(f) /\ list[x] = 0 /\ \A v \in Req \ {u} : x \notin O[v]
            BY <2>2 DEF Pool
        <3> QED BY <1>1, <2>1, <2>2, <3>1
    <2>3. CASE x \notin S
        BY <1>1, <2>1, <2>3 DEF Pool
    <2> QED BY <2>2, <2>3
<1>4. Put(list, S) = [x \in X |-> Put(list, S)[x]]
    BY <1>2 DEF Put
<1> HIDE DEF Q
<1> QED BY <1>1, <1>3, <1>4 DEF Pool, Q

\* A request gives the elements of S to the tree, under new keys.
LEMMA PoolGiven ==
    ASSUME NEW X, NEW list, NEW f, NEW O, Pool(X, list, f, O), NEW u \in Req,
           NEW S \in SUBSET O[u], NEW g, IsInjective(g), Range(g) = Range(f) \cup S
    PROVE  Pool(X, list, g, [O EXCEPT ![u] = @ \ S])
<1> DEFINE Q == [O EXCEPT ![u] = @ \ S]
<1>1. DOMAIN Q = Req /\ Q[u] = O[u] \ S /\ \A v \in Req \ {u} : Q[v] = O[v]
    BY DEF Pool
<1> HIDE DEF Q
<1>2. ASSUME NEW x
      PROVE  (x \in Range(f) \/ \E v \in Req : x \in O[v])
                <=> (x \in Range(g) \/ \E v \in Req : x \in Q[v])
    BY <1>1
<1>3. list = [x \in X |-> IF x \in Range(g) \/ \E v \in Req : x \in Q[v] THEN 0 ELSE 1]
    BY <1>2 DEF Pool
<1>4. /\ Range(g) \subseteq X /\ \A v \in Req : Q[v] \subseteq X /\ Q[v] \cap Range(g) = {}
      /\ \A v, w \in Req : v # w => Q[v] \cap Q[w] = {}
    BY <1>1 DEF Pool
<1> QED BY <1>1, <1>3, <1>4 DEF Pool, Q

\* A request takes the elements of S off the list.
LEMMA PoolTaken ==
    ASSUME NEW X, NEW list, NEW f, NEW O, Pool(X, list, f, O), NEW u \in Req,
           NEW s, NEW S \in SUBSET {x \in X : list[x] > 0}, Range(s) = S
    PROVE  /\ Pool(X, Take(list, s), f, [O EXCEPT ![u] = @ \cup S])
           /\ S \cap Range(f) = {} /\ \A v \in Req : S \cap O[v] = {}
<1> DEFINE Q == [O EXCEPT ![u] = @ \cup S]
<1>1. DOMAIN Q = Req /\ Q[u] = O[u] \cup S /\ \A v \in Req \ {u} : Q[v] = O[v]
    BY DEF Pool
<1>2. ASSUME NEW x \in S
      PROVE  x \in X /\ list[x] = 1 /\ x \notin Range(f) /\ \A v \in Req : x \notin O[v]
    BY DEF Pool
<1>3. DOMAIN list = X
    BY DEF Pool
<1>4. ASSUME NEW x \in X
      PROVE  Take(list, s)[x] = IF x \in Range(f) \/ \E v \in Req : x \in Q[v] THEN 0 ELSE 1
    <2>1. Take(list, s)[x] = IF x \in S THEN list[x] - 1 ELSE list[x]
        BY <1>3 DEF Take
    <2>2. CASE x \in S
        BY <1>1, <1>2, <2>1, <2>2
    <2>3. CASE x \notin S
        BY <1>1, <2>1, <2>3 DEF Pool
    <2> QED BY <2>2, <2>3
<1>5. Take(list, s) = [x \in X |-> Take(list, s)[x]]
    BY <1>3 DEF Take
<1>6. S \cap Range(f) = {} /\ \A v \in Req : S \cap O[v] = {}
    BY <1>2
<1> HIDE DEF Q
<1>7. /\ \A v \in Req : Q[v] \subseteq X /\ Q[v] \cap Range(f) = {}
      /\ \A v, w \in Req : v # w => Q[v] \cap Q[w] = {}
    BY <1>1, <1>6 DEF Pool
<1> QED BY <1>1, <1>4, <1>5, <1>6, <1>7 DEF Pool, Q

\* The tree gives back what it held under the keys of D.
LEMMA PoolEvicted ==
    ASSUME NEW X, NEW list, NEW f, NEW O, Pool(X, list, f, O), NEW D \in SUBSET DOMAIN f,
           NEW g, DOMAIN g = DOMAIN f \ D, \A k \in DOMAIN g : g[k] = f[k],
           NEW S, S = {f[k] : k \in D}
    PROVE  Pool(X, Put(list, S), g, O)
<1>1. \A j, k \in DOMAIN f : f[j] = f[k] => j = k
    BY DEF Pool, IsInjective
<1>2. Range(g) = Range(f) \ S /\ IsInjective(g) /\ S \subseteq Range(f)
    BY <1>1 DEF Range, IsInjective
<1>3. DOMAIN list = X
    BY DEF Pool
<1>4. ASSUME NEW x \in X
      PROVE  Put(list, S)[x] = IF x \in Range(g) \/ \E v \in Req : x \in O[v] THEN 0 ELSE 1
    <2>1. Put(list, S)[x] = IF x \in S THEN list[x] + 1 ELSE list[x]
        BY <1>3 DEF Put
    <2>2. CASE x \in S
        <3>1. x \in Range(f) /\ list[x] = 0 /\ \A v \in Req : x \notin O[v]
            BY <1>2, <2>2 DEF Pool
        <3> QED BY <1>2, <2>1, <2>2, <3>1
    <2>3. CASE x \notin S
        BY <1>2, <2>1, <2>3 DEF Pool
    <2> QED BY <2>2, <2>3
<1>5. Put(list, S) = [x \in X |-> Put(list, S)[x]]
    BY <1>3 DEF Put
<1>6. Range(g) \subseteq X /\ \A v \in Req : O[v] \subseteq X /\ O[v] \cap Range(g) = {}
    BY <1>2 DEF Pool
<1> QED BY <1>2, <1>4, <1>5, <1>6 DEF Pool

-----------------------------------------------------------------------------
(***************************************************************************)
(* The tree h and its snapshots.  H has the node of each holder, <<>> for  *)
(* none; a held node keeps its snapshot, and so does every leaf.           *)
(***************************************************************************)
Holders(H, e) == {u \in DOMAIN H : H[u] = e}
Idle(h) == {e \in Snapshots(h) : h.mref[e] = 0}
Leaves(c) == {e \in Nodes(c) : \A f \in Nodes(c) : ~IsStrictPrefix(e, f)}

Record(h) ==
    /\ h = [tree |-> h.tree, snap |-> h.snap, mref |-> h.mref,
            evictable |-> h.evictable, protected |-> h.protected]
    /\ h.snap = [e \in Snapshots(h) |-> h.snap[e]] /\ h.mref = [e \in Snapshots(h) |-> h.mref[e]]

Snapped(h, H) ==
    /\ Snapshots(h) \subseteq Nodes(h.tree) /\ Leaves(h.tree) \subseteq Snapshots(h)
    /\ \A u \in DOMAIN H : H[u] \in Snapshots(h) \cup {<<>>}
    /\ \A e \in Snapshots(h) : h.mref[e] = Cardinality(Holders(H, e))
    /\ h.evictable = Cardinality(Idle(h)) /\ h.protected = Cardinality(Snapshots(h) \ Idle(h))

HTree(h, H) == Record(h) /\ Tree(h.tree, Token) /\ Counts(h.tree, H) /\ Snapped(h, H)

LEMMA SnapshotsIs ==
    ASSUME NEW h, NEW H, HTree(h, H)
    PROVE  /\ IsFiniteSet(Snapshots(h)) /\ Snapshots(h) \subseteq WholeKeys(Token)
           /\ Snapshots(h) \subseteq Keys(h.tree) /\ <<>> \notin Snapshots(h)
           /\ IsFiniteSet(Nodes(h.tree)) /\ IsFiniteSet(DOMAIN H)
           /\ \A e \in Snapshots(h) : h.mref[e] \in Nat /\ IsFiniteSet(Holders(H, e))
           /\ IsFiniteSet(Idle(h)) /\ Idle(h) \subseteq Snapshots(h)
<1>1. Snapshots(h) \subseteq Nodes(h.tree) /\ Nodes(h.tree) \subseteq Keys(h.tree)
      /\ IsFiniteSet(Keys(h.tree)) /\ Keys(h.tree) \subseteq WholeKeys(Token)
    BY DEF HTree, Snapped, Tree
<1>2. IsFiniteSet(Snapshots(h)) /\ IsFiniteSet(Nodes(h.tree))
    BY <1>1, FS_Subset
<1>3. <<>> \notin Snapshots(h)
    BY <1>1, WholeKeyIs
<1>4. IsFiniteSet(DOMAIN H)
    BY DEF HTree, Counts
<1>5. ASSUME NEW e \in Snapshots(h)
      PROVE  h.mref[e] \in Nat /\ IsFiniteSet(Holders(H, e))
    <2>1. Holders(H, e) \in SUBSET DOMAIN H
        BY DEF Holders
    <2>2. IsFiniteSet(Holders(H, e))
        BY <1>4, <2>1, FS_Subset
    <2> QED BY <2>2, FS_CardinalityType DEF HTree, Snapped
<1>6. Idle(h) \in SUBSET Snapshots(h)
    BY DEF Idle
<1> QED BY <1>1, <1>2, <1>3, <1>4, <1>5, <1>6, FS_Subset

\* A tree that changed in none of its keys' pages, its snapshots or its locks.
LEMMA RetreedIs ==
    ASSUME NEW h, NEW H, HTree(h, H), NEW c, Tree(c, Token), Counts(c, H),
           Nodes(h.tree) \subseteq Nodes(c), Leaves(c) \subseteq Leaves(h.tree)
    PROVE  HTree([h EXCEPT !.tree = c], H)
<1> DEFINE g == [h EXCEPT !.tree = c]
<1>1. Record(h)
    BY DEF HTree
<1>2. /\ g = [tree |-> c, snap |-> h.snap, mref |-> h.mref,
              evictable |-> h.evictable, protected |-> h.protected]
    BY <1>1 DEF Record
<1>3. /\ g.tree = c /\ g.snap = h.snap /\ g.mref = h.mref
      /\ g.evictable = h.evictable /\ g.protected = h.protected
    BY <1>2
<1> HIDE DEF g
<1>4. Snapshots(g) = Snapshots(h) /\ Idle(g) = Idle(h)
    BY <1>3 DEF Snapshots, Idle
<1>5. Record(g)
    BY <1>1, <1>2, <1>3, <1>4 DEF Record
<1>6. Snapped(g, H)
    BY <1>3, <1>4 DEF HTree, Snapped
<1> QED BY <1>3, <1>5, <1>6 DEF HTree, g

\* A match splits at most one edge.
LEMMA MatchHybridIs ==
    ASSUME NEW h, NEW H, HTree(h, H), NEW t \in Seq(Token)
    PROVE  LET g == MatchHybrid(h, t)
           IN  /\ HTree(g, H) /\ g.snap = h.snap /\ g.mref = h.mref
               /\ g.tree.pages = h.tree.pages
<1> DEFINE k == Walk(h.tree, t)  c == Split(h.tree, k)
<1>1. Tree(h.tree, Token) /\ Counts(h.tree, H) /\ Record(h)
    BY DEF HTree
<1>2. k \in Keys(h.tree) \cup {<<>>}
    BY <1>1, WalkIs
<1> HIDE DEF k
<1>3. /\ Tree(c, Token) /\ c.pages = h.tree.pages /\ Counts(c, H)
      /\ Nodes(c) = Nodes(h.tree) \cup ({k} \ {<<>>})
    BY <1>1, <1>2, SplitIs
<1> HIDE DEF c
<1>4. Leaves(c) \subseteq Leaves(h.tree)
    <2> SUFFICES ASSUME NEW e \in Leaves(c) PROVE e \in Leaves(h.tree)
        OBVIOUS
    <2>1. CASE e \in Nodes(h.tree)
        BY <1>3, <2>1 DEF Leaves
    <2>2. CASE e \notin Nodes(h.tree)
        <3>1. e = k /\ e \in Keys(h.tree)
            BY <1>2, <1>3, <2>2 DEF Leaves
        <3>2. PICK f \in Nodes(h.tree) : EndsAt(h.tree, e, f)
            BY <1>1, <3>1 DEF Tree
        <3>3. IsStrictPrefix(e, f)
            BY <2>2, <3>2 DEF EndsAt, IsStrictPrefix
        <3> QED BY <1>3, <3>3 DEF Leaves
    <2> QED BY <2>1, <2>2
<1>5. MatchHybrid(h, t) = [h EXCEPT !.tree = c]
    BY DEF MatchHybrid, Match, c, k
<1>6. HTree([h EXCEPT !.tree = c], H)
    BY <1>3, <1>4, RetreedIs
<1>7. LET g == [h EXCEPT !.tree = c] IN g.snap = h.snap /\ g.mref = h.mref /\ g.tree = c
    BY <1>1 DEF Record
<1> QED BY <1>3, <1>5, <1>6, <1>7

\* The node a match returns carries a snapshot.
LEMMA ResumePointIs ==
    ASSUME NEW h, NEW H, HTree(h, H), NEW t \in Seq(Token)
    PROVE  LET k == ResumePoint(h, t)
           IN  /\ k \in Snapshots(h) \cup {<<>>} /\ k \in Seq(Token) /\ IsPrefix(k, t)
               /\ Len(k) \in Nat /\ Len(k) <= Len(t)
               /\ (t \in Snapshots(h) => k = t)
<1> DEFINE w == Walk(h.tree, t)  S == {<<>>} \cup {e \in Snapshots(h) : IsPrefix(e, w)}
           k == Longest(S)
<1>1. Tree(h.tree, Token)
    BY DEF HTree
<1>2. /\ w \in Seq(Token) /\ IsPrefix(w, t)
      /\ \A j \in Keys(h.tree) : IsPrefix(j, t) => IsPrefix(j, w)
    BY <1>1, WalkIs
<1> HIDE DEF w
<1>3. Snapshots(h) \subseteq WholeKeys(Token) /\ Snapshots(h) \subseteq Keys(h.tree)
    BY SnapshotsIs
<1>4. S # {} /\ \A s \in S : s \in Seq(Token) /\ IsPrefix(s, w)
    BY <1>2, <1>3, EmptyPrefix, WholeKeyIs
<1>5. k \in S /\ \A s \in S : IsPrefix(s, k)
    <2> HIDE DEF S
    <2> QED BY <1>2, <1>4, LongestIs
<1>6. ResumePoint(h, t) = k
    BY DEF ResumePoint, w
<1>7. k \in Snapshots(h) \cup {<<>>} /\ k \in Seq(Token) /\ IsPrefix(k, w)
    BY <1>4, <1>5
<1>8. ASSUME t \in Snapshots(h) PROVE k = t
    <2>1. IsPrefix(t, w)
        BY <1>2, <1>3, <1>8, PrefixOrder
    <2>2. IsPrefix(t, k)
        BY <1>5, <1>8, <2>1
    <2> HIDE DEF k
    <2>3. IsPrefix(k, t)
        BY <1>2, <1>7, PrefixOrder
    <2> QED BY <1>7, <2>2, <2>3, PrefixOrder
<1> HIDE DEF k
<1>9. IsPrefix(k, t) /\ Len(k) <= Len(t) /\ Len(k) \in Nat
    BY <1>2, <1>7, PrefixOrder
<1> QED BY <1>6, <1>7, <1>8, <1>9

\* One element more, one element less.
LEMMA OneMore ==
    ASSUME NEW S, IsFiniteSet(S), NEW x, x \notin S
    PROVE  Cardinality(S \cup {x}) = Cardinality(S) + 1
<1>1. Cardinality(S \cup {x}) = IF x \in S THEN Cardinality(S) ELSE Cardinality(S) + 1
    BY ONLY IsFiniteSet(S), FS_AddElement
<1> QED BY <1>1

LEMMA OneLess ==
    ASSUME NEW S, IsFiniteSet(S), NEW x, x \in S
    PROVE  Cardinality(S \ {x}) = Cardinality(S) - 1
<1>1. Cardinality(S \ {x}) = IF x \in S THEN Cardinality(S) - 1 ELSE Cardinality(S)
    BY ONLY IsFiniteSet(S), FS_RemoveElement
<1> QED BY <1>1

\* A snapshot changes sides.
LEMMA IdleMoves ==
    ASSUME NEW S, IsFiniteSet(S), NEW I \in SUBSET S, NEW k \in S
    PROVE  /\ k \in I => /\ Cardinality(I \ {k}) = Cardinality(I) - 1
                         /\ Cardinality(S \ (I \ {k})) = Cardinality(S \ I) + 1
           /\ k \notin I => /\ Cardinality(I \cup {k}) = Cardinality(I) + 1
                            /\ Cardinality(S \ (I \cup {k})) = Cardinality(S \ I) - 1
<1>1. IsFiniteSet(I) /\ IsFiniteSet(S \ I)
    BY FS_Subset, FS_Difference
<1>2. ASSUME k \in I
      PROVE  /\ Cardinality(I \ {k}) = Cardinality(I) - 1
             /\ Cardinality(S \ (I \ {k})) = Cardinality(S \ I) + 1
    <2>1. S \ (I \ {k}) = (S \ I) \cup {k} /\ k \notin S \ I
        BY <1>2
    <2>2. Cardinality(I \ {k}) = Cardinality(I) - 1
        BY ONLY <1>1, <1>2, OneLess
    <2>3. Cardinality((S \ I) \cup {k}) = Cardinality(S \ I) + 1
        BY ONLY <1>1, <2>1, OneMore
    <2> QED BY ONLY <2>1, <2>2, <2>3
<1>3. ASSUME k \notin I
      PROVE  /\ Cardinality(I \cup {k}) = Cardinality(I) + 1
             /\ Cardinality(S \ (I \cup {k})) = Cardinality(S \ I) - 1
    <2>1. S \ (I \cup {k}) = (S \ I) \ {k} /\ k \in S \ I
        BY <1>3
    <2>2. Cardinality(I \cup {k}) = Cardinality(I) + 1
        BY ONLY <1>1, <1>3, OneMore
    <2>3. Cardinality((S \ I) \ {k}) = Cardinality(S \ I) - 1
        BY ONLY <1>1, <2>1, OneLess
    <2> QED BY ONLY <2>1, <2>2, <2>3
<1> QED BY <1>2, <1>3

\* Who holds nothing locks a snapshot.
LEMMA LockHybridIs ==
    ASSUME NEW h, NEW H, HTree(h, H), NEW k \in Snapshots(h) \cup {<<>>},
           NEW u \in DOMAIN H, H[u] = <<>>
    PROVE  LET g == LockHybrid(h, k)
           IN  /\ HTree(g, [H EXCEPT ![u] = k]) /\ g.snap = h.snap
               /\ g.tree.pages = h.tree.pages /\ Nodes(g.tree) = Nodes(h.tree)
<1> DEFINE g == LockHybrid(h, k)  G == [H EXCEPT ![u] = k]
           c == Lock(h.tree, k)
           moved == IF k \in Snapshots(h) /\ h.mref[k] = 0 THEN 1 ELSE 0
           m == [e \in Snapshots(h) |-> IF e = k THEN h.mref[e] + 1 ELSE h.mref[e]]
<1>1. Record(h) /\ Tree(h.tree, Token) /\ Counts(h.tree, H) /\ Snapped(h, H)
    BY DEF HTree
<1>2. /\ IsFiniteSet(Snapshots(h)) /\ <<>> \notin Snapshots(h) /\ Idle(h) \in SUBSET Snapshots(h)
      /\ IsFiniteSet(Idle(h))
      /\ \A e \in Snapshots(h) : h.mref[e] \in Nat /\ IsFiniteSet(Holders(H, e))
    BY SnapshotsIs
<1>3. k \in Nodes(h.tree) \cup {<<>>}
    BY <1>1 DEF Snapped
<1>4. /\ Tree(c, Token) /\ c.pages = h.tree.pages /\ Nodes(c) = Nodes(h.tree) /\ Counts(c, G)
    BY <1>1, <1>3, LockIs
<1>5. g = [tree |-> c, snap |-> h.snap, mref |-> m,
           evictable |-> h.evictable - moved, protected |-> h.protected + moved]
    <2>1. g = [h EXCEPT !.tree = c, !.mref = m, !.evictable = @ - moved, !.protected = @ + moved]
        BY DEF LockHybrid
    <2> HIDE DEF g, c, m, moved
    <2> QED BY <1>1, <2>1 DEF Record
<1>6. /\ g.tree = c /\ g.snap = h.snap /\ g.mref = m
      /\ g.evictable = h.evictable - moved /\ g.protected = h.protected + moved
    BY <1>5
<1>7. DOMAIN G = DOMAIN H /\ G[u] = k /\ \A v \in DOMAIN H \ {u} : G[v] = H[v]
    OBVIOUS
<1> HIDE DEF g, G, c
<1>8. Snapshots(g) = Snapshots(h)
    BY <1>6 DEF Snapshots
<1>9. Record(g)
    BY <1>1, <1>5, <1>6, <1>8 DEF Record
<1>10. ASSUME NEW e \in Snapshots(h) PROVE g.mref[e] = Cardinality(Holders(G, e))
    <2>1. u \notin Holders(H, e)
        BY <1>2 DEF Holders
    <2>2. Holders(G, e) = IF e = k THEN Holders(H, e) \cup {u} ELSE Holders(H, e)
        BY <1>2, <1>7 DEF Holders
    <2>3. h.mref[e] = Cardinality(Holders(H, e)) /\ IsFiniteSet(Holders(H, e))
        BY <1>1, <1>2 DEF Snapped
    <2>4. CASE e = k
        <3>1. Cardinality(Holders(G, e)) = Cardinality(Holders(H, e)) + 1
            <4>1. Holders(G, e) = Holders(H, e) \cup {u}
                BY <2>2, <2>4
            <4>2. Cardinality(Holders(H, e) \cup {u}) = Cardinality(Holders(H, e)) + 1
                BY ONLY <2>1, <2>3, OneMore
            <4> QED BY <4>1, <4>2
        <3> QED BY <1>6, <2>3, <2>4, <3>1
    <2>5. CASE e # k
        BY <1>6, <2>2, <2>3, <2>5
    <2> QED BY <2>4, <2>5
<1>11. /\ g.evictable = Cardinality(Idle(g)) /\ g.protected = Cardinality(Snapshots(g) \ Idle(g))
    <2>0. h.evictable = Cardinality(Idle(h)) /\ h.protected = Cardinality(Snapshots(h) \ Idle(h))
        BY <1>1 DEF Snapped
    <2>1. Cardinality(Idle(h)) \in Nat /\ Cardinality(Snapshots(h) \ Idle(h)) \in Nat
        BY <1>2, FS_CardinalityType, FS_Difference
    <2>2. CASE moved = 1
        <3>1. k \in Snapshots(h) /\ h.mref[k] = 0
            BY <2>2
        <3>2. Idle(g) = Idle(h) \ {k} /\ k \in Idle(h)
            BY <1>2, <1>6, <1>8, <3>1 DEF Idle
        <3>3. /\ Cardinality(Idle(h) \ {k}) = Cardinality(Idle(h)) - 1
              /\ Cardinality(Snapshots(h) \ (Idle(h) \ {k})) = Cardinality(Snapshots(h) \ Idle(h)) + 1
            <4> DEFINE I == Idle(h)  A == Snapshots(h)
            <4>1. IsFiniteSet(A) /\ I \in SUBSET A /\ k \in A /\ k \in I
                BY <1>2, <3>1, <3>2 DEF Idle
            <4> HIDE DEF I, A
            <4>2. /\ Cardinality(I \ {k}) = Cardinality(I) - 1
                  /\ Cardinality(A \ (I \ {k})) = Cardinality(A \ I) + 1
                BY ONLY <4>1, IdleMoves
            <4> QED BY <4>2 DEF I, A
        <3> QED BY <1>6, <1>8, <2>0, <2>2, <3>2, <3>3
    <2>3. CASE moved = 0
        <3>1. ASSUME NEW e \in Snapshots(h) PROVE g.mref[e] = 0 <=> h.mref[e] = 0
            <4>1. CASE e = k
                BY <1>2, <1>6, <2>3, <4>1
            <4>2. CASE e # k
                BY <1>6, <4>2
            <4> QED BY <4>1, <4>2
        <3>2. Idle(g) = Idle(h)
            BY <1>8, <3>1 DEF Idle
        <3> QED BY <1>6, <1>8, <2>0, <2>1, <2>3, <3>2
    <2> QED BY <2>2, <2>3
<1>12. Snapped(g, G)
    <2>1. \A v \in DOMAIN G : G[v] \in Snapshots(g) \cup {<<>>}
        BY <1>1, <1>7, <1>8 DEF Snapped
    <2>2. Leaves(g.tree) = Leaves(h.tree)
        BY <1>4, <1>6 DEF Leaves
    <2> QED BY <1>1, <1>4, <1>6, <1>8, <1>10, <1>11, <2>1, <2>2 DEF Snapped
<1> QED BY <1>4, <1>6, <1>9, <1>12 DEF HTree, g, G

\* And gives it back.
LEMMA UnlockHybridIs ==
    ASSUME NEW h, NEW H, HTree(h, H), NEW u \in DOMAIN H
    PROVE  LET g == UnlockHybrid(h, H[u])
           IN  /\ HTree(g, [H EXCEPT ![u] = <<>>]) /\ g.snap = h.snap
               /\ g.tree.pages = h.tree.pages /\ Nodes(g.tree) = Nodes(h.tree)
<1> DEFINE k == H[u]  g == UnlockHybrid(h, k)  G == [H EXCEPT ![u] = <<>>]
           c == Unlock(h.tree, k)
           moved == IF k \in Snapshots(h) /\ h.mref[k] = 1 THEN 1 ELSE 0
           m == [e \in Snapshots(h) |-> IF e = k /\ h.mref[e] > 0 THEN h.mref[e] - 1 ELSE h.mref[e]]
<1>1. Record(h) /\ Tree(h.tree, Token) /\ Counts(h.tree, H) /\ Snapped(h, H)
    BY DEF HTree
<1>2. /\ IsFiniteSet(Snapshots(h)) /\ <<>> \notin Snapshots(h) /\ Idle(h) \in SUBSET Snapshots(h)
      /\ IsFiniteSet(Idle(h))
      /\ \A e \in Snapshots(h) : h.mref[e] \in Nat /\ IsFiniteSet(Holders(H, e))
    BY SnapshotsIs
<1>3. k \in Snapshots(h) \cup {<<>>} /\ k \in Nodes(h.tree) \cup {<<>>}
    BY <1>1 DEF Snapped
<1>4. /\ Tree(c, Token) /\ c.pages = h.tree.pages /\ Nodes(c) = Nodes(h.tree) /\ Counts(c, G)
    BY <1>1, <1>3, UnlockIs
<1>5. g = [tree |-> c, snap |-> h.snap, mref |-> m,
           evictable |-> h.evictable + moved, protected |-> h.protected - moved]
    <2>1. g = [h EXCEPT !.tree = c, !.mref = m, !.evictable = @ + moved, !.protected = @ - moved]
        BY DEF UnlockHybrid
    <2> HIDE DEF g, c, m, moved
    <2> QED BY <1>1, <2>1 DEF Record
<1>6. /\ g.tree = c /\ g.snap = h.snap /\ g.mref = m
      /\ g.evictable = h.evictable + moved /\ g.protected = h.protected - moved
    BY <1>5
<1>7. DOMAIN G = DOMAIN H /\ G[u] = <<>> /\ H[u] = k /\ \A v \in DOMAIN H \ {u} : G[v] = H[v]
    OBVIOUS
<1> HIDE DEF g, G, c, k
<1>8. Snapshots(g) = Snapshots(h)
    BY <1>6 DEF Snapshots
<1>9. Record(g)
    BY <1>1, <1>5, <1>6, <1>8 DEF Record
<1>10. ASSUME NEW e \in Snapshots(h)
       PROVE  /\ g.mref[e] = Cardinality(Holders(G, e))
              /\ e = k => h.mref[e] > 0
    <2>1. Holders(G, e) = Holders(H, e) \ {u} /\ (u \in Holders(H, e) <=> e = k)
        BY <1>2, <1>7 DEF Holders
    <2>2. h.mref[e] = Cardinality(Holders(H, e)) /\ IsFiniteSet(Holders(H, e)) /\ h.mref[e] \in Nat
        BY <1>1, <1>2 DEF Snapped
    <2>3. CASE e = k
        <3>1. Cardinality(Holders(G, e)) = Cardinality(Holders(H, e)) - 1
            <4>1. u \in Holders(H, e)
                BY <2>1, <2>3
            <4>2. Cardinality(Holders(H, e) \ {u}) = Cardinality(Holders(H, e)) - 1
                BY ONLY <2>2, <4>1, OneLess
            <4> QED BY <2>1, <4>2
        <3>2. Cardinality(Holders(H, e)) # 0
            BY <2>1, <2>2, <2>3, FS_EmptySet
        <3> QED BY <1>6, <2>2, <2>3, <3>1, <3>2
    <2>4. CASE e # k
        <3>1. Holders(G, e) = Holders(H, e)
            BY <2>1, <2>4
        <3> QED BY <1>6, <2>2, <2>4, <3>1
    <2> QED BY <2>3, <2>4
<1>11. /\ g.evictable = Cardinality(Idle(g)) /\ g.protected = Cardinality(Snapshots(g) \ Idle(g))
    <2>0. h.evictable = Cardinality(Idle(h)) /\ h.protected = Cardinality(Snapshots(h) \ Idle(h))
        BY <1>1 DEF Snapped
    <2>1. Cardinality(Idle(h)) \in Nat /\ Cardinality(Snapshots(h) \ Idle(h)) \in Nat
        BY <1>2, FS_CardinalityType, FS_Difference
    <2>2. CASE moved = 1
        <3>1. k \in Snapshots(h) /\ h.mref[k] = 1
            BY <2>2
        <3>2. Idle(g) = Idle(h) \cup {k} /\ k \notin Idle(h)
            BY <1>2, <1>6, <1>8, <3>1 DEF Idle
        <3>3. /\ Cardinality(Idle(h) \cup {k}) = Cardinality(Idle(h)) + 1
              /\ Cardinality(Snapshots(h) \ (Idle(h) \cup {k})) = Cardinality(Snapshots(h) \ Idle(h)) - 1
            <4> DEFINE I == Idle(h)  A == Snapshots(h)
            <4>1. IsFiniteSet(A) /\ I \in SUBSET A /\ k \in A /\ k \notin I
                BY <1>2, <3>1, <3>2 DEF Idle
            <4> HIDE DEF I, A
            <4>2. /\ Cardinality(I \cup {k}) = Cardinality(I) + 1
                  /\ Cardinality(A \ (I \cup {k})) = Cardinality(A \ I) - 1
                BY ONLY ZenonT(90), <4>1, IdleMoves
            <4> QED BY <4>2 DEF I, A
        <3> QED BY <1>6, <1>8, <2>0, <2>2, <3>2, <3>3
    <2>3. CASE moved = 0
        <3>1. ASSUME NEW e \in Snapshots(h) PROVE g.mref[e] = 0 <=> h.mref[e] = 0
            <4>1. CASE e = k
                BY <1>2, <1>6, <1>10, <2>3, <4>1
            <4>2. CASE e # k
                BY <1>6, <4>2
            <4> QED BY <4>1, <4>2
        <3>2. Idle(g) = Idle(h)
            BY <1>8, <3>1 DEF Idle
        <3> QED BY <1>6, <1>8, <2>0, <2>1, <2>3, <3>2
    <2> QED BY <2>2, <2>3
<1>12. Snapped(g, G)
    <2>1. \A v \in DOMAIN G : G[v] \in Snapshots(g) \cup {<<>>}
        BY <1>1, <1>7, <1>8 DEF Snapped
    <2>2. Leaves(g.tree) = Leaves(h.tree)
        BY <1>4, <1>6 DEF Leaves
    <2> QED BY <1>1, <1>4, <1>6, <1>8, <1>10, <1>11, <2>1, <2>2 DEF Snapped
<1> QED BY <1>4, <1>6, <1>9, <1>12 DEF HTree, g, G, k

\* The nodes an insertion adds: where the walk ended, and the new leaf.
LEMMA InsertNodes ==
    ASSUME NEW T, NEW c, Tree(c, T), NEW t \in WholeKeys(T), NEW row
    PROVE  /\ KeyOf(t) = t
           /\ Nodes(Insert(c, t, row)) \subseteq Nodes(c) \cup ({Walk(c, t)} \ {<<>>}) \cup {t}
<1>1. t \in Seq(T) /\ Len(t) \in Nat /\ Len(t) % PageSize = 0
    BY WholeKeyIs
<1>2. AlignDown(Len(t)) = Len(t)
    BY <1>1, WholeIs
<1>3. KeyOf(t) = t
    BY <1>1, <1>2, PrefixOrder, PrefixIs DEF KeyOf
<1> DEFINE hit == Walk(c, t)  s == Split(c, hit)  d == Insert(c, t, row)
<1>4. hit \in Keys(c) \cup {<<>>}
    BY <1>1, WalkIs
<1> HIDE DEF hit
<1>5. Nodes(s) = Nodes(c) \cup ({hit} \ {<<>>})
    BY <1>4, SplitIs
<1>6. Nodes(d) = IF hit = t THEN Nodes(s) ELSE Nodes(s) \cup {t}
    <2>1. Upto(t, AlignDown(Len(t))) = t
        BY <1>3 DEF KeyOf
    <2>2. hit = t => d = s
        BY <2>1 DEF Insert, hit
    <2>3. hit # t => d.refs = [e \in Nodes(s) \cup {t} |-> IF e = t THEN 0 ELSE s.refs[e]]
        <3> HIDE DEF s
        <3> QED BY <2>1 DEF Insert, hit, s
    <2> HIDE DEF d, s
    <2>4. hit # t => Nodes(d) = Nodes(s) \cup {t}
        BY <2>3 DEF Nodes
    <2> QED BY <2>2, <2>4
<1> QED BY <1>3, <1>5, <1>6 DEF hit

\* The KV and the snapshot of the whole pages t go to the tree.
LEMMA DonateIs ==
    ASSUME NEW h, NEW H, HTree(h, H), NEW t \in WholeKeys(Token), NEW row, NEW slot
    PROVE  LET g == Donate(h, t, row, slot)
               new == Span(Token, Walk(h.tree, t), t)
           IN  /\ HTree(g, H)
               /\ Keys(g.tree) = Keys(h.tree) \cup new /\ Keys(h.tree) \cap new = {}
               /\ \A k \in Keys(h.tree) : g.tree.pages[k] = h.tree.pages[k]
               /\ \A k \in new : g.tree.pages[k] = row[Len(k) \div PageSize]
               /\ HasSnapshot(h, t) <=> t \in Snapshots(h)
               /\ t \in Snapshots(h) => g.snap = h.snap
               /\ t \notin Snapshots(h) =>
                     /\ Snapshots(g) = Snapshots(h) \cup {t} /\ g.snap[t] = slot
                     /\ \A e \in Snapshots(h) : g.snap[e] = h.snap[e]
               /\ t \in Snapshots(g) /\ t \in Keys(g.tree)
<1> DEFINE g == Donate(h, t, row, slot)  c == Insert(h.tree, t, row)
           hit == Walk(h.tree, t)  new == Span(Token, hit, t)
           sn == [e \in Snapshots(h) \cup {t} |-> IF e = t THEN slot ELSE h.snap[e]]
           mr == [e \in Snapshots(h) \cup {t} |-> IF e = t THEN 0 ELSE h.mref[e]]
<1>1. Record(h) /\ Tree(h.tree, Token) /\ Counts(h.tree, H) /\ Snapped(h, H)
    BY DEF HTree
<1>2. /\ IsFiniteSet(Snapshots(h)) /\ <<>> \notin Snapshots(h) /\ Idle(h) \in SUBSET Snapshots(h)
      /\ IsFiniteSet(Idle(h)) /\ Snapshots(h) \subseteq WholeKeys(Token)
    BY SnapshotsIs
<1>3. t \in Seq(Token) /\ t # <<>>
    BY WholeKeyIs
<1>4. KeyOf(t) = t /\ Nodes(c) \subseteq Nodes(h.tree) \cup ({hit} \ {<<>>}) \cup {t}
    BY <1>1, InsertNodes
<1>5. BoundaryOf(t) = t
    BY <1>4 DEF BoundaryOf, KeyOf
<1>6. HasSnapshot(h, t) <=> t \in Snapshots(h)
    BY <1>3, <1>5 DEF HasSnapshot
<1>7. /\ Tree(c, Token) /\ Counts(c, H)
      /\ Keys(c) = Keys(h.tree) \cup new /\ Keys(h.tree) \cap new = {}
      /\ \A k \in Keys(h.tree) : c.pages[k] = h.tree.pages[k]
      /\ \A k \in new : c.pages[k] = row[Len(k) \div PageSize]
      /\ Nodes(h.tree) \subseteq Nodes(c) /\ t \in Nodes(c)
    <2> HIDE DEF c
    <2> QED BY <1>1, <1>3, <1>4, InsertIs DEF c
<1>8. hit \in Seq(Token) /\ IsPrefix(hit, t)
    BY <1>1, <1>3, WalkIs
<1> HIDE DEF c, hit, new
<1>9. Leaves(c) \subseteq Leaves(h.tree) \cup {t}
    <2> SUFFICES ASSUME NEW e \in Leaves(c), e # t PROVE e \in Leaves(h.tree)
        OBVIOUS
    <2>1. e \in Nodes(h.tree) \cup {hit}
        BY <1>4 DEF Leaves
    <2>2. CASE e \in Nodes(h.tree)
        BY <1>7, <2>2 DEF Leaves
    <2>3. CASE e = hit
        BY <1>7, <1>8, <2>3 DEF Leaves, IsStrictPrefix
    <2> QED BY <2>1, <2>2, <2>3
<1>10. CASE t \in Snapshots(h)
    <2>1. g = [h EXCEPT !.tree = c]
        BY <1>6, <1>10 DEF Donate, c
    <2>2. t \in Leaves(c) => t \in Leaves(h.tree)
        BY <1>1, <1>7, <1>10 DEF Leaves, Snapped
    <2>3. Leaves(c) \subseteq Leaves(h.tree)
        BY <1>9, <2>2
    <2>4. HTree([h EXCEPT !.tree = c], H)
        BY <1>7, <2>3, RetreedIs
    <2>5. g.tree = c /\ g.snap = h.snap
        BY <1>1, <2>1 DEF Record
    <2>6. Snapshots(g) = Snapshots(h)
        BY <2>5 DEF Snapshots
    <2> HIDE DEF g
    <2>7. t \in Keys(g.tree)
        BY <1>7, <2>5 DEF Tree
    <2> QED BY <1>6, <1>7, <1>10, <2>1, <2>4, <2>5, <2>6, <2>7 DEF g, new, hit
<1>11. CASE t \notin Snapshots(h)
    <2>1. g = [tree |-> c, snap |-> sn, mref |-> mr,
               evictable |-> h.evictable + 1, protected |-> h.protected]
        <3>1. g = [h EXCEPT !.tree = c, !.snap = sn, !.mref = mr, !.evictable = @ + 1]
            BY <1>5, <1>6, <1>11 DEF Donate, c
        <3> HIDE DEF g, sn, mr
        <3> QED BY <1>1, <3>1 DEF Record
    <2>2. /\ g.tree = c /\ g.snap = sn /\ g.mref = mr
          /\ g.evictable = h.evictable + 1 /\ g.protected = h.protected
        BY <2>1
    <2> HIDE DEF g
    <2>3. Snapshots(g) = Snapshots(h) \cup {t}
        BY <2>2 DEF Snapshots
    <2>4. Record(g)
        BY <2>1, <2>2, <2>3 DEF Record
    <2>5. Idle(g) = Idle(h) \cup {t} /\ t \notin Idle(h)
        BY <1>2, <1>11, <2>2, <2>3 DEF Idle
    <2>6. /\ Cardinality(Idle(g)) = Cardinality(Idle(h)) + 1
          /\ Snapshots(g) \ Idle(g) = Snapshots(h) \ Idle(h)
        <3>1. Cardinality(Idle(h) \cup {t}) = Cardinality(Idle(h)) + 1
            BY ONLY ZenonT(60), <1>2, <2>5, FS_AddElement
        <3>2. Snapshots(g) \ Idle(g) = Snapshots(h) \ Idle(h)
            BY <1>11, <2>3, <2>5
        <3> QED BY <2>5, <3>1, <3>2
    <2>7. ASSUME NEW e \in Snapshots(g) PROVE g.mref[e] = Cardinality(Holders(H, e))
        <3>1. CASE e = t
            <4>1. Holders(H, t) = {}
                BY <1>1, <1>3, <1>11 DEF Snapped, Holders
            <4> QED BY <2>2, <2>3, <3>1, <4>1, FS_EmptySet
        <3>2. CASE e # t
            BY <1>1, <2>2, <2>3, <3>2 DEF Snapped
        <3> QED BY <3>1, <3>2
    <2>8. Snapped(g, H)
        <3>1. h.evictable = Cardinality(Idle(h)) /\ h.protected = Cardinality(Snapshots(h) \ Idle(h))
            BY <1>1 DEF Snapped
        <3>2. /\ g.evictable = Cardinality(Idle(g)) /\ g.protected = Cardinality(Snapshots(g) \ Idle(g))
            BY <2>2, <2>6, <3>1
        <3>3. Snapshots(g) \subseteq Nodes(g.tree) /\ Leaves(g.tree) \subseteq Snapshots(g)
            BY <1>1, <1>7, <1>9, <2>2, <2>3 DEF Snapped
        <3>4. \A u \in DOMAIN H : H[u] \in Snapshots(g) \cup {<<>>}
            BY <1>1, <2>3 DEF Snapped
        <3> QED BY <2>7, <3>2, <3>3, <3>4 DEF Snapped
    <2>9. HTree(g, H)
        BY <1>7, <2>2, <2>4, <2>8 DEF HTree
    <2>10. /\ g.snap[t] = slot /\ \A e \in Snapshots(h) : g.snap[e] = h.snap[e]
           /\ t \in Snapshots(g) /\ t \in Keys(g.tree)
        BY <1>7, <1>11, <2>2, <2>3 DEF Tree
    <2> HIDE DEF sn, mr
    <2> QED BY <1>6, <1>7, <1>11, <2>2, <2>3, <2>9, <2>10 DEF g, new, hit
<1> QED BY <1>10, <1>11

\* The keys whose pages come back with the snapshots of S.
FreedKeys(h, S) == EvictedKeys(h.tree, Reclaimed(h, S))

\* A node nobody's handle runs through.
LEMMA UnusedNode ==
    ASSUME NEW h, NEW H, HTree(h, H), NEW e \in Nodes(h.tree)
    PROVE  h.tree.refs[e] = 0 <=> \A u \in DOMAIN H : ~IsPrefix(e, H[u])
<1>1. h.tree.refs[e] = Cardinality(Users(H, e)) /\ IsFiniteSet(DOMAIN H)
    BY DEF HTree, Counts
<1>2. Users(H, e) \in SUBSET DOMAIN H
    BY DEF Users
<1>3. IsFiniteSet(Users(H, e))
    BY <1>1, <1>2, FS_Subset
<1>4. h.tree.refs[e] = 0 <=> Users(H, e) = {}
    BY <1>1, <1>3, FS_EmptySet
<1> QED BY <1>4 DEF Users

\* And a snapshot nobody holds.
LEMMA IdleSnapshot ==
    ASSUME NEW h, NEW H, HTree(h, H), NEW e \in Snapshots(h)
    PROVE  e \in Idle(h) <=> \A u \in DOMAIN H : H[u] # e
<1>1. h.mref[e] = Cardinality(Holders(H, e)) /\ IsFiniteSet(Holders(H, e))
    BY SnapshotsIs DEF HTree, Snapped
<1>2. h.mref[e] = 0 <=> Holders(H, e) = {}
    BY <1>1, FS_EmptySet
<1> QED BY <1>2 DEF Holders, Idle

\* Snapshots nobody holds are evicted, and what only they kept in the tree.
LEMMA WithoutIs ==
    ASSUME NEW h, NEW H, HTree(h, H), NEW S \in SUBSET Idle(h)
    PROVE  LET g == WithoutSnapshots(h, S)
               D == FreedKeys(h, S)
           IN  /\ HTree(g, H)
               /\ D \subseteq Keys(h.tree) /\ Keys(g.tree) = Keys(h.tree) \ D
               /\ \A k \in Keys(g.tree) : g.tree.pages[k] = h.tree.pages[k]
               /\ Snapshots(g) = Snapshots(h) \ S
               /\ \A e \in Snapshots(g) : g.snap[e] = h.snap[e]
               /\ FreedPages(h, S) = {h.tree.pages[k] : k \in D}
               /\ FreedSlots(h, S) = {h.snap[e] : e \in S}
               /\ D \cap UsedKeys(h.tree, H) = {}
<1> DEFINE g == WithoutSnapshots(h, S)  R == Reclaimed(h, S)  D == FreedKeys(h, S)
           c == Evict(h.tree, R)  kept == Snapshots(h) \ S
           sn == [e \in kept |-> h.snap[e]]  mr == [e \in kept |-> h.mref[e]]
<1>1. Record(h) /\ Tree(h.tree, Token) /\ Counts(h.tree, H) /\ Snapped(h, H)
    BY DEF HTree
<1>2. /\ IsFiniteSet(Snapshots(h)) /\ <<>> \notin Snapshots(h) /\ Idle(h) \in SUBSET Snapshots(h)
      /\ IsFiniteSet(Idle(h)) /\ Snapshots(h) \subseteq Nodes(h.tree)
    BY SnapshotsIs DEF HTree, Snapped
<1>3. Nodes(h.tree) \subseteq Seq(Token)
    BY <1>1, WholeKeyIs DEF Tree
<1>4. ASSUME NEW e \in Nodes(h.tree)
      PROVE  e \in R <=> \A f \in Nodes(h.tree) : IsPrefix(e, f) =>
                            /\ h.tree.refs[f] = 0 /\ (f \in S \/ f \notin Snapshots(h))
                            /\ \E s \in S : IsPrefix(f, s)
    BY DEF Reclaimed
<1>5. R \in SUBSET Nodes(h.tree)
    BY DEF Reclaimed
<1> HIDE DEF R
<1>6. \A e \in R, f \in Nodes(h.tree) : IsPrefix(e, f) => f \in R
    <2> SUFFICES ASSUME NEW e \in R, NEW f \in Nodes(h.tree), IsPrefix(e, f) PROVE f \in R
        OBVIOUS
    <2>1. \A j \in Nodes(h.tree) : IsPrefix(f, j) => IsPrefix(e, j)
        BY <1>3, <1>5, PrefixOrder
    <2> QED BY <1>4, <1>5, <2>1
<1>7. \A e \in R : h.tree.refs[e] = 0 /\ (e \in S \/ e \notin Snapshots(h)) /\ \E s \in S : IsPrefix(e, s)
    <2>1. \A e \in R : IsPrefix(e, e)
        BY <1>3, <1>5, PrefixOrder
    <2> QED BY <1>4, <1>5, <2>1
<1>8. /\ Tree(c, Token) /\ Keys(c) = Keys(h.tree) \ D /\ Nodes(c) = Nodes(h.tree) \ R
      /\ \A k \in Keys(c) : c.pages[k] = h.tree.pages[k]
      /\ Counts(c, H) /\ D \cap UsedKeys(h.tree, H) = {}
    <2>1. D = EvictedKeys(h.tree, R)
        BY DEF FreedKeys, R
    <2> HIDE DEF c, D
    <2> QED BY <1>1, <1>5, <1>6, <1>7, <2>1, EvictIs DEF c
<1>9. D \subseteq Keys(h.tree)
    BY DEF FreedKeys, EvictedKeys
<1>10. \A u \in DOMAIN H : H[u] \notin S
    BY <1>2, IdleSnapshot
<1>11. Leaves(c) \subseteq kept
    <2> SUFFICES ASSUME NEW e \in Leaves(c), e \notin kept PROVE FALSE
        OBVIOUS
    <2>1. e \in Nodes(h.tree) /\ e \notin R
        BY <1>8 DEF Leaves
    <2>2. \A f \in Nodes(h.tree) : IsPrefix(e, f) /\ f # e => f \in R
        BY <1>8 DEF Leaves, IsStrictPrefix
    <2>3. \A u \in DOMAIN H : ~IsPrefix(e, H[u])
        <3> SUFFICES ASSUME NEW u \in DOMAIN H, IsPrefix(e, H[u]) PROVE FALSE
            OBVIOUS
        <3>1. H[u] # e
            BY <1>1, <1>10, <2>1, WholeKeyIs DEF Snapped, Tree
        <3>2. H[u] \in Nodes(h.tree)
            <4>1. H[u] # <<>>
                BY <1>1, <1>3, <2>1, EmptyPrefix, WholeKeyIs DEF Tree
            <4> QED BY <1>1, <1>2, <4>1 DEF Snapped
        <3>3. h.tree.refs[H[u]] = 0
            BY <1>7, <2>2, <3>1, <3>2
        <3>4. IsPrefix(H[u], H[u])
            BY <1>3, <3>2, PrefixOrder
        <3> QED BY <3>2, <3>3, <3>4, UnusedNode
    <2>4. h.tree.refs[e] = 0
        BY <2>1, <2>3, UnusedNode
    <2>5. \E s \in S : IsPrefix(e, s)
        <3>1. CASE e \in S
            BY <1>3, <2>1, <3>1, PrefixOrder
        <3>2. CASE e \notin S
            <4>1. e \notin Leaves(h.tree)
                BY <1>1, <3>2 DEF Snapped
            <4>2. PICK f \in Nodes(h.tree) : IsPrefix(e, f) /\ f # e
                BY <2>1, <4>1 DEF Leaves, IsStrictPrefix
            <4>3. PICK s \in S : IsPrefix(f, s)
                BY <1>7, <2>2, <4>2
            <4>4. s \in Nodes(h.tree)
                BY <1>2
            <4> QED BY <1>3, <2>1, <4>2, <4>3, <4>4, PrefixOrder
        <3> QED BY <3>1, <3>2
    <2>6. e \in R
        BY <1>4, <1>7, <2>1, <2>2, <2>4, <2>5
    <2> QED BY <2>1, <2>6
<1> DEFINE gone == {e \in S \cap Snapshots(h) : h.mref[e] = 0}
<1>12. gone = S /\ S \cap Snapshots(h) = S
    BY DEF Idle
<1>13. g = [tree |-> c, snap |-> sn, mref |-> mr,
            evictable |-> h.evictable - Cardinality(S), protected |-> h.protected]
    <2>1. g = [h EXCEPT !.tree = c, !.snap = sn, !.mref = mr, !.evictable = @ - Cardinality(gone)]
        BY DEF WithoutSnapshots, c, R
    <2> HIDE DEF g, sn, mr, c, gone
    <2> QED BY <1>1, <1>12, <2>1 DEF Record
<1>14. /\ g.tree = c /\ g.snap = sn /\ g.mref = mr
       /\ g.evictable = h.evictable - Cardinality(S) /\ g.protected = h.protected
    BY <1>13
<1> HIDE DEF g, c
<1>15. Snapshots(g) = kept
    BY <1>14 DEF Snapshots
<1>16. Record(g)
    BY <1>13, <1>14, <1>15 DEF Record
<1>17. Idle(g) = Idle(h) \ S
    BY <1>2, <1>14, <1>15 DEF Idle
<1>18. Snapped(g, H)
    <2>1. h.evictable = Cardinality(Idle(h)) /\ h.protected = Cardinality(Snapshots(h) \ Idle(h))
        BY <1>1 DEF Snapped
    <2>2. Cardinality(Idle(h) \ S) = Cardinality(Idle(h)) - Cardinality(S)
        <3>1. Idle(h) \cap S = S
            OBVIOUS
        <3> QED BY <1>2, <3>1, FS_Difference
    <2>3. Snapshots(g) \ Idle(g) = Snapshots(h) \ Idle(h)
        BY <1>2, <1>15, <1>17
    <2>4. /\ g.evictable = Cardinality(Idle(g)) /\ g.protected = Cardinality(Snapshots(g) \ Idle(g))
        BY <1>14, <1>17, <2>1, <2>2, <2>3
    <2>5. \A e \in Snapshots(g) : g.mref[e] = Cardinality(Holders(H, e))
        BY <1>1, <1>14, <1>15 DEF Snapped
    <2>6. \A u \in DOMAIN H : H[u] \in Snapshots(g) \cup {<<>>}
        BY <1>1, <1>10, <1>15 DEF Snapped
    <2>7. Snapshots(g) \subseteq Nodes(g.tree)
        BY <1>2, <1>7, <1>8, <1>14, <1>15
    <2> QED BY <1>11, <1>14, <1>15, <2>4, <2>5, <2>6, <2>7 DEF Snapped
<1>19. HTree(g, H)
    BY <1>8, <1>14, <1>16, <1>18 DEF HTree
<1>20. FreedPages(h, S) = {h.tree.pages[k] : k \in D}
    BY DEF FreedPages, FreedKeys
<1>21. FreedSlots(h, S) = {h.snap[e] : e \in S}
    BY <1>12 DEF FreedSlots
<1>22. \A e \in Snapshots(g) : g.snap[e] = h.snap[e]
    BY <1>14, <1>15
<1> HIDE DEF D
<1> QED BY <1>8, <1>9, <1>14, <1>15, <1>19, <1>20, <1>21, <1>22 DEF g, D

-----------------------------------------------------------------------------
(***************************************************************************)
(* The free lists.                                                         *)
(***************************************************************************)
There(list) == {x \in DOMAIN list : list[x] > 0}

\* A list of distinct elements has as many as there are on it.
LEMMA CountIs ==
    ASSUME NEW list, IsFiniteSet(DOMAIN list), \A x \in DOMAIN list : list[x] \in {0, 1}
    PROVE  /\ IsFiniteSet(There(list)) /\ Count(list) = Cardinality(There(list))
           /\ Count(list) \in Nat
<1>1. Count(list) = SumOver(list, DOMAIN list)
    BY DEF Count, SumOver
<1>2. SumOver(list, DOMAIN list) = Cardinality({x \in DOMAIN list : list[x] = 1})
    BY SumOnes
<1>3. {x \in DOMAIN list : list[x] = 1} = There(list)
    BY DEF There
<1>4. There(list) \in SUBSET DOMAIN list
    BY DEF There
<1>5. IsFiniteSet(There(list))
    BY <1>4, FS_Subset
<1> QED BY <1>1, <1>2, <1>3, <1>5, FS_CardinalityType

\* The n lowest elements are n different ones.
LEMMA LowestIs ==
    ASSUME NEW list, DOMAIN list \subseteq Int, IsFiniteSet(There(list)),
           NEW n \in Nat, n <= Cardinality(There(list))
    PROVE  LET s == Lowest(list, n)
           IN  /\ s \in Seq(DOMAIN list) /\ Len(s) = n /\ DOMAIN s = 1..n
               /\ \A i \in 1..n : s[i] \in There(list)
               /\ \A i, j \in 1..n : s[i] = s[j] => i = j
<1> DEFINE T == There(list)  Below(x) == {y \in T : y < x}  c == Cardinality(T)
           rank == [x \in T |-> Cardinality(Below(x))]
           s == Lowest(list, n)
<1>1. T \subseteq Int /\ T \subseteq DOMAIN list /\ IsFiniteSet(T)
    BY DEF There
<1>2. s = [i \in 1..n |-> CHOOSE x \in T : Cardinality(Below(x)) = i - 1]
    BY DEF Lowest, There
<1> HIDE DEF T, s
<1>3. c \in Nat
    BY <1>1, FS_CardinalityType
<1>4. ASSUME NEW x \in T
      PROVE  IsFiniteSet(Below(x)) /\ rank[x] \in 0..(c - 1) /\ rank[x] = Cardinality(Below(x))
    <2>1. Below(x) \in SUBSET (T \ {x})
        BY <1>1
    <2> HIDE DEF Below
    <2>2. IsFiniteSet(T \ {x}) /\ Cardinality(T \ {x}) = c - 1
        BY <1>1, FS_RemoveElement
    <2>3. IsFiniteSet(Below(x)) /\ Cardinality(Below(x)) <= c - 1
        BY <2>1, <2>2, FS_Subset
    <2>4. Cardinality(Below(x)) \in Nat
        BY <2>3, FS_CardinalityType
    <2> QED BY <1>3, <2>3, <2>4
<1>5. ASSUME NEW x \in T, NEW y \in T, x < y PROVE rank[x] < rank[y]
    <2>0. x \in Int /\ y \in Int /\ ~(x < x)
        BY <1>1
    <2>1. x \notin Below(x) /\ Below(x) \cup {x} \in SUBSET Below(y)
        <3>1. \A z \in T : z < x => z < y
            BY <1>1, <1>5, <2>0
        <3> QED BY ONLY Zenon, <1>5, <2>0, <3>1
    <2>2. IsFiniteSet(Below(x)) /\ IsFiniteSet(Below(y))
        BY <1>4
    <2> HIDE DEF Below
    <2>3. Cardinality(Below(x) \cup {x}) = Cardinality(Below(x)) + 1
        BY ONLY ZenonT(60), <2>1, <2>2, FS_AddElement
    <2>4. Cardinality(Below(x) \cup {x}) <= Cardinality(Below(y))
        BY <2>1, <2>2, FS_Subset
    <2>5. Cardinality(Below(x)) \in Nat /\ Cardinality(Below(y)) \in Nat
        BY <2>2, FS_CardinalityType
    <2>6. rank[x] = Cardinality(Below(x)) /\ rank[y] = Cardinality(Below(y))
        OBVIOUS
    <2> QED BY <2>3, <2>4, <2>5, <2>6
<1>a. \A x \in T : rank[x] \in Int
    BY <1>3, <1>4
<1> HIDE DEF rank, c
<1>6. \A x, y \in T : rank[x] = rank[y] => x = y
    <2> SUFFICES ASSUME NEW x \in T, NEW y \in T, rank[x] = rank[y], x # y PROVE FALSE
        OBVIOUS
    <2>1. x < y \/ y < x
        BY <1>1
    <2>2. rank[x] \in Int /\ rank[y] \in Int
        BY <1>a
    <2> QED BY <1>5, <2>1, <2>2
<1> DEFINE I == {rank[x] : x \in T}
<1>7. I = 0..(c - 1)
    <2>1. Cardinality(I) = c /\ IsFiniteSet(I)
        BY <1>1, <1>6, ImageIs DEF c
    <2>2. I \in SUBSET (0..(c - 1))
        BY <1>4
    <2>3. IsFiniteSet(0..(c - 1)) /\ Cardinality(0..(c - 1)) = c
        <3>1. 0 \in Int /\ c - 1 \in Int
            BY <1>3
        <3> QED BY <1>3, <3>1, FS_Interval
    <2> HIDE DEF I
    <2> QED BY <2>1, <2>2, <2>3, FS_Subset
<1>8. ASSUME NEW i \in 1..n
      PROVE  s[i] \in T /\ rank[s[i]] = i - 1
    <2>1. i - 1 \in 0..(c - 1)
        BY <1>3 DEF c, T
    <2>2. \E x \in T : Cardinality(Below(x)) = i - 1
        BY <1>4, <1>7, <2>1
    <2>3. s[i] = CHOOSE x \in T : Cardinality(Below(x)) = i - 1
        BY <1>2
    <2> HIDE DEF Below
    <2>4. s[i] \in T /\ Cardinality(Below(s[i])) = i - 1
        BY <2>2, <2>3
    <2> QED BY <1>4, <2>4
<1>9. \A i, j \in 1..n : s[i] = s[j] => i = j
    <2> SUFFICES ASSUME NEW i \in 1..n, NEW j \in 1..n, s[i] = s[j] PROVE i = j
        OBVIOUS
    <2>1. i - 1 = j - 1
        BY <1>8
    <2> QED BY <2>1
<1>10. s \in [1..n -> DOMAIN list] /\ DOMAIN s = 1..n
    BY <1>1, <1>2, <1>8
<1>11. s \in Seq(DOMAIN list) /\ Len(s) = n
    BY <1>10
<1> QED BY <1>8, <1>9, <1>10, <1>11 DEF s, T

\* A pool's list holds each element at most once; what is on it is nobody's.
LEMMA PoolList ==
    ASSUME NEW X, IsFiniteSet(X), NEW list, NEW f, NEW O, Pool(X, list, f, O)
    PROVE  /\ DOMAIN list = X /\ IsFiniteSet(There(list)) /\ There(list) \subseteq X
           /\ Count(list) = Cardinality(There(list)) /\ Count(list) \in Nat
           /\ There(list) = {x \in X : list[x] > 0}
           /\ \A x \in There(list) : x \notin Range(f) /\ \A u \in Req : x \notin O[u]
<1>1. DOMAIN list = X /\ \A x \in X : list[x] \in {0, 1}
    BY DEF Pool
<1>2. \A x \in X : list[x] > 0 => x \notin Range(f) /\ \A u \in Req : x \notin O[u]
    BY DEF Pool
<1> QED BY <1>1, <1>2, CountIs DEF There

\* What was just put on it is on it.
LEMMA PutThere ==
    ASSUME NEW X, NEW list, NEW f, NEW O, Pool(X, list, f, O), NEW S \in SUBSET X
    PROVE  S \subseteq There(Put(list, S)) /\ There(list) \subseteq There(Put(list, S))
<1>1. DOMAIN list = X /\ \A x \in X : list[x] \in {0, 1}
    BY DEF Pool
<1>2. DOMAIN Put(list, S) = X
      /\ \A x \in X : Put(list, S)[x] = IF x \in S THEN list[x] + 1 ELSE list[x]
    BY <1>1 DEF Put
<1> QED BY <1>1, <1>2 DEF There

-----------------------------------------------------------------------------
(***************************************************************************)
(* The inductive invariant, of the tree h, the free lists fp and fs, the   *)
(* contents k and st of the pages and the slots, and the requests q.       *)
(***************************************************************************)
Phases == {"new", "admitted", "prefill", "drain", "decode"}

ReqType ==
    [phase : Phases, text : Seq(Token), prompt : Nat, output : Nat, image : BOOLEAN,
     cached : Nat, host : Nat, handle : Seq(Token), row : Seq(Page),
     live : Nat, track : [1..2 -> Nat], next : {1, 2}, frozen : Nat, anchor : Nat, restore : Nat]

\* The lengths the scheduler keeps for a request, between two calls.
Lengths(r) ==
    /\ Len(r.row) = Pages(r.cached)
    /\ IsPrefix(r.handle, r.text) /\ Len(r.handle) <= r.cached
    /\ r.image => r.handle = <<>>
    /\ r.phase = "new" => r = NewReq
    /\ InPrompt(r) => Len(r.text) = r.prompt /\ r.cached < r.prompt /\ r.host = r.cached
    /\ Sampling(r) => /\ Len(r.text) = r.cached + 1 /\ r.prompt <= r.cached
                      /\ r.cached <= r.host + 1
    /\ r.frozen <= r.cached /\ (r.frozen # 0 => Len(r.handle) <= r.frozen)
    /\ r.phase = "admitted" => r.cached = Len(r.handle) /\ r.frozen = 0

\* What a request holds of the two pools.
OwnPages(r) == {r.row[i] : i \in OwnPositions(r)}
OwnSlots(r) == IF r.phase = "new" THEN {} ELSE {r.live, r.track[1], r.track[2]}

Apart(r) ==
    /\ \A i, j \in OwnPositions(r) : r.row[i] = r.row[j] => i = j
    /\ r.phase # "new" =>
          r.live # r.track[1] /\ r.live # r.track[2] /\ r.track[1] # r.track[2]

\* Its row begins with the tree's pages for its handle, and a first forward
\* restores the snapshot there.
Shared(h, r) ==
    /\ \A i \in 1..(Len(r.handle) \div PageSize) :
          r.row[i] = h.tree.pages[Upto(r.handle, i * PageSize)]
    /\ r.restore = IF r.phase = "admitted" /\ r.handle # <<>> THEN h.snap[r.handle] ELSE 0

\* What the pages and the slots it holds contain.
Owner(u, r) == IF r.image THEN u ELSE NoImage
Least(a, b) == IF a <= b THEN a ELSE b

Wrote(u, r, k, st) ==
    /\ \A i \in OwnPositions(r) :
          k[r.row[i]] = <<Owner(u, r), Upto(r.text, Least(i * PageSize, r.cached))>>
    /\ r.phase \notin {"new", "admitted"} => st[r.live] = <<Owner(u, r), Upto(r.text, r.cached)>>
    /\ r.frozen # 0 => st[FrozenSlot(r)] = <<Owner(u, r), Upto(r.text, r.frozen)>>

\* And those of the tree.
TreeWrote(h, k, st) ==
    /\ \A j \in Keys(h.tree) : k[h.tree.pages[j]] = <<NoImage, j>>
    /\ \A e \in Snapshots(h) : st[h.snap[e]] = <<NoImage, e>>

Handles(q) == [u \in Req |-> q[u].handle]
PagesOf(q) == [u \in Req |-> OwnPages(q[u])]
SlotsOf(q) == [u \in Req |-> OwnSlots(q[u])]

Fits(u, r, h, k, st) ==
    r \in ReqType /\ Lengths(r) /\ Apart(r) /\ Shared(h, r) /\ Wrote(u, r, k, st)

\* The elements of a row after the first from, up to place to.
Cut(row, from, to) == {row[i] : i \in (from + 1)..to}

\* u owns the elements of S, the others what they did.
Owning(O, u, S) == [O EXCEPT ![u] = S]

AllInv(h, fp, fs, k, st, q) ==
    /\ DOMAIN q = Req /\ q = [u \in Req |-> q[u]]
    /\ HTree(h, Handles(q))
    /\ Pool(Page, fp, h.tree.pages, PagesOf(q)) /\ Pool(Slot, fs, h.snap, SlotsOf(q))
    /\ DOMAIN k = Page /\ DOMAIN st = Slot /\ TreeWrote(h, k, st)
    /\ \A u \in Req : Fits(u, q[u], h, k, st)

HybridInv == AllInv(cache, freePages, freeSlots, kv, state, req)

LEMMA PoolsFinite == IsFiniteSet(Page) /\ IsFiniteSet(Slot) /\ Page \subseteq Nat /\ Slot \subseteq Nat
<1>1. Cardinality(Req) \in Nat
    BY PoolAssumption, FS_CardinalityType
<1>2. SlotsPerReq * Cardinality(Req) + SnapshotSlots \in Int /\ NumPages \in Int /\ 1 \in Int
    BY <1>1, PoolAssumption DEF SlotsPerReq
<1>3. IsFiniteSet(Page) /\ IsFiniteSet(Slot)
    BY <1>2, FS_Interval DEF Page, Slot
<1>4. Page \subseteq Nat /\ Slot \subseteq Nat
    BY <1>2 DEF Page, Slot
<1> QED BY <1>3, <1>4

\* The shared part of a row, in pages, and its own positions after that.
LEMMA RowIs ==
    ASSUME NEW h, NEW H, HTree(h, H), NEW r \in ReqType, Lengths(r),
           r.handle \in Snapshots(h) \cup {<<>>}
    PROVE  LET a == Len(r.handle) \div PageSize
               e == Len(r.row)
           IN  /\ a \in Nat /\ e \in Nat /\ a <= e /\ a * PageSize = Len(r.handle)
               /\ Len(r.handle) % PageSize = 0 /\ Len(r.handle) \in Nat
               /\ OwnPositions(r) = (a + 1)..e /\ r.cached <= e * PageSize
               /\ \A i \in 1..a : /\ i \in 1..e /\ i * PageSize <= r.cached
                                  /\ Upto(r.handle, i * PageSize) \in Keys(h.tree)
                                  /\ Upto(r.handle, i * PageSize) = Upto(r.text, i * PageSize)
<1> DEFINE k == r.handle  a == Len(k) \div PageSize  e == Len(r.row)
<1>1. k \in Seq(Token) /\ r.text \in Seq(Token) /\ r.cached \in Nat /\ r.row \in Seq(Page)
    BY DEF ReqType
<1>2. IsPrefix(k, r.text) /\ Len(k) <= r.cached /\ e = Pages(r.cached)
    BY DEF Lengths
<1>3. /\ <<>> \notin Snapshots(h) /\ Snapshots(h) \subseteq WholeKeys(Token)
      /\ Snapshots(h) \subseteq Keys(h.tree)
    BY SnapshotsIs
<1>4. OwnPositions(r) = (a + 1)..e
    BY DEF OwnPositions
<1> HIDE DEF k, e
<1>5. Len(k) % PageSize = 0 /\ Len(k) \in Nat /\ e \in Nat
    <2>1. CASE k = <<>>
        BY <1>1, <2>1, EmptyPrefix, PageSizeAssumption DEF e
    <2>2. CASE k # <<>>
        BY <1>1, <1>3, <2>2, WholeKeyIs DEF e, k
    <2> QED BY <2>1, <2>2
<1>6. a \in Nat /\ a * PageSize = Len(k)
    BY <1>5, WholeIs
<1>7. r.cached <= e * PageSize
    BY <1>1, <1>2, PagesIs
<1>8. a <= e
    <2> HIDE DEF a
    <2>1. e * PageSize \in Nat /\ (a <= e <=> a * PageSize <= e * PageSize)
        BY <1>5, <1>6, TimesIs
    <2> QED BY <1>1, <1>2, <1>5, <1>6, <1>7, <2>1
<1>9. ASSUME NEW i \in 1..a
      PROVE  /\ i \in 1..e /\ i * PageSize <= r.cached
             /\ Upto(k, i * PageSize) \in Keys(h.tree)
             /\ Upto(k, i * PageSize) = Upto(r.text, i * PageSize)
    <2>1. k # <<>>
        <3>1. CASE k = <<>>
            <4>1. Len(k) = 0 /\ 1 <= a
                BY <1>6, <3>1
            <4> HIDE DEF a
            <4>2. a * PageSize = 0 * PageSize
                BY <1>6, <4>1, PageSizeAssumption
            <4> QED BY <1>6, <4>1, <4>2, TimesIs
        <3> QED BY <3>1
    <2>2. k \in Keys(h.tree)
        BY <1>3, <2>1 DEF k
    <2>3. /\ Upto(k, i * PageSize) \in WholeKeys(Token) /\ IsPrefix(Upto(k, i * PageSize), k)
          /\ i * PageSize \in 1..Len(k)
        BY <1>1, <1>5, PageKeyIs
    <2>4. Upto(k, i * PageSize) \in Keys(h.tree)
        BY <2>2, <2>3 DEF HTree, Tree
    <2>5. i * PageSize \in 0..Len(k)
        BY <2>3
    <2>6. Upto(k, i * PageSize) = Upto(r.text, i * PageSize)
        BY <1>1, <1>2, <2>5, UptoOfPrefix
    <2>7. i * PageSize <= r.cached
        BY <1>1, <1>2, <1>5, <2>3
    <2>8. i \in 1..e
        BY <1>5, <1>6, <1>8
    <2> QED BY <2>4, <2>6, <2>7, <2>8
<1> HIDE DEF a
<1> QED BY <1>4, <1>5, <1>6, <1>7, <1>8, <1>9 DEF a, e, k

\* A step of u leaves the others alone, if what the tree and the others keep is
\* where it was.
After(h, k, st, q, u, x, g, gp, gs, kk, ss) ==
    /\ u \in Req /\ Fits(u, x, g, kk, ss)
    /\ HTree(g, Owning(Handles(q), u, x.handle))
    /\ Pool(Page, gp, g.tree.pages, Owning(PagesOf(q), u, OwnPages(x)))
    /\ Pool(Slot, gs, g.snap, Owning(SlotsOf(q), u, OwnSlots(x)))
    /\ DOMAIN kk = Page /\ DOMAIN ss = Slot /\ TreeWrote(g, kk, ss)
    /\ \A j \in Keys(h.tree) \cap Keys(g.tree) : g.tree.pages[j] = h.tree.pages[j]
    /\ \A e \in Snapshots(h) \cap Snapshots(g) : g.snap[e] = h.snap[e]
    /\ \A v \in Req \ {u} : /\ \A p \in OwnPages(q[v]) : kk[p] = k[p]
                            /\ \A s \in OwnSlots(q[v]) : ss[s] = st[s]

LEMMA StepIs ==
    ASSUME NEW h, NEW fp, NEW fs, NEW k, NEW st, NEW q, AllInv(h, fp, fs, k, st, q),
           NEW u, NEW x, NEW g, NEW gp, NEW gs, NEW kk, NEW ss,
           After(h, k, st, q, u, x, g, gp, gs, kk, ss)
    PROVE  AllInv(g, gp, gs, kk, ss, [q EXCEPT ![u] = x])
<1> /\ u \in Req /\ Fits(u, x, g, kk, ss)
    /\ HTree(g, [Handles(q) EXCEPT ![u] = x.handle])
    /\ Pool(Page, gp, g.tree.pages, [PagesOf(q) EXCEPT ![u] = OwnPages(x)])
    /\ Pool(Slot, gs, g.snap, [SlotsOf(q) EXCEPT ![u] = OwnSlots(x)])
    /\ DOMAIN kk = Page /\ DOMAIN ss = Slot /\ TreeWrote(g, kk, ss)
    /\ \A j \in Keys(h.tree) \cap Keys(g.tree) : g.tree.pages[j] = h.tree.pages[j]
    /\ \A e \in Snapshots(h) \cap Snapshots(g) : g.snap[e] = h.snap[e]
    /\ \A v \in Req \ {u} : /\ \A p \in OwnPages(q[v]) : kk[p] = k[p]
                            /\ \A s \in OwnSlots(q[v]) : ss[s] = st[s]
    BY DEF After, Owning
<1> DEFINE r == [q EXCEPT ![u] = x]
<1>1. DOMAIN q = Req /\ HTree(h, Handles(q)) /\ \A v \in Req : Fits(v, q[v], h, k, st)
    BY DEF AllInv
<1>2. /\ DOMAIN r = Req /\ r[u] = x /\ \A v \in Req \ {u} : r[v] = q[v]
      /\ r = [v \in Req |-> r[v]]
    BY <1>1
<1> HIDE DEF r
<1>3. /\ Handles(r) = [Handles(q) EXCEPT ![u] = x.handle]
      /\ PagesOf(r) = [PagesOf(q) EXCEPT ![u] = OwnPages(x)]
      /\ SlotsOf(r) = [SlotsOf(q) EXCEPT ![u] = OwnSlots(x)]
    BY <1>2 DEF Handles, PagesOf, SlotsOf
<1>4. ASSUME NEW v \in Req \ {u} PROVE Fits(v, q[v], g, kk, ss)
    <2> DEFINE y == q[v]
    <2>1. y \in ReqType /\ Lengths(y) /\ Apart(y) /\ Shared(h, y) /\ Wrote(v, y, k, st)
        BY <1>1 DEF Fits
    <2>2. y.handle = Handles(q)[v] /\ y.handle = [Handles(q) EXCEPT ![u] = x.handle][v]
        BY DEF Handles
    <2>3. y.handle \in Snapshots(h) \cup {<<>>} /\ y.handle \in Snapshots(g) \cup {<<>>}
        BY <1>1, <2>2 DEF HTree, Snapped, Handles
    <2> HIDE DEF y
    <2>4. \A i \in 1..(Len(y.handle) \div PageSize) :
             Upto(y.handle, i * PageSize) \in Keys(h.tree) /\ Upto(y.handle, i * PageSize) \in Keys(g.tree)
        BY <1>1, <2>1, <2>3, RowIs
    <2>5. Shared(g, y)
        BY <2>1, <2>3, <2>4 DEF Shared
    <2>6. \A i \in OwnPositions(y) : kk[y.row[i]] = k[y.row[i]]
        BY DEF OwnPages, y
    <2>7. y.phase \notin {"new", "admitted"} => ss[y.live] = st[y.live]
        BY DEF OwnSlots, y
    <2>8. y.frozen # 0 => ss[FrozenSlot(y)] = st[FrozenSlot(y)]
        <3> SUFFICES ASSUME y.frozen # 0 PROVE ss[FrozenSlot(y)] = st[FrozenSlot(y)]
            OBVIOUS
        <3>1. y.phase # "new"
            <4>1. NewReq.frozen = 0
                BY DEF NewReq
            <4> QED BY <2>1, <4>1 DEF Lengths
        <3>2. FrozenSlot(y) \in {y.track[1], y.track[2]}
            BY SMTT(90), <2>1 DEF FrozenSlot, ReqType
        <3> QED BY <3>1, <3>2 DEF OwnSlots, y
    <2>9. Wrote(v, y, kk, ss)
        BY <2>1, <2>6, <2>7, <2>8 DEF Wrote
    <2> QED BY <2>1, <2>5, <2>9 DEF Fits, y
<1>5. \A v \in Req : Fits(v, r[v], g, kk, ss)
    BY <1>2, <1>4
<1> QED BY <1>2, <1>3, <1>5 DEF AllInv, r

-----------------------------------------------------------------------------
(***************************************************************************)
(* Moves.                                                                  *)
(***************************************************************************)
\* Where u donates its row for the tokens t: of its e pages those after the a
\* first are its own, and hold what t says.
RowGift(h, H, t, row, list, O, u, a, e, k) ==
    /\ HTree(h, H) /\ t \in WholeKeys(Token) /\ u \in Req /\ Pool(Page, list, h.tree.pages, O)
    /\ a \in Nat /\ e \in Nat /\ a * PageSize <= Len(Walk(h.tree, t)) /\ Len(t) <= e * PageSize
    /\ O[u] = Cut(row, a, e)
    /\ \A i, j \in (a + 1)..e : row[i] = row[j] => i = j
    /\ \A j \in Keys(h.tree) : k[h.tree.pages[j]] = <<NoImage, j>>
    /\ \A i \in (a + 1)..e : i * PageSize <= Len(t) =>
          k[row[i]] = <<NoImage, Upto(t, i * PageSize)>>

\* A donation: u's pages from position a + 1 on are those the tree already had,
\* which are freed, those it takes, and the rest.
LEMMA DonatePages ==
    ASSUME NEW h, NEW H, NEW t, NEW row, NEW list, NEW O, NEW u, NEW a, NEW e, NEW k,
           RowGift(h, H, t, row, list, O, u, a, e, k), NEW slot
    PROVE  LET g == Donate(h, t, row, slot)
               b == Len(Walk(h.tree, t)) \div PageSize
               d == Len(t) \div PageSize
               dup == Cut(row, a, b)
           IN  /\ b \in Nat /\ d \in Nat /\ a <= b /\ b <= d /\ d <= e
               /\ b * PageSize = Len(Walk(h.tree, t)) /\ d * PageSize = Len(t)
               /\ dup \subseteq O[u]
               /\ Pool(Page, Put(list, dup), g.tree.pages, Owning(O, u, Cut(row, d, e)))
               /\ \A j \in Keys(g.tree) : k[g.tree.pages[j]] = <<NoImage, j>>
<1> /\ HTree(h, H) /\ t \in WholeKeys(Token) /\ u \in Req /\ Pool(Page, list, h.tree.pages, O)
    /\ a \in Nat /\ e \in Nat /\ a * PageSize <= Len(Walk(h.tree, t)) /\ Len(t) <= e * PageSize
    /\ O[u] = {row[i] : i \in (a + 1)..e}
    /\ \A i, j \in (a + 1)..e : row[i] = row[j] => i = j
    /\ \A j \in Keys(h.tree) : k[h.tree.pages[j]] = <<NoImage, j>>
    /\ \A i \in (a + 1)..e : i * PageSize <= Len(t) =>
          k[row[i]] = <<NoImage, Upto(t, i * PageSize)>>
    BY DEF RowGift, Cut
<1> DEFINE g == Donate(h, t, row, slot)  hit == Walk(h.tree, t)
           b == Len(hit) \div PageSize  d == Len(t) \div PageSize
           new == Span(Token, hit, t)
           M == {row[i] : i \in (b + 1)..d}  dup == Cut(row, a, b)  rest == Cut(row, d, e)
<1>0. dup = {row[i] : i \in (a + 1)..b} /\ rest = {row[i] : i \in (d + 1)..e}
    BY DEF Cut
<1> HIDE DEF dup, rest
<1>1. t \in Seq(Token) /\ Len(t) \in Nat /\ Len(t) % PageSize = 0
    BY WholeKeyIs
<1>2. /\ hit \in Seq(Token) /\ Len(hit) \in Nat /\ Len(hit) % PageSize = 0 /\ Len(hit) <= Len(t)
    <2>1. Tree(h.tree, Token)
        BY DEF HTree
    <2> QED BY <1>1, <2>1, WalkIs
<1>3. /\ Keys(g.tree) = Keys(h.tree) \cup new /\ Keys(h.tree) \cap new = {}
      /\ \A j \in Keys(h.tree) : g.tree.pages[j] = h.tree.pages[j]
      /\ \A j \in new : g.tree.pages[j] = row[Len(j) \div PageSize]
    <2> DEFINE sp == Span(Token, Walk(h.tree, t), t)
    <2>1. new = sp
        OBVIOUS
    <2> HIDE DEF g, hit, new, sp
    <2>2. Keys(g.tree) = Keys(h.tree) \cup sp
        BY ONLY HTree(h, H), t \in WholeKeys(Token), DonateIs DEF g, sp
    <2>5. Keys(h.tree) \cap sp = {}
        BY ONLY HTree(h, H), t \in WholeKeys(Token), DonateIs DEF sp
    <2>3. \A j \in Keys(h.tree) : g.tree.pages[j] = h.tree.pages[j]
        BY ONLY HTree(h, H), t \in WholeKeys(Token), DonateIs DEF g, sp
    <2>4. \A j \in sp : g.tree.pages[j] = row[Len(j) \div PageSize]
        BY ONLY HTree(h, H), t \in WholeKeys(Token), DonateIs DEF g, sp
    <2> QED BY <2>1, <2>2, <2>3, <2>4, <2>5
<1> HIDE DEF g, hit
<1>4. b \in Nat /\ d \in Nat /\ b * PageSize = Len(hit) /\ d * PageSize = Len(t)
    BY <1>1, <1>2, WholeIs
<1> HIDE DEF b, d
<1>5. a <= b /\ b <= d /\ d <= e
    <2>1. a * PageSize <= b * PageSize /\ b * PageSize <= d * PageSize /\ d * PageSize <= e * PageSize
        BY <1>2, <1>4 DEF hit
    <2> QED BY <1>4, <2>1, TimesIs
<1>6. ASSUME NEW j \in new
      PROVE  /\ Len(j) \div PageSize \in (b + 1)..d
             /\ (Len(j) \div PageSize) * PageSize = Len(j) /\ j = Upto(t, Len(j))
    <2>1. j \in WholeKeys(Token) /\ IsPrefix(j, t) /\ Len(hit) < Len(j)
        BY DEF Span
    <2> DEFINE i == Len(j) \div PageSize
    <2>2. i \in 1..d /\ i * PageSize = Len(j) /\ j = Upto(t, Len(j))
        BY <1>1, <2>1, PageKeyIs DEF d
    <2> HIDE DEF i
    <2>3. i \in Nat /\ (b < i <=> b * PageSize < i * PageSize)
        BY <1>4, <2>2, TimesIs
    <2>4. i \in (b + 1)..d
        BY <1>4, <2>1, <2>2, <2>3
    <2> QED BY <2>2, <2>4 DEF i
<1>7. ASSUME NEW i \in (b + 1)..d
      PROVE  Upto(t, i * PageSize) \in new /\ Len(Upto(t, i * PageSize)) \div PageSize = i
    <2>1. i \in Nat /\ b < i /\ i \in 1..d
        BY <1>4
    <2>2. /\ Upto(t, i * PageSize) \in WholeKeys(Token) /\ IsPrefix(Upto(t, i * PageSize), t)
          /\ Len(Upto(t, i * PageSize)) = i * PageSize
          /\ Len(Upto(t, i * PageSize)) \div PageSize = i
        BY <1>1, <2>1, PageKeyIs DEF d
    <2>3. b * PageSize < i * PageSize
        BY <1>4, <2>1, TimesIs
    <2> QED BY <1>4, <2>2, <2>3 DEF Span
<1> HIDE DEF new
<1>8. /\ (a + 1)..b \subseteq (a + 1)..e /\ (b + 1)..d \subseteq (a + 1)..e
      /\ (d + 1)..e \subseteq (a + 1)..e
      /\ (a + 1)..e = ((a + 1)..b) \cup ((b + 1)..d) \cup ((d + 1)..e)
    BY <1>4, <1>5
<1>9. dup \subseteq O[u] /\ M \subseteq O[u] \ dup /\ (O[u] \ dup) \ M = rest
    <2>1. /\ \A i \in (a + 1)..b : i \notin (b + 1)..d /\ i \notin (d + 1)..e
          /\ \A i \in (b + 1)..d : i \notin (d + 1)..e
        BY <1>4, <1>5
    <2>2. dup \subseteq O[u] /\ M \subseteq O[u] /\ rest \subseteq O[u]
        BY <1>0, <1>8
    <2>3. dup \cap M = {} /\ dup \cap rest = {} /\ M \cap rest = {}
        <3>1. ASSUME NEW i \in (a + 1)..b, NEW j \in (b + 1)..d PROVE row[i] # row[j]
            BY <1>8, <2>1
        <3>2. ASSUME NEW i \in ((a + 1)..b) \cup ((b + 1)..d), NEW j \in (d + 1)..e
              PROVE  row[i] # row[j]
            BY <1>8, <2>1
        <3> QED BY ONLY Zenon, <1>0, <3>1, <3>2 DEF M
    <2>4. O[u] = dup \cup M \cup rest
        <3>1. O[u] = {row[i] : i \in ((a + 1)..b) \cup ((b + 1)..d) \cup ((d + 1)..e)}
            BY <1>8
        <3> QED BY ONLY <1>0, <3>1 DEF M
    <2> HIDE DEF M
    <2> QED BY <2>2, <2>3, <2>4
<1>10. Pool(Page, Put(list, dup), h.tree.pages, [O EXCEPT ![u] = @ \ dup])
    <2> QED BY <1>9, PoolFreed
<1>11. IsInjective(h.tree.pages) /\ O[u] \cap Range(h.tree.pages) = {} /\ u \in DOMAIN O
    BY DEF Pool
<1>12. Range(g.tree.pages) = Range(h.tree.pages) \cup M
    <2>1. ASSUME NEW j \in new PROVE g.tree.pages[j] \in M
        BY <1>3, <1>6
    <2>2. ASSUME NEW p \in M PROVE \E j \in new : g.tree.pages[j] = p
        <3>1. PICK i \in (b + 1)..d : p = row[i]
            OBVIOUS
        <3>2. g.tree.pages[Upto(t, i * PageSize)] = row[i]
            BY <1>3, <1>7
        <3> QED BY <1>7, <3>1, <3>2
    <2>3. Range(g.tree.pages) = {g.tree.pages[j] : j \in Keys(h.tree)} \cup {g.tree.pages[j] : j \in new}
        BY <1>3 DEF Range, Keys
    <2>4. Range(h.tree.pages) = {g.tree.pages[j] : j \in Keys(h.tree)}
        BY <1>3 DEF Range, Keys
    <2> HIDE DEF M
    <2> QED BY <2>1, <2>2, <2>3, <2>4
<1>13. IsInjective(g.tree.pages)
    <2>1. ASSUME NEW i \in Keys(h.tree), NEW j \in new PROVE g.tree.pages[i] # g.tree.pages[j]
        <3>1. g.tree.pages[i] \in Range(h.tree.pages)
            BY <1>3 DEF Range, Keys
        <3>2. g.tree.pages[j] \in M
            BY <1>3, <1>6
        <3> HIDE DEF M
        <3> QED BY <1>9, <1>11, <3>1, <3>2
    <2>2. ASSUME NEW i \in new, NEW j \in new, g.tree.pages[i] = g.tree.pages[j] PROVE i = j
        <3>1. Len(i) \div PageSize = Len(j) \div PageSize
            BY <1>3, <1>6, <1>8, <2>2
        <3>2. Len(i) = Len(j)
            BY <1>6, <3>1
        <3> QED BY <1>6, <3>2
    <2>3. \A i, j \in Keys(h.tree) : g.tree.pages[i] = g.tree.pages[j] => i = j
        BY <1>3, <1>11 DEF IsInjective, Keys
    <2>4. \A i, j \in Keys(g.tree) : g.tree.pages[i] = g.tree.pages[j] => i = j
        BY <1>3, <2>1, <2>2, <2>3
    <2> QED BY <2>4 DEF IsInjective, Keys
<1>14. Pool(Page, Put(list, dup), g.tree.pages, Owning(O, u, rest))
    <2> DEFINE O1 == [O EXCEPT ![u] = @ \ dup]
    <2>1. O1[u] = O[u] \ dup
        BY <1>11
    <2>2. [O1 EXCEPT ![u] = @ \ M] = [O EXCEPT ![u] = rest]
        <3> HIDE DEF M
        <3> QED BY <1>9, <1>11
    <2>3. M \in SUBSET O1[u]
        BY <1>9, <2>1
    <2> HIDE DEF O1, M
    <2>4. Pool(Page, Put(list, dup), g.tree.pages, [O1 EXCEPT ![u] = @ \ M])
        BY <1>10, <1>12, <1>13, <2>3, PoolGiven DEF O1
    <2> QED BY <2>2, <2>4 DEF Owning
<1>15. ASSUME NEW j \in Keys(g.tree) PROVE k[g.tree.pages[j]] = <<NoImage, j>>
    <2>1. CASE j \in Keys(h.tree)
        BY <1>3, <2>1
    <2>2. CASE j \in new
        <3> DEFINE i == Len(j) \div PageSize
        <3>1. i \in (b + 1)..d /\ i * PageSize = Len(j) /\ j = Upto(t, Len(j)) /\ g.tree.pages[j] = row[i]
            BY <1>3, <1>6, <2>2
        <3> HIDE DEF i
        <3>2. i \in (a + 1)..e /\ i \in Nat /\ i <= d
            BY ONLY <1>4, <1>5, <3>1, a \in Nat, e \in Nat
        <3>3. i * PageSize <= Len(t)
            BY <1>4, <3>2, TimesIs
        <3> QED BY <3>1, <3>2, <3>3
    <2> QED BY <1>3, <2>1, <2>2
<1> QED BY <1>4, <1>5, <1>9, <1>14, <1>15 DEF g, b, d, hit, dup, rest

\* The tree takes a slot that u gives it.
LEMMA DonateSlot ==
    ASSUME NEW h, NEW H, HTree(h, H), NEW t \in WholeKeys(Token), t \notin Snapshots(h),
           NEW row, NEW list, NEW O, Pool(Slot, list, h.snap, O), NEW u \in Req,
           NEW slot \in O[u]
    PROVE  Pool(Slot, list, Donate(h, t, row, slot).snap, [O EXCEPT ![u] = @ \ {slot}])
<1> DEFINE g == Donate(h, t, row, slot)
<1>1. /\ Snapshots(g) = Snapshots(h) \cup {t} /\ g.snap[t] = slot
      /\ \A e \in Snapshots(h) : g.snap[e] = h.snap[e]
    <2> HIDE DEF g
    <2> QED BY DonateIs DEF g
<1> HIDE DEF g
<1>2. IsInjective(h.snap) /\ slot \notin Range(h.snap)
    BY DEF Pool
<1>3. Range(g.snap) = Range(h.snap) \cup {slot}
    BY <1>1 DEF Range, Snapshots
<1>4. \A i, j \in Snapshots(g) : g.snap[i] = g.snap[j] => i = j
    BY <1>1, <1>2 DEF IsInjective, Range, Snapshots
<1>5. IsInjective(g.snap)
    BY <1>4 DEF IsInjective, Snapshots
<1>6. {slot} \in SUBSET O[u]
    OBVIOUS
<1> QED BY <1>3, <1>5, <1>6, PoolGiven DEF g

\* An eviction gives pages and slots back.
LEMMA EvictPools ==
    ASSUME NEW h, NEW H, HTree(h, H), NEW S \in SUBSET Idle(h),
           NEW fp, NEW P, Pool(Page, fp, h.tree.pages, P),
           NEW fs, NEW Q, Pool(Slot, fs, h.snap, Q),
           NEW k, NEW st, TreeWrote(h, k, st)
    PROVE  LET g == WithoutSnapshots(h, S)
           IN  /\ Pool(Page, Put(fp, FreedPages(h, S)), g.tree.pages, P)
               /\ Pool(Slot, Put(fs, FreedSlots(h, S)), g.snap, Q)
               /\ FreedPages(h, S) \subseteq Page /\ FreedSlots(h, S) \subseteq Slot
               /\ TreeWrote(g, k, st)
<1> DEFINE g == WithoutSnapshots(h, S)  D == FreedKeys(h, S)
<1>1. /\ D \subseteq Keys(h.tree) /\ Keys(g.tree) = Keys(h.tree) \ D
      /\ \A j \in Keys(g.tree) : g.tree.pages[j] = h.tree.pages[j]
      /\ Snapshots(g) = Snapshots(h) \ S /\ \A e \in Snapshots(g) : g.snap[e] = h.snap[e]
      /\ FreedPages(h, S) = {h.tree.pages[j] : j \in D}
      /\ FreedSlots(h, S) = {h.snap[e] : e \in S}
    <2> HIDE DEF g, D
    <2> QED BY WithoutIs DEF g, D
<1>2. S \subseteq Snapshots(h)
    BY DEF Idle
<1> HIDE DEF g, D
<1>3. Pool(Page, Put(fp, FreedPages(h, S)), g.tree.pages, P)
    <2>1. DOMAIN g.tree.pages = DOMAIN h.tree.pages \ D /\ D \in SUBSET DOMAIN h.tree.pages
          /\ \A j \in DOMAIN g.tree.pages : g.tree.pages[j] = h.tree.pages[j]
        BY <1>1 DEF Keys
    <2>2. Pool(Page, Put(fp, FreedPages(h, S)), g.tree.pages, P)
        <3> DEFINE f == h.tree.pages  ff == g.tree.pages  F == FreedPages(h, S)
        <3>1. /\ Pool(Page, fp, f, P) /\ D \in SUBSET DOMAIN f /\ DOMAIN ff = DOMAIN f \ D
              /\ \A j \in DOMAIN ff : ff[j] = f[j]
            BY <2>1
        <3>2. F = {f[j] : j \in D}
            BY <1>1
        <3> HIDE DEF f, ff, F
        <3>3. Pool(Page, Put(fp, F), ff, P)
            BY ONLY <3>1, <3>2, PoolEvicted
        <3> QED BY <3>3 DEF F, ff
    <2> QED BY <2>2
<1>4. Pool(Slot, Put(fs, FreedSlots(h, S)), g.snap, Q)
    <2>1. DOMAIN g.snap = DOMAIN h.snap \ S /\ S \in SUBSET DOMAIN h.snap
          /\ \A e \in DOMAIN g.snap : g.snap[e] = h.snap[e]
        BY <1>1, <1>2 DEF Snapshots
    <2>2. Pool(Slot, Put(fs, FreedSlots(h, S)), g.snap, Q)
        <3> DEFINE f == h.snap  ff == g.snap  F == FreedSlots(h, S)
        <3>1. /\ Pool(Slot, fs, f, Q) /\ S \in SUBSET DOMAIN f /\ DOMAIN ff = DOMAIN f \ S
              /\ \A e \in DOMAIN ff : ff[e] = f[e]
            BY <2>1
        <3>2. F = {f[e] : e \in S}
            BY <1>1
        <3> HIDE DEF f, ff, F
        <3>3. Pool(Slot, Put(fs, F), ff, Q)
            BY ONLY <3>1, <3>2, PoolEvicted
        <3> QED BY <3>3 DEF F, ff
    <2> QED BY <2>2
<1>5. FreedPages(h, S) \subseteq Page /\ FreedSlots(h, S) \subseteq Slot
    BY <1>1, <1>2 DEF Pool, Range, Keys, Snapshots
<1>6. TreeWrote(g, k, st)
    BY <1>1, <1>2 DEF TreeWrote
<1> QED BY <1>3, <1>4, <1>5, <1>6 DEF g

\* b is a where the tree or a request holds an element.
Same(X, f, O, a, b) ==
    /\ DOMAIN b = X /\ \A i \in DOMAIN f : b[f[i]] = a[f[i]]
    /\ \A v \in Req : \A x \in O[v] : b[x] = a[x]

\* What is erased is on the free list: neither the tree's nor any request's.
LEMMA ErasedIs ==
    ASSUME NEW X, IsFiniteSet(X), NEW list, NEW f, NEW O, Pool(X, list, f, O),
           NEW F \in SUBSET There(list), NEW content, DOMAIN content = X
    PROVE  Same(X, f, O, content, Erase(content, F))
<1>1. /\ \A x \in F : x \notin Range(f) /\ \A v \in Req : x \notin O[v]
    BY PoolList
<1>2. \A i \in DOMAIN f : f[i] \in Range(f) /\ f[i] \in X
    BY DEF Pool, Range
<1>3. \A v \in Req : O[v] \subseteq X
    BY DEF Pool
<1> QED BY <1>1, <1>2, <1>3 DEF Erase, Same

\* The part s of t that a row shares with the tree, in pages.
LEMMA SharedPart ==
    ASSUME NEW h, NEW H, HTree(h, H), NEW t \in WholeKeys(Token), NEW row,
           NEW s \in Keys(h.tree) \cup {<<>>}, IsPrefix(s, t)
    PROVE  LET hit == Walk(h.tree, t)
               a == Len(s) \div PageSize
           IN  /\ a \in Nat /\ a * PageSize = Len(s) /\ Len(s) <= Len(hit) /\ Len(hit) <= Len(t)
               /\ RowPages(row, Len(s), Len(hit)) = Cut(row, a, Len(hit) \div PageSize)
<1> DEFINE hit == Walk(h.tree, t)  a == Len(s) \div PageSize
<1>1. Tree(h.tree, Token) /\ t \in Seq(Token)
    BY WholeKeyIs DEF HTree
<1>2. /\ hit \in Seq(Token) /\ Len(hit) \in Nat /\ Len(hit) % PageSize = 0 /\ Len(hit) <= Len(t)
      /\ \A j \in Keys(h.tree) : IsPrefix(j, t) => IsPrefix(j, hit)
    BY <1>1, WalkIs
<1> HIDE DEF hit
<1>3. s \in Seq(Token) /\ Len(s) \in Nat /\ Len(s) % PageSize = 0 /\ Len(s) <= Len(hit)
    <2>1. CASE s = <<>>
        BY <1>2, <2>1, EmptyPrefix, PageSizeAssumption
    <2>2. CASE s \in Keys(h.tree)
        <3>1. s \in WholeKeys(Token)
            BY <1>1, <2>2 DEF Tree
        <3>2. s \in Seq(Token) /\ Len(s) \in Nat /\ Len(s) % PageSize = 0
            BY <3>1, WholeKeyIs
        <3>3. IsPrefix(s, hit)
            BY <1>2, <2>2
        <3> QED BY <1>2, <3>2, <3>3, PrefixOrder
    <2> QED BY <2>1, <2>2
<1>4. a \in Nat /\ a * PageSize = Len(s)
    BY <1>3, WholeIs
<1>5. Len(hit) \div PageSize = Pages(Len(hit))
    BY <1>2, WholeIs
<1>6. RowPages(row, Len(s), Len(hit)) = Cut(row, a, Len(hit) \div PageSize)
    BY <1>5 DEF RowPages, Cut
<1> QED BY <1>2, <1>3, <1>4, <1>6 DEF hit

\* Where u donates, with it, the slot that holds the state after t.
SlotGift(h, t, slot, list, O, u, st) ==
    /\ Pool(Slot, list, h.snap, O) /\ slot \in O[u] /\ st[slot] = <<NoImage, t>>
    /\ \A e \in Snapshots(h) : st[h.snap[e]] = <<NoImage, e>>

\* The tree g has all that h had, where h had it.
Extends(g, h) ==
    /\ Keys(h.tree) \subseteq Keys(g.tree) /\ Snapshots(h) \subseteq Snapshots(g)
    /\ \A j \in Keys(h.tree) : g.tree.pages[j] = h.tree.pages[j]
    /\ \A j \in Snapshots(h) : g.snap[j] = h.snap[j]

LEMMA GiveIs ==
    ASSUME NEW h, NEW H, NEW t, NEW row, NEW fp, NEW P, NEW u, NEW a, NEW e, NEW k,
           RowGift(h, H, t, row, fp, P, u, a, e, k),
           NEW slot, NEW fs, NEW Q, NEW st, SlotGift(h, t, slot, fs, Q, u, st)
    PROVE  LET g == Donate(h, t, row, slot)
           IN  /\ HTree(g, H) /\ TreeWrote(g, k, st) /\ Extends(g, h)
               /\ HasSnapshot(h, t) => Pool(Slot, fs, g.snap, Owning(Q, u, Q[u]))
               /\ ~HasSnapshot(h, t) => Pool(Slot, fs, g.snap, Owning(Q, u, Q[u] \ {slot}))
               /\ t \in Snapshots(g) /\ t \in Keys(g.tree)
               /\ (HasSnapshot(h, t) <=> t \in Snapshots(h))
<1> DEFINE g == Donate(h, t, row, slot)
<1>0. HTree(h, H) /\ t \in WholeKeys(Token) /\ u \in Req /\ Pool(Page, fp, h.tree.pages, P)
    BY DEF RowGift
<1>a. g = Donate(h, t, row, slot)
    OBVIOUS
<1> HIDE DEF g
<1>7. /\ HTree(g, H) /\ Keys(h.tree) \subseteq Keys(g.tree)
      /\ (HasSnapshot(h, t) <=> t \in Snapshots(h))
      /\ t \in Snapshots(g) /\ t \in Keys(g.tree)
    BY ONLY <1>0, <1>a, DonateIs
<1>8. \A j \in Keys(h.tree) : g.tree.pages[j] = h.tree.pages[j]
    BY ONLY <1>0, <1>a, DonateIs
<1>9. t \in Snapshots(h) => g.snap = h.snap
    BY ONLY <1>0, <1>a, DonateIs
<1>10. t \notin Snapshots(h) =>
          /\ Snapshots(g) = Snapshots(h) \cup {t} /\ g.snap[t] = slot
          /\ \A j \in Snapshots(h) : g.snap[j] = h.snap[j]
    BY ONLY <1>0, <1>a, DonateIs
<1>11. /\ Snapshots(h) \subseteq Snapshots(g)
       /\ \A j \in Snapshots(h) : g.snap[j] = h.snap[j]
    BY <1>9, <1>10 DEF Snapshots
<1>12. \A j \in Keys(g.tree) : k[g.tree.pages[j]] = <<NoImage, j>>
    <2>1. \A j \in Keys(Donate(h, t, row, slot).tree) :
             k[Donate(h, t, row, slot).tree.pages[j]] = <<NoImage, j>>
        BY ONLY RowGift(h, H, t, row, fp, P, u, a, e, k), DonatePages
    <2> QED BY <1>a, <2>1
<1>13. Pool(Slot, fs, h.snap, Q) /\ slot \in Q[u] /\ st[slot] = <<NoImage, t>>
       /\ \A j \in Snapshots(h) : st[h.snap[j]] = <<NoImage, j>>
    BY DEF SlotGift
<1>14. /\ HasSnapshot(h, t) => Pool(Slot, fs, g.snap, Owning(Q, u, Q[u]))
       /\ ~HasSnapshot(h, t) => Pool(Slot, fs, g.snap, Owning(Q, u, Q[u] \ {slot}))
    <2>1. CASE t \in Snapshots(h)
        <3>1. Owning(Q, u, Q[u]) = [Q EXCEPT ![u] = Q[u]]
            BY DEF Owning
        <3>2. Pool(Slot, fs, h.snap, [Q EXCEPT ![u] = Q[u]])
            BY <1>13 DEF Pool
        <3> QED BY <1>7, <1>9, <2>1, <3>1, <3>2
    <2>2. CASE t \notin Snapshots(h)
        <3>1. Pool(Slot, fs, g.snap, [Q EXCEPT ![u] = @ \ {slot}])
            BY <1>0, <1>13, <1>a, <2>2, DonateSlot
        <3>2. Owning(Q, u, Q[u] \ {slot}) = [Q EXCEPT ![u] = @ \ {slot}]
            BY DEF Owning
        <3> QED BY <1>7, <2>2, <3>1, <3>2
    <2> QED BY <2>1, <2>2
<1>15. \A j \in Snapshots(g) : st[g.snap[j]] = <<NoImage, j>>
    <2>1. CASE t \in Snapshots(h)
        BY <1>9, <1>13, <2>1 DEF Snapshots
    <2>2. CASE t \notin Snapshots(h)
        BY <1>10, <1>13, <2>2
    <2> QED BY <2>1, <2>2
<1>16. TreeWrote(g, k, st)
    BY <1>12, <1>15 DEF TreeWrote
<1>17. Extends(g, h)
    BY <1>7, <1>8, <1>11 DEF Extends
<1> QED BY <1>7, <1>14, <1>16, <1>17 DEF g

-----------------------------------------------------------------------------
(***************************************************************************)
(* In the middle of a step of u: the tree g has the part s of its row, and *)
(* the slots of S are still its own.                                       *)
(***************************************************************************)
Mid(g, H, fp, fs, u, q, s, S, k, st) ==
    /\ HTree(g, H) /\ TreeWrote(g, k, st)
    /\ s \in Keys(g.tree) \cup {<<>>} /\ Len(q[u].handle) <= Len(s)
    /\ Pool(Page, fp, g.tree.pages,
            Owning(PagesOf(q), u, Cut(q[u].row, Len(s) \div PageSize, Len(q[u].row))))
    /\ Pool(Slot, fs, g.snap, Owning(SlotsOf(q), u, S))

\* What the invariant says of one request.
LEMMA FitsIs ==
    ASSUME NEW h, NEW fp, NEW fs, NEW k, NEW st, NEW q, AllInv(h, fp, fs, k, st, q),
           NEW u \in Req
    PROVE  LET r == q[u]
               a == Len(r.handle) \div PageSize
           IN  /\ HTree(h, Handles(q)) /\ Handles(q)[u] = r.handle /\ DOMAIN Handles(q) = Req
               /\ r \in ReqType /\ Lengths(r) /\ Apart(r) /\ Shared(h, r) /\ Wrote(u, r, k, st)
               /\ r.handle \in Snapshots(h) \cup {<<>>} /\ r.handle \in Keys(h.tree) \cup {<<>>}
               /\ OwnPages(r) = Cut(r.row, a, Len(r.row))
<1> DEFINE r == q[u]
<1>1. /\ HTree(h, Handles(q)) /\ Handles(q)[u] = r.handle /\ DOMAIN Handles(q) = Req
      /\ r \in ReqType /\ Lengths(r) /\ Apart(r) /\ Shared(h, r) /\ Wrote(u, r, k, st)
    BY DEF AllInv, Fits, Handles
<1>2. r.handle \in Snapshots(h) \cup {<<>>}
    BY <1>1 DEF HTree, Snapped
<1>3. r.handle \in Keys(h.tree) \cup {<<>>}
    BY <1>1, <1>2, SnapshotsIs
<1> HIDE DEF r
<1>4. OwnPositions(r) = (Len(r.handle) \div PageSize + 1)..Len(r.row)
    BY DEF OwnPositions
<1>5. OwnPages(r) = Cut(r.row, Len(r.handle) \div PageSize, Len(r.row))
    BY <1>4 DEF OwnPages, Cut
<1> QED BY <1>1, <1>2, <1>3, <1>5 DEF r

LEMMA MidStart ==
    ASSUME NEW h, NEW fp, NEW fs, NEW k, NEW st, NEW q, AllInv(h, fp, fs, k, st, q),
           NEW u \in Req
    PROVE  Mid(h, Handles(q), fp, fs, u, q, q[u].handle, OwnSlots(q[u]), k, st)
<1>1. /\ q[u].handle \in Keys(h.tree) \cup {<<>>} /\ q[u].handle \in Seq(Token)
      /\ OwnPages(q[u]) = Cut(q[u].row, Len(q[u].handle) \div PageSize, Len(q[u].row))
    BY FitsIs DEF ReqType
<1>2. /\ PagesOf(q) = Owning(PagesOf(q), u, OwnPages(q[u]))
      /\ SlotsOf(q) = Owning(SlotsOf(q), u, OwnSlots(q[u]))
    BY DEF PagesOf, SlotsOf, Owning
<1>3. /\ HTree(h, Handles(q)) /\ TreeWrote(h, k, st)
      /\ Pool(Page, fp, h.tree.pages, PagesOf(q)) /\ Pool(Slot, fs, h.snap, SlotsOf(q))
    BY DEF AllInv
<1>4. Len(q[u].handle) <= Len(q[u].handle)
    BY <1>1
<1>5. Pool(Page, fp, h.tree.pages,
           Owning(PagesOf(q), u, Cut(q[u].row, Len(q[u].handle) \div PageSize, Len(q[u].row))))
    BY <1>1, <1>2, <1>3
<1>6. Pool(Slot, fs, h.snap, Owning(SlotsOf(q), u, OwnSlots(q[u])))
    BY <1>2, <1>3
<1> QED BY <1>1, <1>3, <1>4, <1>5, <1>6 DEF Mid

\* u donates its first n tokens, whose state is in slot.
Donates(h, g, H, fp, fs, u, q, s, S, k, st, n, slot) ==
    /\ Mid(g, H, fp, fs, u, q, s, S, k, st)
    /\ HTree(h, Handles(q)) /\ q[u].handle \in Snapshots(h) \cup {<<>>}
    /\ u \in Req /\ Fits(u, q[u], h, k, st) /\ ~q[u].image
    /\ n \in Nat \ {0} /\ n <= q[u].cached /\ n % PageSize = 0
    /\ IsPrefix(s, Upto(q[u].text, n))
    /\ slot \in S /\ st[slot] = <<NoImage, Upto(q[u].text, n)>>

\* It has them all, and its row is long enough.
LEMMA TextIs ==
    ASSUME NEW r \in ReqType, Lengths(r), NEW n \in Nat, n <= r.cached
    PROVE  /\ n \in 0..Len(r.text) /\ Upto(r.text, n) \in Seq(Token) /\ Len(Upto(r.text, n)) = n
           /\ IsPrefix(Upto(r.text, n), r.text) /\ r.cached <= Len(r.text)
           /\ (n > 0 /\ n % PageSize = 0 => Upto(r.text, n) \in WholeKeys(Token))
           /\ \A m \in Nat : m <= n => /\ Upto(Upto(r.text, n), m) = Upto(r.text, m)
                                       /\ IsPrefix(Upto(r.text, m), Upto(r.text, n))
<1>1. r.text \in Seq(Token) /\ r.cached \in Nat /\ r.phase \in Phases
    BY DEF ReqType
<1>2. r.cached <= Len(r.text)
    <2>1. CASE r.phase = "new"
        BY <1>1, <2>1 DEF Lengths, NewReq
    <2>2. CASE r.phase # "new"
        BY <1>1, <2>2 DEF Lengths, Phases, InPrompt, Sampling
    <2> QED BY <2>1, <2>2
<1>3. n \in 0..Len(r.text)
    BY <1>1, <1>2
<1>4. Upto(r.text, n) \in Seq(Token) /\ Len(Upto(r.text, n)) = n /\ IsPrefix(Upto(r.text, n), r.text)
    BY <1>1, <1>3, UptoIs, UptoPrefix
<1>5. n > 0 /\ n % PageSize = 0 => Upto(r.text, n) \in WholeKeys(Token)
    <2>1. n > 0 => Upto(r.text, n) # <<>>
        BY <1>1, <1>4, EmptyPrefix
    <2> QED BY <1>4, <2>1 DEF WholeKeys
<1>6. ASSUME NEW m \in Nat, m <= n
      PROVE  Upto(Upto(r.text, n), m) = Upto(r.text, m) /\ IsPrefix(Upto(r.text, m), Upto(r.text, n))
    <2>1. m \in 0..Len(Upto(r.text, n))
        BY <1>4, <1>6
    <2>2. Upto(Upto(r.text, n), m) = Upto(r.text, m)
        BY <1>1, <1>4, <2>1, UptoOfPrefix
    <2>3. IsPrefix(Upto(Upto(r.text, n), m), Upto(r.text, n))
        BY <1>4, <2>1, UptoPrefix
    <2> QED BY <2>2, <2>3
<1> QED BY <1>2, <1>3, <1>4, <1>5, <1>6

LEMMA MidGift ==
    ASSUME NEW h, NEW g, NEW H, NEW fp, NEW fs, NEW u, NEW q, NEW s, NEW S, NEW k, NEW st, NEW n,
           NEW slot, Donates(h, g, H, fp, fs, u, q, s, S, k, st, n, slot)
    PROVE  LET t == Upto(q[u].text, n)
               a == Len(s) \div PageSize
               e == Len(q[u].row)
           IN  /\ RowGift(g, H, t, q[u].row, fp, Owning(PagesOf(q), u, Cut(q[u].row, a, e)), u, a, e, k)
               /\ SlotGift(g, t, slot, fs, Owning(SlotsOf(q), u, S), u, st)
               /\ t \in WholeKeys(Token) /\ Len(t) = n
<1> DEFINE r == q[u]  t == Upto(r.text, n)  a == Len(s) \div PageSize  e == Len(r.row)
           O == Owning(PagesOf(q), u, Cut(r.row, a, e))
<1>1. /\ HTree(g, H) /\ TreeWrote(g, k, st)
      /\ s \in Keys(g.tree) \cup {<<>>} /\ Len(r.handle) <= Len(s)
      /\ Pool(Page, fp, g.tree.pages, O)
      /\ Pool(Slot, fs, g.snap, Owning(SlotsOf(q), u, S))
    BY DEF Donates, Mid
<1>2. /\ HTree(h, Handles(q)) /\ r.handle \in Snapshots(h) \cup {<<>>}
      /\ u \in Req /\ r \in ReqType /\ Lengths(r) /\ Apart(r) /\ Wrote(u, r, k, st) /\ ~r.image
      /\ n \in Nat \ {0} /\ n <= r.cached /\ n % PageSize = 0 /\ IsPrefix(s, t)
      /\ slot \in S /\ st[slot] = <<NoImage, t>>
    BY DEF Donates, Fits
<1> HIDE DEF r
<1>3. t \in WholeKeys(Token) /\ Len(t) = n /\ t \in Seq(Token)
    BY <1>2, TextIs
<1>4. \A m \in Nat : m <= n => Upto(t, m) = Upto(r.text, m)
    BY <1>2, TextIs
<1> HIDE DEF t
<1>5. a \in Nat /\ a * PageSize = Len(s) /\ a * PageSize <= Len(Walk(g.tree, t))
    BY ZenonT(90), <1>1, <1>2, <1>3, SharedPart
<1>6. /\ Len(r.handle) \div PageSize \in Nat /\ (Len(r.handle) \div PageSize) * PageSize = Len(r.handle)
      /\ OwnPositions(r) = (Len(r.handle) \div PageSize + 1)..e /\ e \in Nat /\ r.cached <= e * PageSize
    BY <1>2, RowIs
<1> HIDE DEF a, e
<1>7. (a + 1)..e \subseteq OwnPositions(r)
    <2> DEFINE b == Len(r.handle) \div PageSize
    <2>1. b \in Nat /\ b * PageSize <= a * PageSize /\ OwnPositions(r) = (b + 1)..e
        BY <1>1, <1>5, <1>6
    <2> HIDE DEF b
    <2>2. b <= a
        BY <1>5, <2>1, TimesIs
    <2> QED BY <1>5, <1>6, <2>1, <2>2
<1>8. \A i, j \in (a + 1)..e : r.row[i] = r.row[j] => i = j
    BY <1>2, <1>7 DEF Apart
<1>9. ASSUME NEW i \in (a + 1)..e, i * PageSize <= Len(t)
      PROVE  k[r.row[i]] = <<NoImage, Upto(t, i * PageSize)>>
    <2>1. i \in Nat /\ i * PageSize \in Nat /\ r.cached \in Nat
        <3>1. i \in Nat
            BY <1>5
        <3> QED BY <1>2, <3>1, TimesIs DEF ReqType
    <2>2. i * PageSize <= n /\ i * PageSize <= r.cached
        BY <1>2, <1>3, <1>9, <2>1
    <2>3. Least(i * PageSize, r.cached) = i * PageSize /\ Owner(u, r) = NoImage
        BY <1>2, <2>2 DEF Least, Owner
    <2>4. k[r.row[i]] = <<Owner(u, r), Upto(r.text, Least(i * PageSize, r.cached))>>
        BY <1>2, <1>7 DEF Wrote
    <2> QED BY <1>4, <2>1, <2>2, <2>3, <2>4
<1>10. Len(t) <= e * PageSize
    <2>1. e * PageSize \in Nat /\ r.cached \in Nat
        BY <1>2, <1>6, TimesIs DEF ReqType
    <2>2. n <= r.cached /\ r.cached <= e * PageSize /\ n \in Nat /\ Len(t) = n
        BY <1>2, <1>3, <1>6
    <2> HIDE DEF e
    <2> QED BY ONLY <2>1, <2>2
<1>11. O[u] = Cut(r.row, a, e)
    BY <1>2 DEF Owning, PagesOf
<1> HIDE DEF O
<1>12. RowGift(g, H, t, r.row, fp, O, u, a, e, k)
    BY <1>1, <1>2, <1>3, <1>5, <1>6, <1>8, <1>9, <1>10, <1>11 DEF RowGift, TreeWrote
<1>13. SlotGift(g, t, slot, fs, Owning(SlotsOf(q), u, S), u, st)
    <2>1. Owning(SlotsOf(q), u, S)[u] = S
        BY <1>2 DEF Owning, SlotsOf
    <2> QED BY <1>1, <1>2, <2>1 DEF SlotGift, TreeWrote
<1> QED BY <1>3, <1>12, <1>13 DEF O, a, e, t, r

\* A stage of u's step: it donates its first n tokens.  The pages that the tree
\* had already go back to the list.
LEMMA StageIs ==
    ASSUME NEW h, NEW g, NEW H, NEW fp, NEW fs, NEW u, NEW q, NEW s, NEW S, NEW k, NEW st, NEW n,
           NEW slot, Donates(h, g, H, fp, fs, u, q, s, S, k, st, n, slot)
    PROVE  LET t == Upto(q[u].text, n)
               c == Donate(g, t, q[u].row, slot)
               dups == RowPages(q[u].row, Len(s), Len(Walk(g.tree, t)))
           IN  /\ HasSnapshot(g, t) => Mid(c, H, Put(fp, dups), fs, u, q, t, S, k, st)
               /\ ~HasSnapshot(g, t) => Mid(c, H, Put(fp, dups), fs, u, q, t, S \ {slot}, k, st)
               /\ dups \subseteq Page /\ dups \subseteq There(Put(fp, dups))
               /\ There(fp) \subseteq There(Put(fp, dups))
               /\ Extends(c, g) /\ t \in Snapshots(c) /\ Len(t) = n
               /\ (HasSnapshot(g, t) <=> t \in Snapshots(g))
<1> DEFINE r == q[u]  t == Upto(r.text, n)  a == Len(s) \div PageSize  e == Len(r.row)
           c == Donate(g, t, r.row, slot)  hit == Walk(g.tree, t)  b == Len(hit) \div PageSize
           dups == RowPages(r.row, Len(s), Len(hit))
           O == Owning(PagesOf(q), u, Cut(r.row, a, e))
           Q == Owning(SlotsOf(q), u, S)
<1>1. /\ RowGift(g, H, t, r.row, fp, O, u, a, e, k) /\ SlotGift(g, t, slot, fs, Q, u, st)
      /\ t \in WholeKeys(Token) /\ Len(t) = n
    BY MidGift
<1>2. /\ HTree(g, H) /\ s \in Keys(g.tree) \cup {<<>>} /\ Len(r.handle) <= Len(s)
      /\ u \in Req /\ IsPrefix(s, t) /\ r \in ReqType /\ n \in Nat
    BY DEF Donates, Mid, Fits
<1>3. /\ a \in Nat /\ a * PageSize = Len(s) /\ Len(s) <= Len(hit) /\ Len(hit) <= Len(t)
      /\ dups = Cut(r.row, a, b)
    BY <1>1, <1>2, SharedPart
<1>4. O[u] = Cut(r.row, a, e) /\ Q[u] = S
    BY <1>2 DEF Owning, PagesOf, SlotsOf
<1>5. /\ PagesOf(q) = [v \in Req |-> OwnPages(q[v])] /\ SlotsOf(q) = [v \in Req |-> OwnSlots(q[v])]
    BY DEF PagesOf, SlotsOf
<1>6. \A X : Owning(O, u, X) = Owning(PagesOf(q), u, X) /\ Owning(Q, u, X) = Owning(SlotsOf(q), u, X)
    BY DEF Owning
<1> HIDE DEF O, Q, r, t, a, e
<1>7. HTree(c, H) /\ TreeWrote(c, k, st)
    BY ONLY <1>1, GiveIs
<1>8. /\ HasSnapshot(g, t) => Pool(Slot, fs, c.snap, Owning(Q, u, Q[u]))
      /\ ~HasSnapshot(g, t) => Pool(Slot, fs, c.snap, Owning(Q, u, Q[u] \ {slot}))
    <2>1. HasSnapshot(g, t) => Pool(Slot, fs, Donate(g, t, r.row, slot).snap, Owning(Q, u, Q[u]))
        BY ONLY <1>1, GiveIs
    <2>2. ~HasSnapshot(g, t)
              => Pool(Slot, fs, Donate(g, t, r.row, slot).snap, Owning(Q, u, Q[u] \ {slot}))
        BY ONLY <1>1, GiveIs
    <2> QED BY <2>1, <2>2 DEF c
<1>9. /\ Extends(c, g) /\ t \in Snapshots(c) /\ t \in Keys(c.tree)
      /\ (HasSnapshot(g, t) <=> t \in Snapshots(g))
    <2>1. Extends(c, g)
        BY ONLY <1>1, GiveIs
    <2>2. t \in Snapshots(c) /\ t \in Keys(c.tree)
        BY ONLY <1>1, GiveIs
    <2>3. HasSnapshot(g, t) <=> t \in Snapshots(g)
        BY ONLY ZenonT(30), <1>1, GiveIs
    <2> QED BY <2>1, <2>2, <2>3
<1>11. Cut(r.row, a, b) \subseteq O[u]
    BY ONLY <1>1, DonatePages DEF b, hit
<1>12. Pool(Page, Put(fp, Cut(r.row, a, b)), c.tree.pages,
            Owning(O, u, Cut(r.row, Len(t) \div PageSize, e)))
    BY ONLY <1>1, DonatePages DEF b, hit, c
<1> HIDE DEF hit, b, c, dups
<1>13. /\ HasSnapshot(g, t) => Pool(Slot, fs, c.snap, Owning(SlotsOf(q), u, S))
       /\ ~HasSnapshot(g, t) => Pool(Slot, fs, c.snap, Owning(SlotsOf(q), u, S \ {slot}))
    BY <1>4, <1>6, <1>8
<1>14. Pool(Page, Put(fp, dups), c.tree.pages,
            Owning(PagesOf(q), u, Cut(r.row, Len(t) \div PageSize, e)))
    BY <1>3, <1>6, <1>12
<1>15. Len(r.handle) <= Len(t)
    <2>1. Len(r.handle) \in Nat /\ Len(s) \in Nat /\ Len(hit) \in Nat /\ Len(t) \in Nat
        <3>1. r.handle \in Seq(Token) /\ t \in Seq(Token)
            BY <1>1, <1>2, WholeKeyIs DEF ReqType
        <3>2. Tree(g.tree, Token)
            BY <1>2 DEF HTree
        <3>3. Len(hit) \in Nat
            BY <3>1, <3>2, WalkIs DEF hit
        <3>4. Len(s) \in Nat
            BY <1>3, TimesIs
        <3> QED BY <3>1, <3>3, <3>4
    <2> QED BY <1>2, <1>3, <2>1
<1>16. /\ HasSnapshot(g, t) => Mid(c, H, Put(fp, dups), fs, u, q, t, S, k, st)
       /\ ~HasSnapshot(g, t) => Mid(c, H, Put(fp, dups), fs, u, q, t, S \ {slot}, k, st)
    <2> QED BY <1>7, <1>9, <1>13, <1>14, <1>15 DEF Mid, r, e
<1>17. dups \subseteq Page /\ dups \subseteq There(Put(fp, dups)) /\ There(fp) \subseteq There(Put(fp, dups))
    <2>1. Pool(Page, fp, g.tree.pages, O)
        BY <1>1 DEF RowGift
    <2>2. dups \subseteq Page
        BY <1>2, <1>3, <1>11, <2>1 DEF Pool
    <2> QED BY <2>1, <2>2, PutThere
<1> QED BY <1>1, <1>9, <1>16, <1>17 DEF c, dups, hit, t, r

\* Who is not running holds nothing.
LEMMA NewReqIs ==
    /\ NewReq \in ReqType /\ Lengths(NewReq) /\ Apart(NewReq) /\ OwnPages(NewReq) = {}
    /\ OwnSlots(NewReq) = {} /\ NewReq.handle = <<>>
    /\ \A u, h, k, st : Fits(u, NewReq, h, k, st)
<1>1. /\ NewReq.phase = "new" /\ NewReq.text = <<>> /\ NewReq.prompt = 0 /\ NewReq.output = 0
      /\ NewReq.image = FALSE /\ NewReq.cached = 0 /\ NewReq.host = 0 /\ NewReq.handle = <<>>
      /\ NewReq.row = <<>> /\ NewReq.live = 0 /\ NewReq.track = <<0, 0>> /\ NewReq.next = 1
      /\ NewReq.frozen = 0 /\ NewReq.anchor = 0 /\ NewReq.restore = 0
    BY DEF NewReq
<1>2. NewReq \in ReqType
    <2>1. <<0, 0>> \in [1..2 -> Nat]
        OBVIOUS
    <2>2. \A T : <<>> \in Seq(T)
        OBVIOUS
    <2> QED BY <2>1, <2>2 DEF NewReq, ReqType, Phases
<1>3. 0 \div PageSize = 0 /\ Pages(0) = 0
    <2>1. 0 % PageSize = 0
        BY MultipleIs, PageSizeAssumption, 0 \in Nat, 0 * PageSize = 0
    <2>2. 0 \div PageSize = 0
        BY MultipleIs, PageSizeAssumption, 0 \in Nat, 0 * PageSize = 0
    <2> QED BY <2>1, <2>2, WholeIs
<1>4. OwnPositions(NewReq) = {}
    <2>1. Len(NewReq.handle) = 0 /\ Len(NewReq.row) = 0
        BY <1>1
    <2> QED BY <1>3, <2>1 DEF OwnPositions
<1>5. OwnPages(NewReq) = {} /\ OwnSlots(NewReq) = {}
    BY <1>1, <1>4 DEF OwnPages, OwnSlots
<1>6. Lengths(NewReq)
    <2>1. IsPrefix(<<>>, <<>>) /\ Len(<<>>) = 0
        <3>1. <<>> \in Seq(Token)
            OBVIOUS
        <3> QED BY <3>1, EmptyPrefix
    <2> QED BY <1>1, <1>3, <2>1 DEF Lengths, InPrompt, Sampling
<1>7. Apart(NewReq)
    BY <1>1, <1>4 DEF Apart
<1>8. ASSUME NEW u, NEW h, NEW k, NEW st PROVE Fits(u, NewReq, h, k, st)
    <2>1. Shared(h, NewReq)
        <3>1. Len(NewReq.handle) \div PageSize = 0
            BY <1>1, <1>3
        <3> QED BY <1>1, <3>1 DEF Shared
    <2>2. Wrote(u, NewReq, k, st)
        BY <1>1, <1>4 DEF Wrote
    <2> QED BY <1>2, <1>6, <1>7, <2>1, <2>2 DEF Fits
<1> QED BY <1>1, <1>2, <1>5, <1>6, <1>7, <1>8

\* The end of u's step when it leaves: its handle, the rest of its row and the
\* slots it has left go; what it gave back earlier is erased with them.
LEMMA LeaveIs ==
    ASSUME NEW h, NEW fp0, NEW fs0, NEW k, NEW st, NEW q, AllInv(h, fp0, fs0, k, st, q),
           NEW u \in Req, NEW g, NEW fp, NEW fs, NEW s, NEW S,
           Mid(g, Handles(q), fp, fs, u, q, s, S, k, st), Extends(g, h),
           NEW A \in SUBSET There(fp), NEW rest,
           rest = Cut(q[u].row, Len(s) \div PageSize, Len(q[u].row))
    PROVE  AllInv(UnlockHybrid(g, q[u].handle), Put(fp, rest), Put(fs, S),
                  Erase(k, A \cup rest), Erase(st, S), [q EXCEPT ![u] = NewReq])
<1> DEFINE c == UnlockHybrid(g, q[u].handle)  H == Handles(q)
           gp == Put(fp, rest)  gs == Put(fs, S)  kk == Erase(k, A \cup rest)  ss == Erase(st, S)
           P == Owning(PagesOf(q), u, rest)  Q == Owning(SlotsOf(q), u, S)
<1>1. /\ HTree(g, H) /\ TreeWrote(g, k, st)
      /\ Pool(Page, fp, g.tree.pages, P) /\ Pool(Slot, fs, g.snap, Q)
    BY DEF Mid
<1>2. H[u] = q[u].handle /\ DOMAIN H = Req
    BY DEF Handles
<1>3. DOMAIN k = Page /\ DOMAIN st = Slot
    BY DEF AllInv
<1>4. P[u] = rest /\ Q[u] = S /\ DOMAIN P = Req /\ DOMAIN Q = Req
      /\ \A v \in Req \ {u} : P[v] = OwnPages(q[v]) /\ Q[v] = OwnSlots(q[v])
    BY DEF Owning, PagesOf, SlotsOf
<1>5. /\ [P EXCEPT ![u] = @ \ rest] = Owning(PagesOf(q), u, OwnPages(NewReq))
      /\ [Q EXCEPT ![u] = @ \ S] = Owning(SlotsOf(q), u, OwnSlots(NewReq))
    <2>1. rest \ rest = {} /\ S \ S = {}
        OBVIOUS
    <2> QED BY <1>4, <2>1, NewReqIs DEF Owning
<1>6. Owning(H, u, NewReq.handle) = [H EXCEPT ![u] = <<>>]
    BY NewReqIs DEF Owning
<1> HIDE DEF c, H, P, Q
<1>7. HTree(c, Owning(H, u, NewReq.handle)) /\ c.snap = g.snap /\ c.tree.pages = g.tree.pages
    <2>1. c = UnlockHybrid(g, H[u])
        BY <1>2 DEF c
    <2>2. HTree(c, [H EXCEPT ![u] = <<>>])
        BY ONLY <1>1, <1>2, <2>1, u \in Req, UnlockHybridIs
    <2>3. c.snap = g.snap
        BY ONLY <1>1, <1>2, <2>1, u \in Req, UnlockHybridIs
    <2>4. c.tree.pages = g.tree.pages
        BY ONLY <1>1, <1>2, <2>1, u \in Req, UnlockHybridIs
    <2> QED BY <1>6, <2>2, <2>3, <2>4
<1>8. Pool(Page, gp, g.tree.pages, Owning(PagesOf(q), u, OwnPages(NewReq)))
    <2>1. Pool(Page, gp, g.tree.pages, [P EXCEPT ![u] = @ \ rest])
        BY <1>1, <1>4, PoolFreed
    <2> QED BY <1>5, <2>1
<1>9. Pool(Slot, gs, g.snap, Owning(SlotsOf(q), u, OwnSlots(NewReq)))
    <2>1. Pool(Slot, gs, g.snap, [Q EXCEPT ![u] = @ \ S])
        BY <1>1, <1>4, PoolFreed
    <2> QED BY <1>5, <2>1
<1>10. A \cup rest \in SUBSET There(gp)
    <2>1. rest \in SUBSET Page
        BY <1>1, <1>4 DEF Pool
    <2>2. rest \subseteq There(gp) /\ There(fp) \subseteq There(gp)
        BY <1>1, <2>1, PutThere
    <2> QED BY <2>2
<1>11. S \in SUBSET There(gs)
    <2>1. S \in SUBSET Slot
        BY <1>1, <1>4 DEF Pool
    <2> QED BY <1>1, <2>1, PutThere
<1> DEFINE P1 == Owning(PagesOf(q), u, OwnPages(NewReq))
           Q1 == Owning(SlotsOf(q), u, OwnSlots(NewReq))
<1>12. \A v \in Req \ {u} : P1[v] = OwnPages(q[v]) /\ Q1[v] = OwnSlots(q[v])
    BY DEF Owning, PagesOf, SlotsOf
<1> HIDE DEF gp, gs, P1, Q1
<1>13. /\ DOMAIN kk = Page /\ \A j \in DOMAIN g.tree.pages : kk[g.tree.pages[j]] = k[g.tree.pages[j]]
       /\ \A v \in Req : \A x \in P1[v] : kk[x] = k[x]
    <2>1. Pool(Page, gp, g.tree.pages, P1)
        BY <1>8 DEF P1
    <2> DEFINE f == g.tree.pages  F == A \cup rest
    <2>2. F \in SUBSET There(gp) /\ Pool(Page, gp, f, P1) /\ IsFiniteSet(Page)
        BY <1>10, <2>1, PoolsFinite
    <2> HIDE DEF f, F
    <2>3. Same(Page, f, P1, k, Erase(k, F))
        BY ONLY <1>3, <2>2, ErasedIs
    <2> QED BY <2>3 DEF Same, f, F
<1>14. /\ DOMAIN ss = Slot /\ \A j \in DOMAIN g.snap : ss[g.snap[j]] = st[g.snap[j]]
       /\ \A v \in Req : \A x \in Q1[v] : ss[x] = st[x]
    <2>1. Pool(Slot, gs, g.snap, Q1)
        BY <1>9 DEF Q1
    <2> DEFINE f == g.snap
    <2>2. S \in SUBSET There(gs) /\ Pool(Slot, gs, f, Q1) /\ IsFiniteSet(Slot)
        BY <1>11, <2>1, PoolsFinite
    <2> HIDE DEF f
    <2>3. Same(Slot, f, Q1, st, Erase(st, S))
        BY ONLY <1>3, <2>2, ErasedIs
    <2> QED BY <2>3 DEF Same, f
<1> HIDE DEF kk, ss
<1>15. TreeWrote(c, kk, ss)
    BY <1>1, <1>7, <1>13, <1>14 DEF TreeWrote, Keys, Snapshots
<1>16. /\ \A j \in Keys(h.tree) \cap Keys(c.tree) : c.tree.pages[j] = h.tree.pages[j]
       /\ \A e \in Snapshots(h) \cap Snapshots(c) : c.snap[e] = h.snap[e]
    BY <1>7 DEF Extends, Keys, Snapshots
<1>17. \A v \in Req \ {u} : /\ \A p \in OwnPages(q[v]) : kk[p] = k[p]
                            /\ \A x \in OwnSlots(q[v]) : ss[x] = st[x]
    BY <1>12, <1>13, <1>14
<1>18. /\ Pool(Page, gp, c.tree.pages, Owning(PagesOf(q), u, OwnPages(NewReq)))
       /\ Pool(Slot, gs, c.snap, Owning(SlotsOf(q), u, OwnSlots(NewReq)))
    BY <1>7, <1>8, <1>9
<1>19. Fits(u, NewReq, c, kk, ss)
    BY NewReqIs
<1>20. After(h, k, st, q, u, NewReq, c, gp, gs, kk, ss)
    BY <1>7, <1>13, <1>14, <1>15, <1>16, <1>17, <1>18, <1>19 DEF After, H
<1> QED BY <1>20, StepIs DEF c, gp, gs, kk, ss

LEMMA PutNothing ==
    ASSUME NEW X, NEW list, NEW f, NEW O, Pool(X, list, f, O)
    PROVE  Put(list, {}) = list
BY DEF Pool, Put

\* The track slots, the frozen one and the other.
LEMMA SlotsAre ==
    ASSUME NEW r \in ReqType, r.phase # "new"
    PROVE  /\ FrozenSlot(r) \in OwnSlots(r) /\ r.live \in OwnSlots(r)
           /\ Range(r.track) = {r.track[1], r.track[2]}
           /\ OwnSlots(r) = Range(r.track) \cup {r.live}
           /\ Range(r.track) = {r.track[r.next], FrozenSlot(r)}
           /\ (Apart(r) => r.live \notin Range(r.track) /\ r.track[r.next] # FrozenSlot(r))
<1>1. r.track \in [1..2 -> Nat] /\ r.next \in {1, 2}
    BY DEF ReqType
<1>2. Range(r.track) = {r.track[1], r.track[2]}
    BY <1>1 DEF Range
<1>3. \/ r.track[r.next] = r.track[1] /\ FrozenSlot(r) = r.track[2]
      \/ r.track[r.next] = r.track[2] /\ FrozenSlot(r) = r.track[1]
    BY <1>1 DEF FrozenSlot
<1>4. OwnSlots(r) = {r.live, r.track[1], r.track[2]}
    BY DEF OwnSlots
<1> QED BY <1>2, <1>3, <1>4 DEF Apart

LEMMA MinIs ==
    ASSUME NEW a \in Int, NEW b \in Int
    PROVE  /\ a <= b => Min({a, b}) = a /\ Min({b, a}) = a
           /\ b <= a => Max({a, b}) = a /\ Max({b, a}) = a
<1>1. ASSUME a <= b PROVE Min({a, b}) = a /\ Min({b, a}) = a
    <2>1. {a, b} = {b, a}
        OBVIOUS
    <2>2. \A x \in {a, b} : (\A y \in {a, b} : x <= y) <=> x = a
        BY <1>1
    <2>3. Min({a, b}) = a
        BY <2>2 DEF Min
    <2> QED BY <2>1, <2>3
<1>2. ASSUME b <= a PROVE Max({a, b}) = a /\ Max({b, a}) = a
    <2>1. {a, b} = {b, a}
        OBVIOUS
    <2>2. \A x \in {a, b} : (\A y \in {a, b} : x >= y) <=> x = a
        BY <1>2
    <2>3. Max({a, b}) = a
        BY <2>2 DEF Max
    <2> QED BY <2>1, <2>3
<1> QED BY <1>1, <1>2

\* A frozen state on a page boundary can be donated.
LEMMA FrozenGiven ==
    ASSUME NEW h, NEW fp, NEW fs, NEW k, NEW st, NEW q, AllInv(h, fp, fs, k, st, q),
           NEW u \in Req, ~q[u].image, q[u].frozen # 0, q[u].frozen % PageSize = 0
    PROVE  /\ Donates(h, h, Handles(q), fp, fs, u, q, q[u].handle, OwnSlots(q[u]), k, st,
                      q[u].frozen, FrozenSlot(q[u]))
           /\ q[u].phase # "new" /\ q[u].frozen \in Nat
<1> DEFINE r == q[u]
<1>1. /\ HTree(h, Handles(q)) /\ r \in ReqType /\ Lengths(r) /\ Apart(r) /\ Shared(h, r)
      /\ Wrote(u, r, k, st) /\ r.handle \in Snapshots(h) \cup {<<>>}
    BY FitsIs
<1>2. Mid(h, Handles(q), fp, fs, u, q, r.handle, OwnSlots(r), k, st)
    BY MidStart
<1> HIDE DEF r
<1>3. r.frozen # 0 /\ r.frozen % PageSize = 0 /\ ~r.image
    BY DEF r
<1>4. r.frozen \in Nat \ {0} /\ r.frozen <= r.cached /\ Len(r.handle) <= r.frozen
      /\ r.handle \in Seq(Token) /\ IsPrefix(r.handle, r.text) /\ r.text \in Seq(Token)
    BY <1>1, <1>3 DEF ReqType, Lengths
<1>5. r.phase # "new"
    BY <1>1, <1>3 DEF Lengths, NewReq
<1>6. FrozenSlot(r) \in OwnSlots(r)
    BY <1>1, <1>5, SlotsAre
<1>7. st[FrozenSlot(r)] = <<NoImage, Upto(r.text, r.frozen)>>
    BY <1>1, <1>3 DEF Wrote, Owner
<1>8. IsPrefix(r.handle, Upto(r.text, r.frozen))
    <2>1. Upto(r.text, r.frozen) \in Seq(Token) /\ Len(Upto(r.text, r.frozen)) = r.frozen
          /\ IsPrefix(Upto(r.text, r.frozen), r.text)
        BY <1>1, <1>4, TextIs
    <2> QED BY <1>4, <2>1, PrefixOrder
<1>9. Fits(u, r, h, k, st)
    BY <1>1 DEF Fits
<1> QED BY <1>1, <1>2, <1>3, <1>4, <1>5, <1>6, <1>7, <1>8, <1>9 DEF Donates, r

\* And so can the live state.
LEMMA LiveGiven ==
    ASSUME NEW h, NEW fp, NEW fs, NEW k, NEW st, NEW q, AllInv(h, fp, fs, k, st, q),
           NEW u \in Req, ~q[u].image, q[u].phase \notin {"new", "admitted"},
           q[u].cached > 0, q[u].cached % PageSize = 0,
           NEW g, NEW fp1, NEW s, NEW S, Mid(g, Handles(q), fp1, fs, u, q, s, S, k, st),
           q[u].live \in S, IsPrefix(s, Upto(q[u].text, q[u].cached))
    PROVE  Donates(h, g, Handles(q), fp1, fs, u, q, s, S, k, st, q[u].cached, q[u].live)
<1> DEFINE r == q[u]
<1>1. /\ HTree(h, Handles(q)) /\ r \in ReqType /\ Lengths(r) /\ Apart(r) /\ Shared(h, r)
      /\ Wrote(u, r, k, st) /\ r.handle \in Snapshots(h) \cup {<<>>}
    BY FitsIs
<1> HIDE DEF r
<1>2. r.cached \in Nat \ {0} /\ r.cached <= r.cached
    BY SMTT(90), <1>1 DEF r, ReqType
<1>3. st[r.live] = <<NoImage, Upto(r.text, r.cached)>>
    BY <1>1 DEF Wrote, Owner, r
<1>4. Fits(u, r, h, k, st)
    BY <1>1 DEF Fits
<1> QED BY <1>1, <1>2, <1>3, <1>4 DEF Donates, r

\* Whoever leaves: what is donated, in one stage or in two, and what is freed.
LEMMA ReleaseStep ==
    ASSUME HybridInv, NEW u \in Req, NEW host \in Nat, req[u].cached <= host,
           req[u].phase \notin {"new", "admitted"}, Release(u, host)
    PROVE  HybridInv'
<1> DEFINE r == req[u]
           H == Handles(req)
           ids == Upto(r.text, r.cached)
           early == Upto(r.text, r.frozen)
           h1 == IF PendingFreeze(r) THEN Donate(cache, early, r.row, FrozenSlot(r)) ELSE cache
           taken1 == PendingFreeze(r) /\ ~HasSnapshot(cache, early)
           free1 == IF PendingFreeze(r)
                    THEN RowPages(r.row, Len(r.handle), Len(Walk(cache.tree, early))) ELSE {}
           upto == IF PendingFreeze(r) THEN r.frozen ELSE Len(r.handle)
           h2 == IF FinishDonates(r) THEN Donate(h1, ids, r.row, r.live) ELSE h1
           taken2 == FinishDonates(r) /\ ~HasSnapshot(h1, ids)
           free2 == IF FinishDonates(r)
                    THEN RowPages(r.row, upto, Len(Walk(h1.tree, ids)))
                    ELSE RowPages(r.row, upto, r.cached)
<1>1. AllInv(cache, freePages, freeSlots, kv, state, req)
    BY DEF HybridInv
<1>2. /\ HTree(cache, H) /\ r \in ReqType /\ Lengths(r) /\ Apart(r) /\ Shared(cache, r)
      /\ Wrote(u, r, kv, state) /\ r.handle \in Snapshots(cache) \cup {<<>>}
    BY <1>1, FitsIs
<1>3. /\ r.cached \in Nat /\ r.frozen \in Nat /\ r.handle \in Seq(Token) /\ Len(r.handle) \in Nat
      /\ r.text \in Seq(Token) /\ r.frozen <= r.cached /\ Len(r.handle) <= r.cached
      /\ Len(r.row) = Pages(r.cached) /\ IsPrefix(r.handle, r.text)
      /\ (r.frozen # 0 => Len(r.handle) <= r.frozen)
    BY SMTT(90), <1>2 DEF ReqType, Lengths
<1>4. /\ OwnSlots(r) = Range(r.track) \cup {r.live} /\ r.live \notin Range(r.track)
      /\ Range(r.track) = {r.track[r.next], FrozenSlot(r)} /\ r.track[r.next] # FrozenSlot(r)
    BY <1>2, SlotsAre
<1>5. Min({host, r.cached}) = r.cached
    BY <1>3, MinIs
<1>6. Upto(ids, r.frozen) = early /\ IsPrefix(early, ids)
    <2> HIDE DEF r
    <2>1. r.cached <= r.cached
        BY <1>3
    <2>2. \A m \in Nat : m <= r.cached => /\ Upto(Upto(r.text, r.cached), m) = Upto(r.text, m)
                                          /\ IsPrefix(Upto(r.text, m), Upto(r.text, r.cached))
        BY ONLY ZenonT(90), <1>2, <1>3, <2>1, TextIs
    <2> QED BY <1>3, <2>2
<1>7. PendingFreeze(r) => Max({Len(r.handle), r.frozen}) = r.frozen
    <2> SUFFICES ASSUME PendingFreeze(r) PROVE Max({Len(r.handle), r.frozen}) = r.frozen
        OBVIOUS
    <2>1. Len(r.handle) <= r.frozen
        BY <1>3 DEF PendingFreeze
    <2> HIDE DEF r
    <2>2. r.frozen \in Int /\ Len(r.handle) \in Int
        BY <1>3
    <2> QED BY ONLY <2>1, <2>2, MinIs
<1>8. Pool(Page, freePages, cache.tree.pages, PagesOf(req)) /\ Pool(Slot, freeSlots, cache.snap, SlotsOf(req))
    BY <1>1 DEF AllInv
<1>9. Mid(cache, H, freePages, freeSlots, u, req, r.handle, OwnSlots(r), kv, state)
    BY <1>1, MidStart
<1>10. Extends(cache, cache)
    BY DEF Extends
<1>11. req' = [req EXCEPT ![u] = NewReq]
    BY DEF Release
<1>12. CASE r.image
    <2> DEFINE rest == Cut(r.row, Len(r.handle) \div PageSize, Len(r.row))
    <2>1. RowPages(r.row, Len(r.handle), r.cached) = rest
        BY <1>3 DEF RowPages, Cut
    <2>2. /\ cache' = UnlockHybrid(cache, r.handle)
          /\ FreeBoth({}, RowPages(r.row, Len(r.handle), r.cached), Range(r.track) \cup {r.live})
        BY <1>12 DEF Release
    <2> HIDE DEF rest
    <2>3. Put(freePages, {}) = freePages
        BY <1>8, PutNothing
    <2>4. /\ freePages' = Put(freePages, rest) /\ kv' = Erase(kv, {} \cup rest)
          /\ freeSlots' = Put(freeSlots, OwnSlots(r)) /\ state' = Erase(state, OwnSlots(r))
        BY <1>4, <2>1, <2>2, <2>3 DEF FreeBoth
    <2>5. {} \in SUBSET There(freePages)
        OBVIOUS
    <2>6. AllInv(UnlockHybrid(cache, r.handle), Put(freePages, rest), Put(freeSlots, OwnSlots(r)),
                 Erase(kv, {} \cup rest), Erase(state, OwnSlots(r)), [req EXCEPT ![u] = NewReq])
        BY <1>1, <1>9, <1>10, <2>5, LeaveIs DEF rest
    <2>7. AllInv(cache', freePages', freeSlots', kv', state', req')
        BY <1>11, <2>2, <2>4, <2>6
    <2> QED BY <2>7 DEF HybridInv
<1>13. CASE ~r.image
    <2> DEFINE s1 == IF PendingFreeze(r) THEN early ELSE r.handle
               S1 == IF taken1 THEN OwnSlots(r) \ {FrozenSlot(r)} ELSE OwnSlots(r)
               fp1 == Put(freePages, free1)
    <2>1. /\ Mid(h1, H, fp1, freeSlots, u, req, s1, S1, kv, state) /\ Extends(h1, cache)
          /\ free1 \subseteq There(fp1) /\ Len(s1) = upto /\ IsPrefix(s1, ids)
        <3>1. CASE PendingFreeze(r)
            <4>1. r.frozen # 0 /\ r.frozen % PageSize = 0
                <5>1. AlignDown(r.frozen) = r.frozen /\ r.frozen # 0
                    BY <3>1 DEF PendingFreeze, Aligned
                <5>2. AlignDown(r.frozen) % PageSize = 0
                    BY ONLY <1>3, PagesIs
                <5> QED BY ONLY <5>1, <5>2
            <4>2. Donates(cache, cache, H, freePages, freeSlots, u, req, r.handle, OwnSlots(r),
                          kv, state, r.frozen, FrozenSlot(r))
                BY <1>1, <1>13, <4>1, FrozenGiven
            <4>3. IsPrefix(early, ids)
                BY <1>6
            <4>4. /\ h1 = Donate(cache, early, r.row, FrozenSlot(r))
                  /\ free1 = RowPages(r.row, Len(r.handle), Len(Walk(cache.tree, early)))
                  /\ s1 = early /\ upto = r.frozen
                  /\ S1 = IF HasSnapshot(cache, early) THEN OwnSlots(r)
                          ELSE OwnSlots(r) \ {FrozenSlot(r)}
                BY <3>1
            <4> HIDE DEF h1, free1, s1, upto, S1, taken1
            <4>5. /\ Mid(h1, H, fp1, freeSlots, u, req, s1, S1, kv, state) /\ Extends(h1, cache)
                  /\ free1 \subseteq There(fp1) /\ Len(early) = r.frozen
                <5>1. HasSnapshot(cache, early) => Mid(h1, H, fp1, freeSlots, u, req, s1, S1, kv, state)
                    <6>1. HasSnapshot(cache, early)
                              => Mid(Donate(cache, early, r.row, FrozenSlot(r)), H,
                                     Put(freePages, RowPages(r.row, Len(r.handle), Len(Walk(cache.tree, early)))),
                                     freeSlots, u, req, early, OwnSlots(r), kv, state)
                        BY ONLY ZenonT(90), <4>2, StageIs
                    <6> QED BY <4>4, <6>1 DEF fp1
                <5>2. ~HasSnapshot(cache, early) => Mid(h1, H, fp1, freeSlots, u, req, s1, S1, kv, state)
                    <6>1. ~HasSnapshot(cache, early)
                              => Mid(Donate(cache, early, r.row, FrozenSlot(r)), H,
                                     Put(freePages, RowPages(r.row, Len(r.handle), Len(Walk(cache.tree, early)))),
                                     freeSlots, u, req, early, OwnSlots(r) \ {FrozenSlot(r)}, kv, state)
                        BY ONLY ZenonT(90), <4>2, StageIs
                    <6> QED BY <4>4, <6>1 DEF fp1
                <5>3. Extends(Donate(cache, early, r.row, FrozenSlot(r)), cache)
                    BY ONLY ZenonT(90), <4>2, StageIs
                <5>5. Len(early) = r.frozen
                    BY <1>2, <1>3, TextIs
                <5>4. free1 \subseteq There(fp1)
                    <6>1. LET dups == RowPages(r.row, Len(r.handle), Len(Walk(cache.tree, early)))
                          IN  dups \subseteq There(Put(freePages, dups))
                        BY ONLY ZenonT(90), <4>2, StageIs
                    <6> QED BY <4>4, <6>1 DEF fp1
                <5> QED BY <4>4, <5>1, <5>2, <5>3, <5>4, <5>5
            <4> QED BY <4>3, <4>4, <4>5
        <3>2. CASE ~PendingFreeze(r)
            <4>1. h1 = cache /\ free1 = {} /\ s1 = r.handle /\ upto = Len(r.handle) /\ S1 = OwnSlots(r)
                BY <3>2
            <4>2. fp1 = freePages
                BY <1>8, <4>1, PutNothing
            <4>3. IsPrefix(r.handle, ids)
                <5>1. ids \in Seq(Token) /\ Len(ids) = r.cached /\ IsPrefix(ids, r.text)
                    BY <1>2, <1>3, TextIs
                <5> QED BY <1>3, <5>1, PrefixOrder
            <4> HIDE DEF h1, free1, s1, upto, S1, fp1
            <4> QED BY <1>9, <1>10, <4>1, <4>2, <4>3
        <3> QED BY <3>1, <3>2
    <2>2. r.live \in S1 /\ S1 = TrackSlotsFreed(r, taken1) \cup {r.live}
        <3> HIDE DEF taken1
        <3> QED BY <1>4 DEF TrackSlotsFreed
    <2> HIDE DEF h1, free1, taken1, upto, s1, S1, fp1
    <2> DEFINE s2 == IF FinishDonates(r) THEN ids ELSE s1
               S2 == IF taken2 THEN S1 \ {r.live} ELSE S1
               fp2 == IF FinishDonates(r) THEN Put(fp1, free2) ELSE fp1
               A2 == IF FinishDonates(r) THEN free1 \cup free2 ELSE free1
               rest == Cut(r.row, Len(s2) \div PageSize, Len(r.row))
    <2>3. /\ Mid(h2, H, fp2, freeSlots, u, req, s2, S2, kv, state) /\ Extends(h2, cache)
          /\ A2 \in SUBSET There(fp2)
          /\ Put(fp2, rest) = Put(fp1, free2) /\ A2 \cup rest = free1 \cup free2
        <3>1. CASE FinishDonates(r)
            <4>1. r.cached > 0 /\ r.cached % PageSize = 0
                <5>1. AlignDown(r.cached) = r.cached /\ r.cached > 0
                    BY <3>1 DEF FinishDonates, Aligned
                <5>2. AlignDown(r.cached) % PageSize = 0
                    BY ONLY <1>3, PagesIs
                <5> QED BY ONLY <5>1, <5>2
            <4>2. Donates(cache, h1, H, fp1, freeSlots, u, req, s1, S1, kv, state, r.cached, r.live)
                BY <1>1, <1>13, <2>1, <2>2, <4>1, LiveGiven
            <4>3. /\ h2 = Donate(h1, ids, r.row, r.live)
                  /\ free2 = RowPages(r.row, Len(s1), Len(Walk(h1.tree, ids)))
                  /\ s2 = ids /\ S2 = IF HasSnapshot(h1, ids) THEN S1 ELSE S1 \ {r.live}
                  /\ fp2 = Put(fp1, free2) /\ A2 = free1 \cup free2
                BY <2>1, <3>1
            <4> HIDE DEF h2, free2, s2, S2, fp2, A2, taken2
            <4> DEFINE c == Donate(h1, ids, r.row, r.live)
                       dups == RowPages(r.row, Len(s1), Len(Walk(h1.tree, ids)))
            <4>a. HasSnapshot(h1, ids) => Mid(c, H, Put(fp1, dups), freeSlots, u, req, ids, S1, kv, state)
                BY ONLY ZenonT(90), <4>2, StageIs
            <4>b. ~HasSnapshot(h1, ids)
                      => Mid(c, H, Put(fp1, dups), freeSlots, u, req, ids, S1 \ {r.live}, kv, state)
                BY ONLY ZenonT(90), <4>2, StageIs
            <4>c. Extends(c, h1)
                BY ONLY ZenonT(90), <4>2, StageIs
            <4>e. Len(ids) = r.cached
                BY <1>2, <1>3, TextIs
            <4>d. dups \subseteq There(Put(fp1, dups)) /\ There(fp1) \subseteq There(Put(fp1, dups))
                BY ONLY ZenonT(90), <4>2, StageIs
            <4>4. Mid(h2, H, fp2, freeSlots, u, req, s2, S2, kv, state)
                <5> HIDE DEF c, dups
                <5>1. h2 = c /\ fp2 = Put(fp1, dups)
                    BY <4>3 DEF c, dups
                <5> QED BY <4>3, <4>a, <4>b, <5>1
            <4>5. Extends(h2, h1) /\ Len(ids) = r.cached
                BY <4>3, <4>c, <4>e
            <4>6. free2 \subseteq There(fp2) /\ There(fp1) \subseteq There(fp2)
                BY <4>3, <4>d
            <4>7. Extends(h2, cache)
                BY <2>1, <4>5 DEF Extends
            <4>8. A2 \in SUBSET There(fp2)
                BY <2>1, <4>3, <4>6
            <4>9. rest = {}
                <5>1. Len(s2) \div PageSize = Len(r.row) /\ Len(r.row) \in Nat
                    BY <1>3, <4>1, <4>3, <4>5, WholeIs
                <5> HIDE DEF s2
                <5>2. (Len(s2) \div PageSize + 1)..Len(r.row) = {}
                    BY <5>1
                <5> QED BY <5>2 DEF Cut
            <4> HIDE DEF rest
            <4>10. Put(fp2, {}) = fp2
                BY <4>4, PutNothing DEF Mid
            <4> QED BY <4>3, <4>4, <4>7, <4>8, <4>9, <4>10
        <3>2. CASE ~FinishDonates(r)
            <4>1. /\ h2 = h1 /\ s2 = s1 /\ S2 = S1 /\ fp2 = fp1 /\ A2 = free1
                  /\ free2 = RowPages(r.row, Len(s1), r.cached)
                BY <2>1, <3>2
            <4>2. rest = free2
                <5> HIDE DEF s2
                <5> QED BY Zenon, <1>3, <4>1 DEF RowPages, Cut
            <4> HIDE DEF h2, free2, s2, S2, fp2, A2, rest
            <4> QED BY <2>1, <4>1, <4>2
        <3> QED BY <3>1, <3>2
    <2>4. S2 = TrackSlotsFreed(r, taken1) \cup (IF taken2 THEN {} ELSE {r.live})
        <3>1. r.live \notin TrackSlotsFreed(r, taken1)
            BY <1>4 DEF TrackSlotsFreed
        <3> HIDE DEF taken2
        <3> QED BY <2>2, <3>1
    <2>5. /\ cache' = UnlockHybrid(h2, r.handle)
          /\ FreeBoth(free1, free2, TrackSlotsFreed(r, taken1) \cup (IF taken2 THEN {} ELSE {r.live}))
        BY ZenonT(90), <1>5, <1>6, <1>7, <1>13 DEF Release, h1, free1, taken1, upto
    <2> HIDE DEF h2, free2, s2, S2, fp2, A2, taken2
    <2>6. AllInv(UnlockHybrid(h2, r.handle), Put(fp2, rest), Put(freeSlots, S2),
                 Erase(kv, A2 \cup rest), Erase(state, S2), [req EXCEPT ![u] = NewReq])
        BY <1>1, <2>3, LeaveIs
    <2>7. /\ freePages' = Put(fp2, rest) /\ kv' = Erase(kv, A2 \cup rest)
          /\ freeSlots' = Put(freeSlots, S2) /\ state' = Erase(state, S2)
        BY <2>3, <2>4, <2>5 DEF FreeBoth, fp1
    <2>8. AllInv(cache', freePages', freeSlots', kv', state', req')
        BY <1>11, <2>5, <2>6, <2>7
    <2> QED BY <2>8 DEF HybridInv
<1> QED BY <1>12, <1>13

\* The token of a request's last forward is read.
LEMMA DrainedIs ==
    ASSUME NEW h, NEW fp, NEW fs, NEW k, NEW st, NEW q, AllInv(h, fp, fs, k, st, q),
           NEW u \in Req, Sampling(q[u]), NEW x \in ReqType,
           NEW n, x = [q[u] EXCEPT !.host = @ + 1, !.phase = "decode", !.anchor = n]
    PROVE  AllInv(h, fp, fs, k, st, [q EXCEPT ![u] = x])
<1> DEFINE r == q[u]
<1>1. /\ HTree(h, Handles(q)) /\ r \in ReqType /\ Lengths(r) /\ Apart(r) /\ Shared(h, r)
      /\ Wrote(u, r, k, st) /\ r.handle \in Snapshots(h) \cup {<<>>} /\ Sampling(r)
    BY FitsIs
<1>2. /\ x.host = r.host + 1 /\ x.phase = "decode" /\ x.text = r.text /\ x.prompt = r.prompt
      /\ x.image = r.image /\ x.cached = r.cached /\ x.handle = r.handle /\ x.row = r.row
      /\ x.live = r.live /\ x.track = r.track /\ x.next = r.next /\ x.frozen = r.frozen
      /\ x.restore = r.restore
    BY <1>1 DEF ReqType
<1> HIDE DEF r
<1>3. r.phase \in {"drain", "decode"} /\ r.host \in Nat /\ r.cached \in Nat
    BY <1>1 DEF Sampling, ReqType
<1>4. OwnPositions(x) = OwnPositions(r) /\ FrozenSlot(x) = FrozenSlot(r) /\ Owner(u, x) = Owner(u, r)
    BY <1>2 DEF OwnPositions, FrozenSlot, Owner
<1>5. OwnPages(x) = OwnPages(r) /\ OwnSlots(x) = OwnSlots(r)
    BY <1>2, <1>3, <1>4 DEF OwnPages, OwnSlots
<1>6. Lengths(x)
    <2>1. r.cached <= r.host + 1 + 1 /\ Len(r.text) = r.cached + 1 /\ r.prompt <= r.cached
        BY <1>1, <1>3 DEF Lengths
    <2> QED BY <1>1, <1>2, <1>3, <2>1 DEF Lengths, InPrompt, Sampling
<1>7. Apart(x) /\ Wrote(u, x, k, st)
    <2>1. Apart(x)
        BY <1>1, <1>2, <1>3, <1>4 DEF Apart
    <2>2. Wrote(u, x, k, st)
        BY ZenonT(90), <1>1, <1>2, <1>3, <1>4 DEF Wrote
    <2> QED BY <2>1, <2>2
<1>8. Shared(h, x)
    BY <1>1, <1>2, <1>3 DEF Shared
<1>9. Fits(u, x, h, k, st)
    BY <1>6, <1>7, <1>8 DEF Fits
<1>10. /\ Handles(q) = Owning(Handles(q), u, x.handle) /\ PagesOf(q) = Owning(PagesOf(q), u, OwnPages(x))
       /\ SlotsOf(q) = Owning(SlotsOf(q), u, OwnSlots(x))
    BY <1>2, <1>5 DEF Handles, PagesOf, SlotsOf, Owning, r
<1>11. After(h, k, st, q, u, x, h, fp, fs, k, st)
    BY <1>9, <1>10 DEF After, AllInv
<1> QED BY <1>11, StepIs

\* The pages it takes are where the row has them.
LEMMA DonatedPage ==
    ASSUME NEW h, NEW H, HTree(h, H), NEW t \in WholeKeys(Token), NEW row, NEW slot,
           NEW i \in (Len(Walk(h.tree, t)) \div PageSize + 1)..(Len(t) \div PageSize)
    PROVE  Donate(h, t, row, slot).tree.pages[Upto(t, i * PageSize)] = row[i]
<1> DEFINE hit == Walk(h.tree, t)  b == Len(hit) \div PageSize  d == Len(t) \div PageSize
           j == Upto(t, i * PageSize)  sp == Span(Token, hit, t)
           pages == Donate(h, t, row, slot).tree.pages
<1>1. t \in Seq(Token) /\ Len(t) % PageSize = 0
    BY WholeKeyIs
<1>2. hit \in Seq(Token) /\ Len(hit) \in Nat /\ Len(hit) % PageSize = 0
    <2>1. Tree(h.tree, Token)
        BY DEF HTree
    <2> QED BY <1>1, <2>1, WalkIs
<1>3. \A m \in sp : pages[m] = row[Len(m) \div PageSize]
    <2> HIDE DEF pages
    <2>1. \A m \in Span(Token, Walk(h.tree, t), t) : pages[m] = row[Len(m) \div PageSize]
        BY ONLY HTree(h, H), t \in WholeKeys(Token), DonateIs DEF pages
    <2> QED BY <2>1
<1> HIDE DEF hit
<1>4. b \in Nat /\ b * PageSize = Len(hit) /\ d \in Nat
    BY <1>1, <1>2, WholeIs
<1>5. i \in Nat /\ b < i /\ i \in 1..d
    <2>1. i \in (b + 1)..d
        BY DEF hit
    <2> HIDE DEF b, d
    <2> QED BY <1>4, <2>1
<1>6. j \in WholeKeys(Token) /\ IsPrefix(j, t) /\ Len(j) = i * PageSize /\ Len(j) \div PageSize = i
    BY <1>1, <1>5, PageKeyIs
<1>7. b * PageSize < i * PageSize
    <2> HIDE DEF b
    <2> QED BY <1>4, <1>5, TimesIs
<1>8. j \in sp
    BY <1>4, <1>6, <1>7 DEF Span
<1> HIDE DEF pages, sp, j
<1>9. pages[j] = row[i]
    BY <1>3, <1>6, <1>8
<1> QED BY <1>9 DEF pages, j

\* A commit's request: its handle is the boundary t it was frozen at, c the tree
\* in the end, m the one its row was re-pointed to, tr its track slots.
Moves(h, k, st, q, u, t, g, m, c, kk, ss, tr, x) ==
    /\ u \in Req /\ ~q[u].image /\ q[u].phase = "decode"
    /\ q[u].frozen # 0 /\ q[u].frozen % PageSize = 0 /\ t = Upto(q[u].text, q[u].frozen)
    /\ g = Donate(h, t, q[u].row, FrozenSlot(q[u])) /\ Range(g.tree.pages) \subseteq Page
    /\ m.tree.pages = g.tree.pages
    /\ HTree(c, Owning(Handles(q), u, t))
    /\ \A j \in Keys(c.tree) : c.tree.pages[j] = g.tree.pages[j]
    /\ \A p \in Cut(q[u].row, Len(t) \div PageSize, Len(q[u].row)) : kk[p] = k[p]
    /\ ss[q[u].live] = st[q[u].live]
    /\ tr \in [1..2 -> Nat] /\ tr[1] # tr[2] /\ q[u].live # tr[1] /\ q[u].live # tr[2]
    /\ x = [q[u] EXCEPT !.handle = t, !.frozen = 0, !.track = tr,
                        !.row = Repoint(q[u], m, t, Walk(h.tree, t))]

LEMMA MovedIs ==
    ASSUME NEW h, NEW fp, NEW fs, NEW k, NEW st, NEW q, AllInv(h, fp, fs, k, st, q),
           NEW u, NEW t, NEW g, NEW m, NEW c, NEW kk, NEW ss, NEW tr, NEW x,
           Moves(h, k, st, q, u, t, g, m, c, kk, ss, tr, x)
    PROVE  /\ Fits(u, x, c, kk, ss) /\ x.handle = t
           /\ OwnPages(x) = Cut(q[u].row, Len(t) \div PageSize, Len(q[u].row))
           /\ OwnSlots(x) = {q[u].live, tr[1], tr[2]}
<1> DEFINE r == q[u]  H == Handles(q)  hit == Walk(h.tree, t)
           a == Len(r.handle) \div PageSize  b == Len(hit) \div PageSize
           d == Len(t) \div PageSize  e == Len(r.row)
<1>1. /\ u \in Req /\ ~r.image /\ r.phase = "decode" /\ r.frozen # 0 /\ r.frozen % PageSize = 0
      /\ t = Upto(r.text, r.frozen) /\ g = Donate(h, t, r.row, FrozenSlot(r))
      /\ Range(g.tree.pages) \subseteq Page /\ m.tree.pages = g.tree.pages
      /\ HTree(c, Owning(H, u, t)) /\ \A j \in Keys(c.tree) : c.tree.pages[j] = g.tree.pages[j]
    BY ZenonT(60) DEF Moves
<1>2. /\ \A p \in Cut(r.row, d, e) : kk[p] = k[p]
      /\ ss[r.live] = st[r.live]
      /\ tr \in [1..2 -> Nat] /\ tr[1] # tr[2] /\ r.live # tr[1] /\ r.live # tr[2]
      /\ x = [r EXCEPT !.handle = t, !.frozen = 0, !.track = tr, !.row = Repoint(r, m, t, hit)]
    BY DEF Moves
<1>3. /\ HTree(h, H) /\ r \in ReqType /\ Lengths(r) /\ Apart(r) /\ Shared(h, r)
      /\ Wrote(u, r, k, st) /\ r.handle \in Snapshots(h) \cup {<<>>}
    BY <1>1, FitsIs
<1> HIDE DEF r, H
<1>4. /\ x.host = r.host /\ x.phase = r.phase /\ x.text = r.text /\ x.prompt = r.prompt
      /\ x.image = r.image /\ x.cached = r.cached /\ x.handle = t /\ x.row = Repoint(r, m, t, hit)
      /\ x.live = r.live /\ x.track = tr /\ x.next = r.next /\ x.frozen = 0
      /\ x.restore = r.restore
    <2> HIDE DEF hit
    <2> QED BY <1>2, <1>3 DEF ReqType
<1>5. r.frozen \in Nat \ {0} /\ r.frozen <= r.cached /\ Len(r.handle) <= r.frozen
      /\ r.handle \in Seq(Token) /\ IsPrefix(r.handle, r.text) /\ r.text \in Seq(Token)
      /\ r.cached \in Nat /\ r.row \in Seq(Page) /\ e \in Nat
    BY <1>1, <1>3 DEF ReqType, Lengths
<1>6. t \in WholeKeys(Token) /\ t \in Seq(Token) /\ Len(t) = r.frozen /\ IsPrefix(t, r.text)
    BY <1>1, <1>3, <1>5, TextIs
<1>7. hit \in Seq(Token) /\ Len(hit) \in Nat /\ Len(hit) % PageSize = 0 /\ Len(hit) <= Len(t)
    <2>1. Tree(h.tree, Token)
        BY <1>3 DEF HTree
    <2> QED BY <1>6, <2>1, WalkIs
<1>8. IsPrefix(r.handle, t)
    BY <1>5, <1>6, PrefixOrder
<1> HIDE DEF hit
<1>9. /\ a \in Nat /\ a * PageSize = Len(r.handle) /\ OwnPositions(r) = (a + 1)..e
      /\ r.cached <= e * PageSize
      /\ \A i \in 1..a : i \in 1..e /\ Upto(r.handle, i * PageSize) \in Keys(h.tree)
    BY <1>3, RowIs
<1>10. b \in Nat /\ b * PageSize = Len(hit) /\ d \in Nat /\ d * PageSize = Len(t)
    BY <1>1, <1>6, <1>7, WholeIs
<1> HIDE DEF a, b, d
<1>11. a <= d /\ b <= d /\ d <= e
    <2>1. Len(r.handle) \in Nat /\ e * PageSize \in Nat
        <3>1. Len(r.handle) \in Nat
            BY <1>5
        <3> HIDE DEF e
        <3>2. e * PageSize \in Nat
            BY <1>5, TimesIs
        <3> QED BY <3>1, <3>2
    <2>2. a * PageSize <= d * PageSize /\ b * PageSize <= d * PageSize /\ d * PageSize <= e * PageSize
        BY SMTT(90), <1>5, <1>6, <1>7, <1>9, <1>10, <2>1
    <2> HIDE DEF e
    <2> QED BY <1>5, <1>9, <1>10, <2>2, TimesIs
<1>12. HTree(g, H) /\ t \in Keys(g.tree) /\ \A j \in Keys(h.tree) : g.tree.pages[j] = h.tree.pages[j]
    <2>1. HTree(g, H)
        BY ONLY <1>1, <1>3, <1>6, DonateIs
    <2>2. t \in Keys(g.tree)
        BY ONLY <1>1, <1>3, <1>6, DonateIs
    <2>3. \A j \in Keys(h.tree) : g.tree.pages[j] = h.tree.pages[j]
        BY ONLY <1>1, <1>3, <1>6, DonateIs
    <2> QED BY <2>1, <2>2, <2>3
<1>13. ASSUME NEW i \in 1..d
       PROVE  Upto(t, i * PageSize) \in Keys(g.tree) /\ i * PageSize \in 0..Len(t) /\ i \in 1..e
              /\ g.tree.pages[Upto(t, i * PageSize)] \in Page
    <2>1. Upto(t, i * PageSize) \in WholeKeys(Token) /\ IsPrefix(Upto(t, i * PageSize), t)
          /\ i * PageSize \in 1..Len(t)
        BY <1>1, <1>6, PageKeyIs DEF d
    <2>2. Upto(t, i * PageSize) \in Keys(g.tree)
        BY <1>12, <2>1 DEF HTree, Tree
    <2>3. g.tree.pages[Upto(t, i * PageSize)] \in Page
        BY <1>1, <2>2 DEF Keys, Range
    <2> QED BY <1>5, <1>10, <1>11, <2>1, <2>2, <2>3
<1>14. /\ x.row = [i \in 1..e |-> IF i > a /\ i <= b
                                 THEN MatchedPages(m, t)[i] ELSE r.row[i]]
    BY <1>4 DEF Repoint, a, b, e
<1>15. \A i \in 1..d : MatchedPages(m, t)[i] = g.tree.pages[Upto(t, i * PageSize)]
    BY <1>1 DEF MatchedPages, d
<1>16. ASSUME NEW i \in 1..e
       PROVE  x.row[i] = IF i > a /\ i <= b THEN g.tree.pages[Upto(t, i * PageSize)] ELSE r.row[i]
    BY <1>10, <1>11, <1>14, <1>15
<1>17. x.row \in Seq(Page) /\ Len(x.row) = e
    <2>1. \A i \in 1..e : x.row[i] \in Page
        <3>1. \A i \in 1..e : r.row[i] \in Page
            BY <1>5 DEF e
        <3>2. \A i \in 1..e : i > a /\ i <= b => i \in 1..d
            BY <1>5, <1>9, <1>10, <1>11
        <3> QED BY <1>13, <1>16, <3>1, <3>2
    <2>2. x.row \in [1..e -> Page]
        BY <1>14, <2>1
    <2>3. e \in Nat
        BY <1>5
    <2> HIDE DEF e
    <2> QED BY ONLY SMTT(90), <2>2, <2>3
<1>18. x \in ReqType
    <2>1. /\ r.phase \in Phases /\ r.text \in Seq(Token) /\ r.prompt \in Nat /\ r.output \in Nat
          /\ r.image \in BOOLEAN /\ r.cached \in Nat /\ r.host \in Nat /\ r.live \in Nat
          /\ r.next \in {1, 2} /\ r.anchor \in Nat /\ r.restore \in Nat
        BY <1>3 DEF ReqType
    <2>2. Repoint(r, m, t, hit) \in Seq(Page)
        BY <1>4, <1>17
    <2>3. r = [phase |-> r.phase, text |-> r.text, prompt |-> r.prompt, output |-> r.output,
               image |-> r.image, cached |-> r.cached, host |-> r.host, handle |-> r.handle,
               row |-> r.row, live |-> r.live, track |-> r.track, next |-> r.next,
               frozen |-> r.frozen, anchor |-> r.anchor, restore |-> r.restore]
        BY <1>3 DEF ReqType
    <2>4. x = [phase |-> r.phase, text |-> r.text, prompt |-> r.prompt, output |-> r.output,
               image |-> r.image, cached |-> r.cached, host |-> r.host, handle |-> t,
               row |-> Repoint(r, m, t, hit), live |-> r.live, track |-> tr, next |-> r.next,
               frozen |-> 0, anchor |-> r.anchor, restore |-> r.restore]
        BY <1>2, <2>3
    <2> QED BY ONLY <1>2, <1>6, <2>1, <2>2, <2>4, 0 \in Nat DEF ReqType
<1>19. OwnPositions(x) = (d + 1)..e
    BY <1>4, <1>17 DEF OwnPositions, d
<1>20. ASSUME NEW i \in (d + 1)..e PROVE x.row[i] = r.row[i] /\ i \in OwnPositions(r) /\ i \in 1..e
    <2>1. i \in 1..e /\ ~(i <= b) /\ i \in (a + 1)..e
        BY <1>5, <1>9, <1>10, <1>11
    <2> QED BY <1>9, <1>16, <2>1
<1>21. OwnPages(x) = Cut(r.row, d, e)
    BY <1>19, <1>20 DEF OwnPages, Cut
<1>22. OwnSlots(x) = {r.live, tr[1], tr[2]}
    BY <1>1, <1>4 DEF OwnSlots
<1>23. Lengths(x)
    <2>1. r.phase = "decode" /\ ~InPrompt(r) /\ Sampling(r)
        BY <1>1 DEF InPrompt, Sampling
    <2>2. /\ e = Pages(r.cached) /\ Len(r.text) = r.cached + 1 /\ r.prompt <= r.cached
          /\ r.cached <= r.host + 1
        BY <1>3, <2>1 DEF Lengths, e
    <2> HIDE DEF e
    <2>3. Len(x.row) = Pages(x.cached) /\ IsPrefix(x.handle, x.text) /\ Len(x.handle) <= x.cached
        BY <1>4, <1>5, <1>6, <1>17, <2>2
    <2>4. x.phase = "decode" /\ ~x.image /\ x.frozen = 0 /\ 0 <= x.cached
        BY <1>1, <1>4, <1>5
    <2>5. Len(x.text) = x.cached + 1 /\ x.prompt <= x.cached /\ x.cached <= x.host + 1
        BY <1>4, <2>2
    <2> QED BY ONLY <2>3, <2>4, <2>5 DEF Lengths, InPrompt
<1>24. Apart(x)
    BY <1>2, <1>3, <1>4, <1>19, <1>20 DEF Apart
<1>25. Shared(c, x)
    <2>1. ASSUME NEW i \in 1..d PROVE x.row[i] = c.tree.pages[Upto(t, i * PageSize)]
        <3>1. Upto(t, i * PageSize) \in Keys(c.tree)
            <4>1. t \in Keys(c.tree)
                <5>1. Owning(H, u, t)[u] = t /\ u \in DOMAIN Owning(H, u, t)
                    BY <1>1 DEF Owning, H, Handles
                <5>2. t \in Snapshots(c) \cup {<<>>}
                    BY <1>1, <5>1 DEF HTree, Snapped
                <5>3. t # <<>>
                    BY <1>6, WholeKeyIs
                <5> QED BY <1>1, <5>2, <5>3, SnapshotsIs
            <4>2. Upto(t, i * PageSize) \in WholeKeys(Token) /\ IsPrefix(Upto(t, i * PageSize), t)
                BY <1>1, <1>6, PageKeyIs DEF d
            <4> QED BY <1>1, <4>1, <4>2 DEF HTree, Tree
        <3>2. c.tree.pages[Upto(t, i * PageSize)] = g.tree.pages[Upto(t, i * PageSize)] /\ i \in 1..e
            BY <1>1, <1>13, <3>1
        <3>3. CASE i > a /\ i <= b
            BY <1>16, <3>2, <3>3
        <3>4. CASE i <= a
            <4>1. i \in 1..a
                BY <1>9, <3>4
            <4>2. r.row[i] = h.tree.pages[Upto(r.handle, i * PageSize)]
                BY <1>3, <4>1 DEF Shared, a
            <4>3. Upto(r.handle, i * PageSize) = Upto(t, i * PageSize)
                <5>1. i \in Nat /\ i * PageSize <= a * PageSize /\ i * PageSize \in Nat
                    BY <1>9, <4>1, TimesIs
                <5>2. i * PageSize \in 0..Len(r.handle)
                    BY <1>5, <1>9, <5>1
                <5> QED BY <1>5, <1>6, <1>8, <5>2, UptoOfPrefix
            <4>4. g.tree.pages[Upto(r.handle, i * PageSize)] = h.tree.pages[Upto(r.handle, i * PageSize)]
                BY <1>9, <1>12, <4>1
            <4> QED BY <1>16, <3>2, <3>4, <4>2, <4>3, <4>4
        <3>5. CASE i > a /\ i > b
            <4>1. i \in (Len(Walk(h.tree, t)) \div PageSize + 1)..(Len(t) \div PageSize)
                <5>1. i \in (b + 1)..d
                    BY <1>10, <3>5
                <5> QED BY <5>1 DEF b, d, hit
            <4>2. g.tree.pages[Upto(t, i * PageSize)] = r.row[i]
                BY <1>1, <1>3, <1>6, <4>1, DonatedPage
            <4> QED BY <1>10, <1>16, <3>2, <3>5, <4>2
        <3> QED BY <1>9, <1>10, <3>3, <3>4, <3>5
    <2>2. x.restore = 0 /\ x.phase # "admitted"
        BY <1>1, <1>3, <1>4 DEF Shared
    <2> QED BY <1>4, <2>1, <2>2 DEF Shared, d
<1>26. Wrote(u, x, kk, ss)
    <2>1. Owner(u, x) = Owner(u, r)
        BY <1>4 DEF Owner
    <2>2. ASSUME NEW i \in (d + 1)..e
          PROVE  kk[x.row[i]] = <<Owner(u, r), Upto(r.text, Least(i * PageSize, r.cached))>>
        <3>1. k[r.row[i]] = <<Owner(u, r), Upto(r.text, Least(i * PageSize, r.cached))>>
            BY <1>3, <1>20 DEF Wrote
        <3>2. r.row[i] \in Cut(r.row, d, e)
            BY DEF Cut
        <3> QED BY <1>2, <1>20, <3>1, <3>2
    <2>3. ss[r.live] = <<Owner(u, r), Upto(r.text, r.cached)>>
        BY <1>1, <1>2, <1>3 DEF Wrote
    <2> QED BY <1>4, <1>19, <2>1, <2>2, <2>3 DEF Wrote
<1> QED BY <1>4, <1>18, <1>21, <1>22, <1>23, <1>24, <1>25, <1>26 DEF Fits, d, e, r

\* What ensure_mamba_slots and a commit may evict.
LEMMA EvictableIs ==
    ASSUME NEW h, NEW n, NEW S \in Evictable(h, n)
    PROVE  S \in SUBSET Idle(h)
BY DEF Evictable, SnapshotEvictions, kSubset, Idle

\* A step that changes no pool and only forgets a frozen state, or nothing.
LEMMA KeptIs ==
    ASSUME NEW h, NEW fp, NEW fs, NEW k, NEW st, NEW q, AllInv(h, fp, fs, k, st, q),
           NEW u \in Req, q[u].phase = "decode",
           NEW n \in {0, q[u].frozen}, NEW x, x = [q[u] EXCEPT !.frozen = n],
           NEW c, HTree(c, Handles(q)), c.snap = h.snap, c.tree.pages = h.tree.pages
    PROVE  AllInv(c, fp, fs, k, st, [q EXCEPT ![u] = x])
<1> DEFINE r == q[u]
<1>1. /\ HTree(h, Handles(q)) /\ r \in ReqType /\ Lengths(r) /\ Apart(r) /\ Shared(h, r)
      /\ Wrote(u, r, k, st) /\ r.handle \in Snapshots(h) \cup {<<>>} /\ r.phase = "decode"
    BY FitsIs
<1>2. /\ x.host = r.host /\ x.phase = r.phase /\ x.text = r.text /\ x.prompt = r.prompt
      /\ x.image = r.image /\ x.cached = r.cached /\ x.handle = r.handle /\ x.row = r.row
      /\ x.live = r.live /\ x.track = r.track /\ x.next = r.next /\ x.frozen = n
      /\ x.restore = r.restore /\ n \in {0, r.frozen} /\ n \in Nat
    BY SMTT(90), <1>1 DEF ReqType
<1>3. x \in ReqType
    BY <1>1, <1>2 DEF ReqType
<1> HIDE DEF r
<1>4. OwnPositions(x) = OwnPositions(r) /\ FrozenSlot(x) = FrozenSlot(r) /\ Owner(u, x) = Owner(u, r)
    BY <1>2 DEF OwnPositions, FrozenSlot, Owner
<1>5. OwnPages(x) = OwnPages(r) /\ OwnSlots(x) = OwnSlots(r)
    BY ZenonT(90), <1>2, <1>4 DEF OwnPages, OwnSlots
<1>6. Lengths(x)
    <2>1. r.cached \in Nat
        BY <1>1 DEF ReqType
    <2>2. n <= r.cached /\ (n # 0 => Len(r.handle) <= n)
        BY <1>1, <1>2, <2>1 DEF Lengths
    <2> QED BY <1>1, <1>2, <2>2 DEF Lengths, InPrompt, Sampling
<1>7. Apart(x) /\ Wrote(u, x, k, st)
    <2>1. Apart(x)
        BY <1>1, <1>2, <1>4 DEF Apart
    <2>2. Wrote(u, x, k, st)
        BY ZenonT(90), <1>1, <1>2, <1>4 DEF Wrote
    <2> QED BY <2>1, <2>2
<1>8. Shared(c, x)
    BY <1>1, <1>2 DEF Shared
<1>9. Fits(u, x, c, k, st)
    BY <1>3, <1>6, <1>7, <1>8 DEF Fits
<1>10. /\ Handles(q) = Owning(Handles(q), u, x.handle) /\ PagesOf(q) = Owning(PagesOf(q), u, OwnPages(x))
       /\ SlotsOf(q) = Owning(SlotsOf(q), u, OwnSlots(x))
    BY <1>2, <1>5 DEF Handles, PagesOf, SlotsOf, Owning, r
<1>11. TreeWrote(c, k, st)
    BY DEF AllInv, TreeWrote, Keys, Snapshots
<1>12. After(h, k, st, q, u, x, c, fp, fs, k, st)
    BY <1>9, <1>10, <1>11 DEF After, AllInv
<1> QED BY <1>12, StepIs

\* A commit of u's frozen state: the boundary t it was frozen at, the tree g that
\* takes it, the tree c whose lock has moved, and the pages others had cached.
Commits(h, fp, fs, k, st, q, u, t, g, c, dups) ==
    /\ AllInv(h, fp, fs, k, st, q) /\ u \in Req
    /\ ~q[u].image /\ q[u].phase = "decode" /\ q[u].frozen # 0 /\ q[u].frozen % PageSize = 0
    /\ t = Upto(q[u].text, q[u].frozen)
    /\ g = Donate(h, t, q[u].row, FrozenSlot(q[u]))
    /\ c = LockHybrid(MatchHybrid(UnlockHybrid(g, q[u].handle), t), t)
    /\ dups = RowPages(q[u].row, Len(q[u].handle), Len(Walk(h.tree, t)))

\* What u still owns of its row then.
Rest(r, t) == Cut(r.row, Len(t) \div PageSize, Len(r.row))

\* What it leads to, before a slot is found for u if the tree took its own.
Committed(h, fp, fs, k, st, q, u, t, g, c, dups) ==
    /\ HTree(c, Owning(Handles(q), u, t)) /\ ResumePoint(UnlockHybrid(g, q[u].handle), t) = t
    /\ c.tree.pages = g.tree.pages /\ Extends(c, h) /\ TreeWrote(c, k, st)
    /\ Pool(Page, Put(fp, dups), c.tree.pages, Owning(PagesOf(q), u, Rest(q[u], t)))
    /\ HasSnapshot(h, t) => Pool(Slot, fs, c.snap, Owning(SlotsOf(q), u, OwnSlots(q[u])))
    /\ ~HasSnapshot(h, t) =>
          Pool(Slot, fs, c.snap, Owning(SlotsOf(q), u, OwnSlots(q[u]) \ {FrozenSlot(q[u])}))
    /\ dups \subseteq Page /\ dups \subseteq There(Put(fp, dups))

LEMMA CommitsIs ==
    ASSUME NEW h, NEW fp, NEW fs, NEW k, NEW st, NEW q, NEW u, NEW t, NEW g, NEW c, NEW dups,
           Commits(h, fp, fs, k, st, q, u, t, g, c, dups)
    PROVE  Committed(h, fp, fs, k, st, q, u, t, g, c, dups)
<1> DEFINE r == q[u]  H == Handles(q)  F == FrozenSlot(r)
           P == Owning(PagesOf(q), u, Rest(r, t))
           h1 == UnlockHybrid(g, r.handle)
<1>1. /\ AllInv(h, fp, fs, k, st, q) /\ u \in Req
      /\ ~r.image /\ r.phase = "decode" /\ r.frozen # 0 /\ r.frozen % PageSize = 0
      /\ t = Upto(r.text, r.frozen) /\ g = Donate(h, t, r.row, F)
      /\ c = LockHybrid(MatchHybrid(h1, t), t)
      /\ dups = RowPages(r.row, Len(r.handle), Len(Walk(h.tree, t)))
    BY DEF Commits
<1>2. Donates(h, h, H, fp, fs, u, q, r.handle, OwnSlots(r), k, st, r.frozen, F)
    BY <1>1, FrozenGiven
<1>3. DOMAIN H = Req /\ H[u] = r.handle
    BY <1>1 DEF Handles
<1>4. /\ HasSnapshot(h, t) => Mid(g, H, Put(fp, dups), fs, u, q, t, OwnSlots(r), k, st)
      /\ ~HasSnapshot(h, t) => Mid(g, H, Put(fp, dups), fs, u, q, t, OwnSlots(r) \ {F}, k, st)
      /\ Extends(g, h) /\ t \in Snapshots(g)
      /\ dups \subseteq Page /\ dups \subseteq There(Put(fp, dups))
    <2> DEFINE tt == Upto(r.text, r.frozen)
               cc == Donate(h, tt, r.row, F)
               dd == RowPages(r.row, Len(r.handle), Len(Walk(h.tree, tt)))
    <2>1. HasSnapshot(h, tt) => Mid(cc, H, Put(fp, dd), fs, u, q, tt, OwnSlots(r), k, st)
        BY ONLY ZenonT(90), <1>2, StageIs
    <2>2. ~HasSnapshot(h, tt) => Mid(cc, H, Put(fp, dd), fs, u, q, tt, OwnSlots(r) \ {F}, k, st)
        BY ONLY ZenonT(90), <1>2, StageIs
    <2>3. Extends(cc, h)
        BY ONLY ZenonT(90), <1>2, StageIs
    <2>4. tt \in Snapshots(cc)
        BY ONLY ZenonT(90), <1>2, StageIs
    <2>5. dd \subseteq Page /\ dd \subseteq There(Put(fp, dd))
        BY ONLY ZenonT(90), <1>2, StageIs
    <2>6. tt = t /\ cc = g /\ dd = dups
        BY <1>1
    <2> HIDE DEF tt, cc, dd, r, F, H
    <2> QED BY <2>1, <2>2, <2>3, <2>4, <2>5, <2>6
<1>5. t \in Seq(Token)
    <2>1. r \in ReqType /\ Lengths(r)
        BY <1>1, FitsIs
    <2>2. r.frozen \in Nat /\ r.frozen <= r.cached
        BY <2>1 DEF ReqType, Lengths
    <2> QED BY <1>1, <2>1, <2>2, TextIs
<1> HIDE DEF r, H, F, P
<1>6. HTree(g, H) /\ TreeWrote(g, k, st) /\ Pool(Page, Put(fp, dups), g.tree.pages, P)
    <2>1. CASE HasSnapshot(h, t)
        BY <1>4, <2>1 DEF Mid, P, r, Rest
    <2>2. CASE ~HasSnapshot(h, t)
        BY <1>4, <2>2 DEF Mid, P, r, Rest
    <2> QED BY <2>1, <2>2
<1>7. /\ HasSnapshot(h, t) => Pool(Slot, fs, g.snap, Owning(SlotsOf(q), u, OwnSlots(r)))
      /\ ~HasSnapshot(h, t) => Pool(Slot, fs, g.snap, Owning(SlotsOf(q), u, OwnSlots(r) \ {F}))
    BY <1>4 DEF Mid
<1>8. /\ HTree(h1, [H EXCEPT ![u] = <<>>]) /\ h1.snap = g.snap /\ h1.tree.pages = g.tree.pages
    <2>1. LET w == UnlockHybrid(g, H[u])
          IN  HTree(w, [H EXCEPT ![u] = <<>>]) /\ w.snap = g.snap /\ w.tree.pages = g.tree.pages
        <3>1. HTree(g, H) /\ u \in DOMAIN H
            BY <1>1, <1>3, <1>6
        <3> QED BY ONLY <3>1, UnlockHybridIs
    <2> QED BY <1>3, <2>1
<1> HIDE DEF h1
<1>9. ResumePoint(h1, t) = t /\ t \in Snapshots(h1)
    <2>1. t \in Snapshots(h1)
        BY <1>4, <1>8 DEF Snapshots
    <2> QED BY <1>5, <1>8, <2>1, ResumePointIs
<1> DEFINE m == MatchHybrid(h1, t)
<1>10. HTree(m, [H EXCEPT ![u] = <<>>]) /\ m.snap = h1.snap /\ m.tree.pages = h1.tree.pages
    BY <1>5, <1>8, MatchHybridIs
<1>11. c = LockHybrid(m, t)
    BY <1>1
<1> HIDE DEF m
<1>12. t \in Snapshots(m)
    BY <1>9, <1>10 DEF Snapshots
<1> DEFINE G == [H EXCEPT ![u] = <<>>]
<1>13. u \in DOMAIN G /\ G[u] = <<>> /\ [G EXCEPT ![u] = t] = Owning(H, u, t)
    BY Zenon, <1>1, <1>3 DEF Owning
<1>14. HTree(m, G)
    BY <1>10
<1> HIDE DEF G
<1>15. HTree(c, Owning(H, u, t)) /\ c.snap = m.snap /\ c.tree.pages = m.tree.pages
    BY <1>11, <1>12, <1>13, <1>14, LockHybridIs
<1>16. c.snap = g.snap /\ c.tree.pages = g.tree.pages
    BY <1>8, <1>10, <1>15
<1>17. Extends(c, h) /\ TreeWrote(c, k, st)
    BY <1>4, <1>6, <1>16 DEF Extends, TreeWrote, Keys, Snapshots
<1> QED BY <1>4, <1>6, <1>7, <1>9, <1>15, <1>16, <1>17 DEF Committed, r, H, F, P, h1

\* Someone else's snapshot is there already: u keeps its frozen slot.
Keeps(h, fp, fs, k, st, q, u, t, g, c, dups, x) ==
    /\ Commits(h, fp, fs, k, st, q, u, t, g, c, dups) /\ HasSnapshot(h, t)
    /\ x = [q[u] EXCEPT !.handle = t, !.frozen = 0,
                        !.row = Repoint(q[u], c, t, Walk(h.tree, t))]

LEMMA CommitKeeps ==
    ASSUME NEW h, NEW fp, NEW fs, NEW k, NEW st, NEW q, NEW u, NEW t, NEW g, NEW c, NEW dups, NEW x,
           Keeps(h, fp, fs, k, st, q, u, t, g, c, dups, x)
    PROVE  AllInv(c, Put(fp, dups), fs, Erase(k, dups), Erase(st, {}), [q EXCEPT ![u] = x])
<1> DEFINE r == q[u]  H == Handles(q)  own == Rest(r, t)
           P == Owning(PagesOf(q), u, own)  Q == Owning(SlotsOf(q), u, OwnSlots(r))
           kk == Erase(k, dups)  ss == Erase(st, {})
<1>0. /\ Commits(h, fp, fs, k, st, q, u, t, g, c, dups) /\ HasSnapshot(h, t)
      /\ x = [q[u] EXCEPT !.handle = t, !.frozen = 0,
                          !.row = Repoint(q[u], c, t, Walk(h.tree, t))]
    BY DEF Keeps
<1>1. AllInv(h, fp, fs, k, st, q) /\ u \in Req
    BY <1>0 DEF Commits
<1>2. r \in ReqType /\ Apart(r) /\ r.phase # "new" /\ OwnSlots(r) = {r.live, r.track[1], r.track[2]}
    <2>1. r \in ReqType /\ Apart(r)
        BY <1>1, FitsIs
    <2> QED BY <1>0, <2>1 DEF Commits, OwnSlots
<1>3. /\ HTree(c, Owning(H, u, t)) /\ c.tree.pages = g.tree.pages /\ Extends(c, h)
      /\ TreeWrote(c, k, st) /\ Pool(Page, Put(fp, dups), c.tree.pages, P)
      /\ Pool(Slot, fs, c.snap, Q) /\ dups \subseteq Page /\ dups \subseteq There(Put(fp, dups))
    <2>1. Committed(h, fp, fs, k, st, q, u, t, g, c, dups)
        BY ONLY <1>0, CommitsIs
    <2> QED BY <1>0, <2>1 DEF Committed
<1>4. DOMAIN k = Page /\ DOMAIN st = Slot
    BY <1>1 DEF AllInv
<1>5. /\ P[u] = own /\ \A v \in Req \ {u} : P[v] = OwnPages(q[v])
      /\ Q[u] = OwnSlots(r) /\ \A v \in Req \ {u} : Q[v] = OwnSlots(q[v])
    BY <1>1 DEF Owning, PagesOf, SlotsOf
<1> HIDE DEF r, H, own, P, Q, kk, ss
<1>6. /\ DOMAIN kk = Page /\ \A j \in Keys(c.tree) : kk[c.tree.pages[j]] = k[c.tree.pages[j]]
      /\ \A v \in Req : \A p \in P[v] : kk[p] = k[p]
    <2> DEFINE f == c.tree.pages
    <2>1. dups \in SUBSET There(Put(fp, dups)) /\ Pool(Page, Put(fp, dups), f, P) /\ IsFiniteSet(Page)
        BY <1>3, PoolsFinite
    <2> HIDE DEF f
    <2>2. Same(Page, f, P, k, Erase(k, dups))
        BY ONLY <1>4, <2>1, ErasedIs
    <2> QED BY <2>2 DEF Same, kk, Keys, f
<1>7. /\ DOMAIN ss = Slot /\ \A e \in Snapshots(c) : ss[c.snap[e]] = st[c.snap[e]]
      /\ \A v \in Req : \A s \in Q[v] : ss[s] = st[s]
    <2> DEFINE f == c.snap  F == {}
    <2>1. F \in SUBSET There(fs) /\ Pool(Slot, fs, f, Q) /\ IsFiniteSet(Slot)
        BY <1>3, PoolsFinite
    <2> HIDE DEF f, F
    <2>2. Same(Slot, f, Q, st, Erase(st, F))
        BY ONLY <1>4, <2>1, ErasedIs
    <2> QED BY <2>2 DEF Same, ss, Snapshots, f, F
<1>8. TreeWrote(c, kk, ss)
    BY ZenonT(90), <1>3, <1>6, <1>7 DEF TreeWrote
<1>9. Moves(h, k, st, q, u, t, g, c, c, kk, ss, r.track, x)
    <2>1. /\ u \in Req /\ ~r.image /\ r.phase = "decode"
          /\ r.frozen # 0 /\ r.frozen % PageSize = 0 /\ t = Upto(r.text, r.frozen)
          /\ g = Donate(h, t, r.row, FrozenSlot(r))
        BY <1>0 DEF Commits, r
    <2>2. Range(g.tree.pages) \subseteq Page
        BY <1>3 DEF Pool
    <2>3. \A p \in own : kk[p] = k[p]
        BY <1>1, <1>5, <1>6
    <2>4. ss[r.live] = st[r.live]
        BY <1>1, <1>2, <1>5, <1>7
    <2>5. r.track \in [1..2 -> Nat] /\ r.track[1] # r.track[2] /\ r.live # r.track[1] /\ r.live # r.track[2]
        BY <1>2 DEF ReqType, Apart
    <2>6. x = [r EXCEPT !.handle = t, !.frozen = 0, !.track = r.track,
                        !.row = Repoint(r, c, t, Walk(h.tree, t))]
        <3> DEFINE w == Repoint(r, c, t, Walk(h.tree, t))
        <3>1. x = [r EXCEPT !.handle = t, !.frozen = 0, !.row = w]
            BY <1>0 DEF r
        <3> HIDE DEF w
        <3>2. [r EXCEPT !.handle = t, !.frozen = 0, !.track = r.track, !.row = w]
                = [r EXCEPT !.handle = t, !.frozen = 0, !.row = w]
            BY <1>2 DEF ReqType
        <3> QED BY <3>1, <3>2 DEF w
    <2>7. \A j \in Keys(c.tree) : c.tree.pages[j] = g.tree.pages[j]
        BY <1>3
    <2> QED BY <1>3, <2>1, <2>2, <2>3, <2>4, <2>5, <2>6, <2>7 DEF Moves, r, H, own, Rest
<1>10. Fits(u, x, c, kk, ss) /\ x.handle = t /\ OwnPages(x) = own /\ OwnSlots(x) = OwnSlots(r)
    <2>1. Fits(u, x, c, kk, ss) /\ x.handle = t
        BY <1>1, <1>9, MovedIs
    <2>2. OwnPages(x) = own /\ OwnSlots(x) = {r.live, r.track[1], r.track[2]}
        BY <1>1, <1>9, MovedIs DEF own, r, Rest
    <2> QED BY <1>2, <2>1, <2>2
<1>11. After(h, k, st, q, u, x, c, Put(fp, dups), fs, kk, ss)
    <2>1. /\ \A j \in Keys(h.tree) \cap Keys(c.tree) : c.tree.pages[j] = h.tree.pages[j]
          /\ \A e \in Snapshots(h) \cap Snapshots(c) : c.snap[e] = h.snap[e]
        BY <1>3 DEF Extends
    <2>2. \A v \in Req \ {u} : /\ \A p \in OwnPages(q[v]) : kk[p] = k[p]
                               /\ \A s \in OwnSlots(q[v]) : ss[s] = st[s]
        BY <1>5, <1>6, <1>7
    <2>3. /\ HTree(c, Owning(Handles(q), u, x.handle))
          /\ Pool(Page, Put(fp, dups), c.tree.pages, Owning(PagesOf(q), u, OwnPages(x)))
          /\ Pool(Slot, fs, c.snap, Owning(SlotsOf(q), u, OwnSlots(x)))
        BY <1>3, <1>10 DEF P, Q, H
    <2> QED BY <1>1, <1>6, <1>7, <1>8, <1>10, <2>1, <2>2, <2>3 DEF After
<1> QED BY <1>1, <1>11, StepIs DEF kk, ss

\* The tree took u's slot: u gets another, for which the snapshots of S go.
Replaces(h, c, fs, q, u, t, S, list, new, x) ==
    /\ ~HasSnapshot(h, t) /\ S \in SUBSET Idle(c)
    /\ list = Put(fs, FreedSlots(c, S)) /\ new \in There(list)
    /\ x = [q[u] EXCEPT !.handle = t, !.frozen = 0, !.track[3 - q[u].next] = new,
                        !.row = Repoint(q[u], c, t, Walk(h.tree, t))]

LEMMA CommitTakes ==
    ASSUME NEW h, NEW fp, NEW fs, NEW k, NEW st, NEW q, NEW u, NEW t, NEW g, NEW c, NEW dups,
           Commits(h, fp, fs, k, st, q, u, t, g, c, dups),
           NEW S, NEW list, NEW new, NEW x, Replaces(h, c, fs, q, u, t, S, list, new, x)
    PROVE  AllInv(WithoutSnapshots(c, S), Put(Put(fp, dups), FreedPages(c, S)), Take(list, <<new>>),
                  Erase(k, FreedPages(c, S) \cup dups), Erase(st, FreedSlots(c, S)),
                  [q EXCEPT ![u] = x])
<1> DEFINE r == q[u]  H == Handles(q)  own == Rest(r, t)  F == FrozenSlot(r)
           P == Owning(PagesOf(q), u, own)  Q == Owning(SlotsOf(q), u, OwnSlots(r) \ {F})
           w == WithoutSnapshots(c, S)  FP == FreedPages(c, S)  FS == FreedSlots(c, S)
           gone == FP \cup dups  gp == Put(Put(fp, dups), FP)  gs == Take(list, <<new>>)
           kk == Erase(k, gone)  ss == Erase(st, FS)
           tr == [r.track EXCEPT ![3 - r.next] = new]
<1> /\ ~HasSnapshot(h, t) /\ S \in SUBSET Idle(c)
    /\ list = Put(fs, FreedSlots(c, S)) /\ new \in There(list)
    /\ x = [q[u] EXCEPT !.handle = t, !.frozen = 0, !.track[3 - q[u].next] = new,
                        !.row = Repoint(q[u], c, t, Walk(h.tree, t))]
    BY DEF Replaces
<1>1. AllInv(h, fp, fs, k, st, q) /\ u \in Req
    BY ZenonT(60) DEF Commits
<1>2. /\ r \in ReqType /\ Apart(r) /\ r.phase # "new" /\ OwnSlots(r) = {r.live, r.track[1], r.track[2]}
      /\ r.next \in {1, 2} /\ r.track \in [1..2 -> Nat]
    <2>1. r \in ReqType /\ Apart(r)
        BY <1>1, FitsIs
    <2> QED BY Zenon, <2>1 DEF Commits, OwnSlots, ReqType
<1>3. /\ HTree(c, Owning(H, u, t)) /\ c.tree.pages = g.tree.pages /\ Extends(c, h)
      /\ TreeWrote(c, k, st) /\ Pool(Page, Put(fp, dups), c.tree.pages, P)
      /\ Pool(Slot, fs, c.snap, Q) /\ dups \subseteq Page /\ dups \subseteq There(Put(fp, dups))
    <2>1. Committed(h, fp, fs, k, st, q, u, t, g, c, dups)
        BY CommitsIs
    <2> QED BY <2>1 DEF Committed
<1>4. DOMAIN k = Page /\ DOMAIN st = Slot
    BY <1>1 DEF AllInv
<1>5. /\ P[u] = own /\ \A v \in Req \ {u} : P[v] = OwnPages(q[v])
      /\ Q[u] = OwnSlots(r) \ {F} /\ \A v \in Req \ {u} : Q[v] = OwnSlots(q[v])
      /\ DOMAIN Q = Req
    BY <1>1 DEF Owning, PagesOf, SlotsOf
<1> HIDE DEF r, H, own, F, P, Q, w, FP, FS, gone, gp, gs, kk, ss, tr
<1>6. /\ Pool(Page, gp, w.tree.pages, P) /\ Pool(Slot, list, w.snap, Q)
      /\ FP \subseteq Page /\ FS \subseteq Slot /\ TreeWrote(w, k, st)
    <2> DEFINE G == Owning(H, u, t)  fq == Put(fp, dups)
    <2>1. HTree(c, G) /\ Pool(Page, fq, c.tree.pages, P)
        BY <1>3
    <2> HIDE DEF G, fq
    <2>2. Pool(Page, Put(fq, FreedPages(c, S)), WithoutSnapshots(c, S).tree.pages, P)
        BY <1>3, <2>1, EvictPools
    <2>3. Pool(Slot, Put(fs, FreedSlots(c, S)), WithoutSnapshots(c, S).snap, Q)
        BY <1>3, <2>1, EvictPools
    <2>4. FreedPages(c, S) \subseteq Page /\ FreedSlots(c, S) \subseteq Slot
        BY <1>3, <2>1, EvictPools
    <2>5. TreeWrote(WithoutSnapshots(c, S), k, st)
        BY <1>3, <2>1, EvictPools
    <2> QED BY <2>2, <2>3, <2>4, <2>5 DEF gp, w, FP, FS, fq
<1>7. /\ HTree(w, Owning(H, u, t))
      /\ \A j \in Keys(w.tree) : w.tree.pages[j] = c.tree.pages[j] /\ j \in Keys(c.tree)
      /\ \A e \in Snapshots(w) : w.snap[e] = c.snap[e] /\ e \in Snapshots(c)
    <2> DEFINE G == Owning(H, u, t)
    <2>1. HTree(c, G)
        BY <1>3
    <2> HIDE DEF G
    <2>2. /\ HTree(w, G) /\ Keys(w.tree) = Keys(c.tree) \ FreedKeys(c, S)
          /\ \A j \in Keys(w.tree) : w.tree.pages[j] = c.tree.pages[j]
          /\ Snapshots(w) = Snapshots(c) \ S
          /\ \A e \in Snapshots(w) : w.snap[e] = c.snap[e]
        BY <2>1, WithoutIs DEF w
    <2> QED BY <2>2 DEF G
<1>8. /\ new \in Slot /\ \A v \in Req : new \notin Q[v]
      /\ Pool(Slot, gs, w.snap, [Q EXCEPT ![u] = @ \cup {new}])
    <2>1. There(list) = {y \in Slot : list[y] > 0} /\ There(list) \subseteq Slot
        BY <1>6, PoolList, PoolsFinite
    <2>2. Range(<<new>>) = {new}
        BY DEF Range
    <2> DEFINE N == {new}  s == <<new>>
    <2>3. N \in SUBSET {y \in Slot : list[y] > 0} /\ Range(s) = N
        BY <2>1, <2>2
    <2> HIDE DEF N, s
    <2>4. Pool(Slot, Take(list, s), w.snap, [Q EXCEPT ![u] = @ \cup N])
        BY <1>1, <1>6, <2>3, PoolTaken
    <2>5. \A v \in Req : N \cap Q[v] = {}
        BY ZenonT(90), <1>1, <1>6, <2>3, PoolTaken
    <2> QED BY <2>1, <2>4, <2>5 DEF N, s, gs
<1>9. /\ tr \in [1..2 -> Nat] /\ tr[1] # tr[2] /\ r.live # tr[1] /\ r.live # tr[2]
      /\ {r.live, tr[1], tr[2]} = Q[u] \cup {new} /\ r.live \in Q[u]
    <2>1. new \in Nat /\ new \notin Q[u]
        BY <1>1, <1>8, PoolsFinite
    <2>2. r.live # r.track[1] /\ r.live # r.track[2] /\ r.track[1] # r.track[2]
        BY <1>2 DEF Apart
    <2>3. CASE r.next = 1
        <3>1. F = r.track[2] /\ tr = [r.track EXCEPT ![2] = new]
            BY <2>3 DEF F, FrozenSlot, tr
        <3>2. Q[u] = {r.live, r.track[1]}
            BY <1>2, <1>5, <2>2, <3>1
        <3>3. tr[1] = r.track[1] /\ tr[2] = new /\ tr \in [1..2 -> Nat]
            BY <1>2, <2>1, <3>1
        <3> QED BY <2>1, <2>2, <3>2, <3>3
    <2>4. CASE r.next = 2
        <3>1. F = r.track[1] /\ tr = [r.track EXCEPT ![1] = new]
            BY <2>4 DEF F, FrozenSlot, tr
        <3>2. Q[u] = {r.live, r.track[2]}
            BY <1>2, <1>5, <2>2, <3>1
        <3>3. tr[2] = r.track[2] /\ tr[1] = new /\ tr \in [1..2 -> Nat]
            BY <1>2, <2>1, <3>1
        <3> QED BY <2>1, <2>2, <3>2, <3>3
    <2> QED BY <1>2, <2>3, <2>4
<1>10. /\ DOMAIN kk = Page /\ \A j \in Keys(w.tree) : kk[w.tree.pages[j]] = k[w.tree.pages[j]]
       /\ \A v \in Req : \A p \in P[v] : kk[p] = k[p]
    <2>1. FP \subseteq There(gp) /\ There(Put(fp, dups)) \subseteq There(gp)
        BY <1>3, <1>6, PutThere DEF gp
    <2> DEFINE f == w.tree.pages
    <2>2. gone \in SUBSET There(gp) /\ Pool(Page, gp, f, P) /\ IsFiniteSet(Page)
        BY <1>3, <1>6, <2>1, PoolsFinite DEF gone
    <2> HIDE DEF f
    <2>3. Same(Page, f, P, k, Erase(k, gone))
        BY ONLY <1>4, <2>2, ErasedIs
    <2> QED BY <2>3 DEF Same, kk, Keys, f
<1>11. /\ DOMAIN ss = Slot /\ \A e \in Snapshots(w) : ss[w.snap[e]] = st[w.snap[e]]
       /\ \A v \in Req : \A s \in Q[v] : ss[s] = st[s]
    <2>1. FS \subseteq There(list)
        BY <1>3, <1>6, PutThere DEF FS
    <2> DEFINE f == w.snap
    <2>2. FS \in SUBSET There(list) /\ Pool(Slot, list, f, Q) /\ IsFiniteSet(Slot)
        BY <1>6, <2>1, PoolsFinite
    <2> HIDE DEF f
    <2>3. Same(Slot, f, Q, st, Erase(st, FS))
        BY ONLY <1>4, <2>2, ErasedIs
    <2> QED BY <2>3 DEF Same, ss, Snapshots, f
<1>12. TreeWrote(w, kk, ss)
    BY ZenonT(90), <1>6, <1>10, <1>11 DEF TreeWrote
<1>13. Moves(h, k, st, q, u, t, g, c, w, kk, ss, tr, x)
    <2>1. /\ u \in Req /\ ~r.image /\ r.phase = "decode"
          /\ r.frozen # 0 /\ r.frozen % PageSize = 0 /\ t = Upto(r.text, r.frozen)
          /\ g = Donate(h, t, r.row, FrozenSlot(r))
        BY DEF Commits, r
    <2>2. Range(g.tree.pages) \subseteq Page
        BY <1>3 DEF Pool
    <2>3. \A p \in own : kk[p] = k[p]
        BY <1>1, <1>5, <1>10
    <2>4. ss[r.live] = st[r.live]
        BY <1>1, <1>9, <1>11
    <2>5. x = [r EXCEPT !.handle = t, !.frozen = 0, !.track = tr,
                        !.row = Repoint(r, c, t, Walk(h.tree, t))]
        <3> DEFINE y == Repoint(r, c, t, Walk(h.tree, t))
        <3>1. x = [r EXCEPT !.handle = t, !.frozen = 0, !.track[3 - r.next] = new, !.row = y]
            BY DEF r
        <3> HIDE DEF y
        <3>2. [r EXCEPT !.handle = t, !.frozen = 0, !.track[3 - r.next] = new, !.row = y]
                = [r EXCEPT !.handle = t, !.frozen = 0, !.track = tr, !.row = y]
            BY <1>2 DEF ReqType, tr
        <3> QED BY <3>1, <3>2 DEF y
    <2>6. \A j \in Keys(w.tree) : w.tree.pages[j] = g.tree.pages[j]
        BY <1>3, <1>7
    <2> QED BY Zenon, <1>3, <1>7, <1>9, <2>1, <2>2, <2>3, <2>4, <2>5, <2>6 DEF Moves, r, H, own, Rest
<1>14. Fits(u, x, w, kk, ss) /\ x.handle = t /\ OwnPages(x) = own /\ OwnSlots(x) = Q[u] \cup {new}
    <2>1. Fits(u, x, w, kk, ss) /\ x.handle = t
        BY <1>1, <1>13, MovedIs
    <2>2. OwnPages(x) = own /\ OwnSlots(x) = {r.live, tr[1], tr[2]}
        BY <1>1, <1>13, MovedIs DEF own, r, Rest
    <2> QED BY <1>9, <2>1, <2>2
<1>15. After(h, k, st, q, u, x, w, gp, gs, kk, ss)
    <2>1. /\ \A j \in Keys(h.tree) \cap Keys(w.tree) : w.tree.pages[j] = h.tree.pages[j]
          /\ \A e \in Snapshots(h) \cap Snapshots(w) : w.snap[e] = h.snap[e]
        BY <1>3, <1>7 DEF Extends
    <2>2. \A v \in Req \ {u} : /\ \A p \in OwnPages(q[v]) : kk[p] = k[p]
                               /\ \A s \in OwnSlots(q[v]) : ss[s] = st[s]
        BY <1>5, <1>10, <1>11
    <2>3. [Q EXCEPT ![u] = @ \cup {new}] = Owning(SlotsOf(q), u, OwnSlots(x))
        BY <1>14 DEF Q, Owning
    <2>4. /\ HTree(w, Owning(Handles(q), u, x.handle))
          /\ Pool(Page, gp, w.tree.pages, Owning(PagesOf(q), u, OwnPages(x)))
          /\ Pool(Slot, gs, w.snap, Owning(SlotsOf(q), u, OwnSlots(x)))
        BY <1>6, <1>7, <1>8, <1>14, <2>3 DEF P, H
    <2> QED BY <1>1, <1>10, <1>11, <1>12, <1>14, <2>1, <2>2, <2>4 DEF After
<1>16. AllInv(w, gp, gs, kk, ss, [q EXCEPT ![u] = x])
    BY ONLY <1>1, <1>15, StepIs
<1> QED BY <1>16 DEF w, gp, gs, kk, ss, gone, FP, FS

\* The prompt's end: what the scheduler commits, if anything.
LEMMA CommitStep ==
    ASSUME HybridInv, NEW u \in Req, NEW r,
           AllInv(cache, freePages, freeSlots, kv, state, [req EXCEPT ![u] = r]),
           r.phase = "decode", Commit(u, r)
    PROVE  HybridInv'
<1> DEFINE q == [req EXCEPT ![u] = r]
<1>1. /\ AllInv(cache, freePages, freeSlots, kv, state, q) /\ q[u] = r
      /\ \A x : [q EXCEPT ![u] = x] = [req EXCEPT ![u] = x]
    BY DEF HybridInv, AllInv
<1> HIDE DEF q
<1>2. /\ HTree(cache, Handles(q)) /\ r \in ReqType /\ Lengths(r) /\ Handles(q)[u] = r.handle
      /\ DOMAIN Handles(q) = Req
    BY <1>1, FitsIs
<1>3. CASE r.image \/ r.frozen = 0 \/ ~Aligned(r.frozen)
    <2> DEFINE n == IF r.image THEN r.frozen ELSE 0
               x == [r EXCEPT !.frozen = n]
               c == IF r.image THEN UnlockHybrid(cache, r.handle) ELSE cache
    <2>1. /\ cache' = c /\ req' = [req EXCEPT ![u] = x]
          /\ UNCHANGED <<freePages, freeSlots, kv, state>>
        BY Zenon, <1>3 DEF Commit
    <2>2. HTree(c, Handles(q)) /\ c.snap = cache.snap /\ c.tree.pages = cache.tree.pages
        <3>1. CASE r.image
            <4>1. r.handle = <<>>
                BY <1>2, <3>1 DEF Lengths
            <4>2. LET g == UnlockHybrid(cache, Handles(q)[u])
                  IN  /\ HTree(g, [Handles(q) EXCEPT ![u] = <<>>]) /\ g.snap = cache.snap
                      /\ g.tree.pages = cache.tree.pages
                BY ONLY <1>2, u \in Req, UnlockHybridIs
            <4>3. [Handles(q) EXCEPT ![u] = <<>>] = Handles(q)
                BY <1>2, <4>1 DEF Handles
            <4> QED BY <1>2, <3>1, <4>2, <4>3
        <3>2. CASE ~r.image
            BY <1>2, <3>2
        <3> QED BY <3>1, <3>2
    <2>3. n \in {0, r.frozen} /\ x = [q[u] EXCEPT !.frozen = n] /\ q[u].phase = "decode"
        BY <1>1
    <2> HIDE DEF n, x, c
    <2>4. AllInv(c, freePages, freeSlots, kv, state, [q EXCEPT ![u] = x])
        BY <1>1, <2>2, <2>3, KeptIs
    <2> QED BY <1>1, <2>1, <2>4 DEF HybridInv
<1>4. CASE ~(r.image \/ r.frozen = 0 \/ ~Aligned(r.frozen))
    <2> DEFINE t == Upto(r.text, r.frozen)
               hit == Walk(cache.tree, t)
               g == Donate(cache, t, r.row, FrozenSlot(r))
               h1 == UnlockHybrid(g, r.handle)
               c == LockHybrid(MatchHybrid(h1, t), t)
               dups == RowPages(r.row, Len(r.handle), Len(hit))
               moved == [r EXCEPT !.handle = t, !.frozen = 0, !.row = Repoint(r, c, t, hit)]
    <2>1. ~r.image /\ r.frozen # 0 /\ r.frozen % PageSize = 0
        <3>1. r.frozen \in Nat /\ AlignDown(r.frozen) = r.frozen
            BY <1>2, <1>4 DEF ReqType, Aligned
        <3> QED BY <1>4, <3>1, PagesIs
    <2>2. Commits(cache, freePages, freeSlots, kv, state, q, u, t, g, c, dups)
        BY <1>1, <2>1 DEF Commits
    <2>3. ResumePoint(h1, t) = t
        <3> HIDE DEF c, dups, g, t
        <3>1. Committed(cache, freePages, freeSlots, kv, state, q, u, t, g, c, dups)
            BY ONLY <2>2, CommitsIs
        <3> QED BY <1>1, <3>1 DEF Committed
    <2>4. Secured(MatchHybrid(h1, t), ResumePoint(h1, t)) = c
        BY <2>3 DEF Secured
    <2>5. CASE HasSnapshot(cache, t)
        <3>1. cache' = c /\ FreeBoth({}, dups, {}) /\ req' = [req EXCEPT ![u] = moved]
            BY <1>4, <2>3, <2>4, <2>5 DEF Commit
        <3>2. moved = [q[u] EXCEPT !.handle = t, !.frozen = 0,
                                   !.row = Repoint(q[u], c, t, Walk(cache.tree, t))]
            BY <1>1
        <3> HIDE DEF c, dups, g, t, moved
        <3>3. AllInv(c, Put(freePages, dups), freeSlots, Erase(kv, dups), Erase(state, {}),
                     [q EXCEPT ![u] = moved])
            <4>1. Keeps(cache, freePages, freeSlots, kv, state, q, u, t, g, c, dups, moved)
                BY ONLY <2>2, <2>5, <3>2 DEF Keeps
            <4> QED BY ONLY <4>1, CommitKeeps
        <3>4. Put(freePages, {}) = freePages /\ Put(freeSlots, {}) = freeSlots
            BY <1>1, PutNothing DEF AllInv
        <3>5. {} \cup dups = dups
            OBVIOUS
        <3>6. /\ freePages' = Put(freePages, dups) /\ freeSlots' = freeSlots
              /\ kv' = Erase(kv, dups) /\ state' = Erase(state, {})
            BY <3>1, <3>4, <3>5 DEF FreeBoth
        <3> QED BY <1>1, <3>1, <3>3, <3>6 DEF HybridInv
    <2>6. CASE ~HasSnapshot(cache, t)
        <3> DEFINE after(S) == Put(freeSlots, FreedSlots(c, S))
                   new(S) == Lowest(after(S), 1)[1]
        <3>1. PICK S \in Evictable(c, 1) :
                 IF Count(after(S)) = 0
                 THEN UNCHANGED <<cache, freePages, freeSlots, kv, state, req>>
                 ELSE /\ cache' = WithoutSnapshots(c, S)
                      /\ freePages' = Put(Put(freePages, dups), FreedPages(c, S))
                      /\ kv' = Erase(kv, FreedPages(c, S) \cup dups)
                      /\ freeSlots' = Take(after(S), <<new(S)>>)
                      /\ state' = Erase(state, FreedSlots(c, S))
                      /\ req' = [req EXCEPT ![u] = [moved EXCEPT !.track[3 - r.next] = new(S)]]
            BY ZenonT(90), <1>4, <2>3, <2>4, <2>6 DEF Commit, SlotsBack
        <3>2. CASE Count(after(S)) = 0
            <4>1. UNCHANGED <<cache, freePages, freeSlots, kv, state, req>>
                BY <3>1, <3>2
            <4> QED BY <4>1 DEF HybridInv
        <3>3. CASE Count(after(S)) # 0
            <4> DEFINE x == [moved EXCEPT !.track[3 - r.next] = new(S)]
                       list == after(S)  one == Lowest(list, 1)
            <4>1. S \in SUBSET Idle(c)
                BY <3>1, EvictableIs
            <4>2. x = [q[u] EXCEPT !.handle = t, !.frozen = 0, !.track[3 - q[u].next] = new(S),
                                   !.row = Repoint(q[u], c, t, Walk(cache.tree, t))]
                <5> DEFINE y == Repoint(r, c, t, hit)  e == new(S)
                <5> HIDE DEF y, e, t
                <5>1. [[r EXCEPT !.handle = t, !.frozen = 0, !.row = y] EXCEPT !.track[3 - r.next] = e]
                        = [r EXCEPT !.handle = t, !.frozen = 0, !.track[3 - r.next] = e, !.row = y]
                    BY <1>2 DEF ReqType
                <5> QED BY <1>1, <5>1 DEF y, e
            <4>3. /\ cache' = WithoutSnapshots(c, S)
                  /\ freePages' = Put(Put(freePages, dups), FreedPages(c, S))
                  /\ kv' = Erase(kv, FreedPages(c, S) \cup dups)
                  /\ freeSlots' = Take(list, <<new(S)>>) /\ state' = Erase(state, FreedSlots(c, S))
                  /\ req' = [req EXCEPT ![u] = x]
                BY <3>1, <3>3
            <4> HIDE DEF c, dups, g, t, moved, x
            <4>4. \E H, Q : HTree(c, H) /\ Pool(Slot, freeSlots, c.snap, Q)
                <5>1. Committed(cache, freePages, freeSlots, kv, state, q, u, t, g, c, dups)
                    BY ONLY <2>2, CommitsIs
                <5> QED BY <2>6, <5>1 DEF Committed
            <4>5. PICK H, Q : HTree(c, H) /\ Pool(Slot, freeSlots, c.snap, Q)
                BY <4>4
            <4>6. DOMAIN list = Slot /\ IsFiniteSet(DOMAIN list) /\ \A s \in Slot : list[s] \in {0, 1}
                <5> DEFINE f == WithoutSnapshots(c, S).snap
                <5>1. /\ Snapshots(WithoutSnapshots(c, S)) = Snapshots(c) \ S
                      /\ \A e \in Snapshots(WithoutSnapshots(c, S)) : f[e] = c.snap[e]
                      /\ FreedSlots(c, S) = {c.snap[e] : e \in S}
                    BY <4>1, <4>5, WithoutIs
                <5>2. S \subseteq DOMAIN c.snap
                    BY <4>1 DEF Idle, Snapshots
                <5>3. DOMAIN f = DOMAIN c.snap \ S /\ \A e \in DOMAIN f : f[e] = c.snap[e]
                    BY <5>1 DEF Snapshots
                <5> HIDE DEF f
                <5>4. Pool(Slot, Put(freeSlots, FreedSlots(c, S)), f, Q)
                    BY ZenonT(90), <4>5, <5>1, <5>2, <5>3, PoolEvicted
                <5>5. IsFiniteSet(Slot)
                    BY PoolsFinite
                <5> QED BY <5>4, <5>5 DEF Pool
            <4> HIDE DEF list
            <4>7. one[1] \in There(list)
                <5>1. /\ IsFiniteSet(There(list)) /\ Count(list) = Cardinality(There(list))
                      /\ Count(list) \in Nat
                    BY <4>6, CountIs
                <5>2. Count(list) # 0
                    BY <3>3 DEF list
                <5>3. 1 \in Nat /\ 1 <= Cardinality(There(list))
                    BY <5>1, <5>2
                <5>4. DOMAIN list \subseteq Int
                    BY <4>6, PoolsFinite
                <5> QED BY <5>1, <5>3, <5>4, LowestIs
            <4>8. new(S) \in There(list) /\ list = Put(freeSlots, FreedSlots(c, S))
                BY <4>7 DEF list
            <4> DEFINE e == new(S)
            <4>9. x = [q[u] EXCEPT !.handle = t, !.frozen = 0, !.track[3 - q[u].next] = e,
                                   !.row = Repoint(q[u], c, t, Walk(cache.tree, t))]
                BY <4>2
            <4>10. e \in There(list)
                BY <4>8
            <4> HIDE DEF e
            <4>11. Replaces(cache, c, freeSlots, q, u, t, S, list, e, x)
                BY <2>6, <4>1, <4>8, <4>9, <4>10 DEF Replaces
            <4>12. AllInv(WithoutSnapshots(c, S), Put(Put(freePages, dups), FreedPages(c, S)),
                          Take(list, <<e>>), Erase(kv, FreedPages(c, S) \cup dups),
                          Erase(state, FreedSlots(c, S)), [q EXCEPT ![u] = x])
                BY ONLY <2>2, <4>11, CommitTakes
            <4> QED BY <1>1, <4>3, <4>12 DEF HybridInv, e
        <3> QED BY <3>2, <3>3
    <2> QED BY <2>5, <2>6
<1> QED BY <1>3, <1>4

\* A token is read, and its request ends, commits its prompt, or goes on.
LEMMA DrainStep ==
    ASSUME HybridInv, NEW u \in Req, Drain(u)
    PROVE  HybridInv'
<1> DEFINE r == req[u]
           n == IF r.text[r.host + 1] = Opener /\ r.anchor = 0 THEN r.host + 1 ELSE r.anchor
           x == [r EXCEPT !.host = @ + 1, !.phase = "decode", !.anchor = n]
<1>1. AllInv(cache, freePages, freeSlots, kv, state, req)
    BY DEF HybridInv
<1>2. r \in ReqType /\ Lengths(r)
    BY <1>1, FitsIs
<1>3. /\ Sampling(r) /\ r.host < Len(r.text)
      /\ \E stop \in BOOLEAN :
            IF stop \/ r.host + 1 >= MaxDeviceLen(r) THEN Release(u, r.host + 1)
            ELSE IF r.phase = "drain" THEN Commit(u, x)
            ELSE /\ req' = [req EXCEPT ![u] = x]
                 /\ UNCHANGED <<cache, freePages, freeSlots, kv, state, dead>>
    BY DEF Drain
<1>4. /\ r.host \in Nat /\ r.cached \in Nat /\ r.anchor \in Nat /\ r.cached <= r.host + 1
      /\ r.phase \notin {"new", "admitted"}
    BY <1>2, <1>3 DEF ReqType, Lengths, Sampling
<1>5. x \in ReqType /\ x.phase = "decode"
    <2>1. n \in Nat
        BY <1>4
    <2> HIDE DEF n
    <2>2. r.host + 1 \in Nat /\ "decode" \in Phases
        BY <1>4 DEF Phases
    <2> DEFINE m == r.host + 1  d == "decode"
    <2>3. m \in Nat /\ d \in Phases /\ x = [r EXCEPT !.host = m, !.phase = d, !.anchor = n]
        BY <2>2
    <2> HIDE DEF m, d, x, r
    <2>4. x \in ReqType /\ x.phase = d
        BY <1>2, <2>1, <2>3 DEF ReqType
    <2> QED BY <2>4 DEF d
<1>6. AllInv(cache, freePages, freeSlots, kv, state, [req EXCEPT ![u] = x])
    <2> HIDE DEF n
    <2>1. x = [req[u] EXCEPT !.host = @ + 1, !.phase = "decode", !.anchor = n]
        OBVIOUS
    <2> HIDE DEF x
    <2> QED BY <1>1, <1>3, <1>5, <2>1, DrainedIs
<1> HIDE DEF x
<1>7. CASE Release(u, r.host + 1)
    <2>1. r.host + 1 \in Nat /\ r.cached <= r.host + 1
        BY <1>4
    <2> QED BY <1>4, <1>7, <2>1, ReleaseStep
<1>8. CASE Commit(u, x)
    BY <1>5, <1>6, <1>8, CommitStep
<1>9. CASE /\ req' = [req EXCEPT ![u] = x]
           /\ UNCHANGED <<cache, freePages, freeSlots, kv, state, dead>>
    BY <1>6, <1>9 DEF HybridInv
<1> QED BY <1>3, <1>7, <1>8, <1>9

\* An abort finds the last token it needs read.
LEMMA AbortStep ==
    ASSUME HybridInv, NEW u \in Req, Abort(u)
    PROVE  HybridInv'
<1> DEFINE r == req[u]
<1>1. r \in ReqType /\ Lengths(r)
    BY FitsIs DEF HybridInv
<1>2. /\ r.phase \in {"prefill", "drain", "decode"} /\ Len(r.text) - r.host <= 1
      /\ Release(u, r.host)
    BY DEF Abort
<1> HIDE DEF r
<1>3. r.host \in Nat /\ r.cached \in Nat /\ Len(r.text) \in Nat
    <2>1. r.text \in Seq(Token)
        BY <1>1 DEF ReqType
    <2>2. Len(r.text) \in Nat
        BY <2>1
    <2> QED BY <1>1, <2>2 DEF ReqType
<1>4. r.cached <= r.host
    <2>1. CASE r.phase = "prefill"
        BY <1>1, <1>3, <2>1 DEF Lengths, InPrompt
    <2>2. CASE r.phase \in {"drain", "decode"}
        <3>1. Len(r.text) = r.cached + 1
            BY <1>1, <2>2 DEF Lengths, Sampling
        <3> QED BY <1>2, <1>3, <3>1
    <2> QED BY <1>2, <2>1, <2>2
<1> QED BY <1>2, <1>3, <1>4, ReleaseStep DEF r

\* The tree is another with the same keys, pages and snapshots, and the same locks.
LEMMA RetreedAll ==
    ASSUME NEW h, NEW fp, NEW fs, NEW k, NEW st, NEW q, AllInv(h, fp, fs, k, st, q),
           NEW c, HTree(c, Handles(q)), c.snap = h.snap, c.tree.pages = h.tree.pages
    PROVE  AllInv(c, fp, fs, k, st, q)
<1>1. /\ DOMAIN q = Req /\ q = [u \in Req |-> q[u]]
      /\ Pool(Page, fp, h.tree.pages, PagesOf(q)) /\ Pool(Slot, fs, h.snap, SlotsOf(q))
      /\ DOMAIN k = Page /\ DOMAIN st = Slot /\ TreeWrote(h, k, st)
      /\ \A u \in Req : Fits(u, q[u], h, k, st)
    BY DEF AllInv
<1>2. TreeWrote(c, k, st)
    BY <1>1 DEF TreeWrote, Keys, Snapshots
<1>3. \A u \in Req : Fits(u, q[u], c, k, st)
    BY <1>1 DEF Fits, Shared
<1> QED BY ONLY <1>1, <1>2, <1>3, HTree(c, Handles(q)), c.snap = h.snap, c.tree.pages = h.tree.pages DEF AllInv

\* A refused request leaves the split of its walk.
LEMMA MatchIdsIs ==
    ASSUME NEW shape \in Shapes
    PROVE  /\ MatchIds(shape) \in Seq(Token) /\ IsPrefix(MatchIds(shape), shape.prompt)
           /\ Len(MatchIds(shape)) \in Nat /\ Len(MatchIds(shape)) < Len(shape.prompt)
           /\ (shape.image => MatchIds(shape) = <<>>)
           /\ shape.prompt \in Seq(Token) /\ Len(shape.prompt) \in Nat
<1> DEFINE t == shape.prompt
<1>1. t \in Seq(Token) /\ t # <<>>
    BY ShapesAssumption
<1> HIDE DEF t
<1>2. Len(t) \in Nat \ {0}
    BY <1>1, EmptySeq
<1>3. CASE shape.image
    BY <1>1, <1>2, <1>3, EmptyPrefix DEF MatchIds, t
<1>4. CASE ~shape.image
    <2>1. Len(t) - 1 \in 0..Len(t)
        BY <1>2
    <2>2. MatchIds(shape) = Upto(t, Len(t) - 1)
        BY <1>4 DEF MatchIds, t
    <2>3. Upto(t, Len(t) - 1) \in Seq(Token) /\ Len(Upto(t, Len(t) - 1)) = Len(t) - 1
        BY <1>1, <2>1, UptoIs
    <2>4. IsPrefix(Upto(t, Len(t) - 1), t)
        BY <1>1, <2>1, UptoPrefix
    <2> QED BY <1>1, <1>2, <1>4, <2>2, <2>3, <2>4 DEF t
<1> QED BY <1>3, <1>4

LEMMA RefusedStep ==
    ASSUME HybridInv, AdmitRefused
    PROVE  HybridInv'
<1>1. PICK shape \in Shapes : cache' = MatchHybrid(cache, MatchIds(shape))
    BY DEF AdmitRefused
<1> DEFINE t == MatchIds(shape)
<1>2. t \in Seq(Token)
    BY MatchIdsIs
<1>3. HTree(cache, Handles(req))
    BY DEF HybridInv, AllInv
<1> HIDE DEF t
<1>4. LET g == MatchHybrid(cache, t)
      IN  HTree(g, Handles(req)) /\ g.snap = cache.snap /\ g.tree.pages = cache.tree.pages
    BY ONLY <1>2, <1>3, MatchHybridIs
<1>5. HTree(cache', Handles(req)) /\ cache'.snap = cache.snap /\ cache'.tree.pages = cache.tree.pages
    BY <1>1, <1>4 DEF t
<1>6. UNCHANGED <<freePages, freeSlots, kv, state, req>>
    BY DEF AdmitRefused
<1> DEFINE c == cache'
<1>7. HTree(c, Handles(req)) /\ c.snap = cache.snap /\ c.tree.pages = cache.tree.pages
    BY <1>5
<1> HIDE DEF c
<1>8. AllInv(c, freePages, freeSlots, kv, state, req)
    BY <1>7, RetreedAll DEF HybridInv
<1> QED BY <1>6, <1>8 DEF HybridInv, c

-----------------------------------------------------------------------------
(***************************************************************************)
(* Room: idle snapshots of the tree m are evicted, which has what h had,   *)
(* and perhaps another lock.                                               *)
(***************************************************************************)
MakesRoom(h, fp, fs, k, st, q, H, m, S) ==
    /\ AllInv(h, fp, fs, k, st, q) /\ HTree(m, H)
    /\ m.snap = h.snap /\ m.tree.pages = h.tree.pages /\ S \in SUBSET Idle(m)

HasMade(h, k, st, q, H, S, gp, gs, m, c) ==
    /\ HTree(c, H)
    /\ Pool(Page, gp, c.tree.pages, PagesOf(q)) /\ Pool(Slot, gs, c.snap, SlotsOf(q))
    /\ TreeWrote(c, k, st) /\ DOMAIN k = Page /\ DOMAIN st = Slot
    /\ FreedPages(m, S) \in SUBSET There(gp) /\ FreedSlots(m, S) \in SUBSET There(gs)
    /\ \A j \in Keys(c.tree) : j \in Keys(h.tree) /\ c.tree.pages[j] = h.tree.pages[j]
    /\ \A e \in Snapshots(c) : e \in Snapshots(h) /\ c.snap[e] = h.snap[e]

LEMMA RoomIs ==
    ASSUME NEW h, NEW fp, NEW fs, NEW k, NEW st, NEW q, NEW H, NEW m, NEW S,
           MakesRoom(h, fp, fs, k, st, q, H, m, S)
    PROVE  HasMade(h, k, st, q, H, S, Put(fp, FreedPages(m, S)), Put(fs, FreedSlots(m, S)), m,
                   WithoutSnapshots(m, S))
<1> DEFINE P == PagesOf(q)  Q == SlotsOf(q)  c == WithoutSnapshots(m, S)
           FP == FreedPages(m, S)  FS == FreedSlots(m, S)
<1>1. /\ HTree(m, H) /\ m.snap = h.snap /\ m.tree.pages = h.tree.pages /\ S \in SUBSET Idle(m)
      /\ Pool(Page, fp, m.tree.pages, P) /\ Pool(Slot, fs, m.snap, Q) /\ TreeWrote(h, k, st)
      /\ DOMAIN k = Page /\ DOMAIN st = Slot
    BY DEF MakesRoom, AllInv
<1>2. TreeWrote(m, k, st)
    BY <1>1 DEF TreeWrote, Keys, Snapshots
<1> HIDE DEF P, Q
<1>3. Pool(Page, Put(fp, FP), c.tree.pages, P)
    BY <1>1, <1>2, EvictPools
<1>4. Pool(Slot, Put(fs, FS), c.snap, Q)
    BY <1>1, <1>2, EvictPools
<1>5. FP \subseteq Page /\ FS \subseteq Slot
    BY <1>1, <1>2, EvictPools
<1>6. TreeWrote(c, k, st)
    BY <1>1, <1>2, EvictPools
<1>7. /\ HTree(c, H) /\ Keys(c.tree) = Keys(m.tree) \ FreedKeys(m, S)
      /\ \A j \in Keys(c.tree) : c.tree.pages[j] = m.tree.pages[j]
      /\ Snapshots(c) = Snapshots(m) \ S /\ \A e \in Snapshots(c) : c.snap[e] = m.snap[e]
    BY <1>1, WithoutIs
<1> HIDE DEF c, FP, FS
<1>8. FP \subseteq There(Put(fp, FP)) /\ FS \subseteq There(Put(fs, FS))
    BY <1>1, <1>5, PutThere
<1>9. /\ \A j \in Keys(c.tree) : j \in Keys(h.tree) /\ c.tree.pages[j] = h.tree.pages[j]
      /\ \A e \in Snapshots(c) : e \in Snapshots(h) /\ c.snap[e] = h.snap[e]
    BY <1>1, <1>7 DEF Keys, Snapshots
<1> QED BY <1>1, <1>3, <1>4, <1>6, <1>7, <1>8, <1>9 DEF HasMade, c, FP, FS, P, Q

\* What was evicted is erased, and nothing else.
LEMMA RoomErased ==
    ASSUME NEW h, NEW k, NEW st, NEW q, NEW H, NEW S, NEW gp, NEW gs, NEW m, NEW c,
           HasMade(h, k, st, q, H, S, gp, gs, m, c)
    PROVE  LET kk == Erase(k, FreedPages(m, S))
               ss == Erase(st, FreedSlots(m, S))
           IN  /\ Same(Page, c.tree.pages, PagesOf(q), k, kk)
               /\ Same(Slot, c.snap, SlotsOf(q), st, ss)
               /\ TreeWrote(c, kk, ss)
<1> DEFINE P == PagesOf(q)  Q == SlotsOf(q)  FP == FreedPages(m, S)  FS == FreedSlots(m, S)
           f == c.tree.pages  e == c.snap
<1>1. /\ Pool(Page, gp, f, P) /\ Pool(Slot, gs, e, Q) /\ DOMAIN k = Page /\ DOMAIN st = Slot
      /\ FP \in SUBSET There(gp) /\ FS \in SUBSET There(gs)
      /\ IsFiniteSet(Page) /\ IsFiniteSet(Slot) /\ TreeWrote(c, k, st)
    BY PoolsFinite DEF HasMade
<1> HIDE DEF P, Q, FP, FS, f, e
<1>2. Same(Page, f, P, k, Erase(k, FP))
    BY ONLY <1>1, ErasedIs
<1>3. Same(Slot, e, Q, st, Erase(st, FS))
    BY ONLY <1>1, ErasedIs
<1>4. TreeWrote(c, Erase(k, FP), Erase(st, FS))
    BY <1>1, <1>2, <1>3 DEF Same, TreeWrote, f, e, Keys, Snapshots
<1> QED BY <1>2, <1>3, <1>4 DEF P, Q, FP, FS, f, e

-----------------------------------------------------------------------------
(***************************************************************************)
(* Admission.  A request starts on the pages of the snapshot k its prompt  *)
(* resumes at, of the tree c, with three slots of its own.                 *)
(***************************************************************************)
Admits(shape, k, c, slot, row, restore, x) ==
    /\ shape \in Shapes /\ IsPrefix(k, MatchIds(shape)) /\ k \in Snapshots(c) \cup {<<>>}
    /\ \E H : HTree(c, H)
    /\ Range(c.tree.pages) \subseteq Page /\ Range(c.snap) \subseteq Slot
    /\ slot \in [1..3 -> Nat] /\ \A i, j \in 1..3 : slot[i] = slot[j] => i = j
    /\ row = [i \in 1..(Len(k) \div PageSize) |-> c.tree.pages[Upto(k, i * PageSize)]]
    /\ restore = IF k = <<>> THEN 0 ELSE c.snap[k]
    /\ x = [NewReq EXCEPT
               !.phase = "admitted", !.text = shape.prompt, !.prompt = Len(shape.prompt),
               !.output = shape.output, !.image = shape.image, !.cached = Len(k), !.host = Len(k),
               !.handle = k, !.row = row, !.live = slot[1], !.track = <<slot[2], slot[3]>>,
               !.restore = restore]

LEMMA AdmittedIs ==
    ASSUME NEW u, NEW shape, NEW k, NEW c, NEW slot, NEW row, NEW restore, NEW x,
           Admits(shape, k, c, slot, row, restore, x), NEW kk, NEW ss
    PROVE  /\ Fits(u, x, c, kk, ss) /\ x.handle = k
           /\ OwnPages(x) = {} /\ OwnSlots(x) = Range(slot)
<1> DEFINE d == Len(k) \div PageSize
<1>1. /\ shape \in Shapes /\ IsPrefix(k, MatchIds(shape)) /\ k \in Snapshots(c) \cup {<<>>}
      /\ Range(c.tree.pages) \subseteq Page /\ Range(c.snap) \subseteq Slot
      /\ slot \in [1..3 -> Nat] /\ \A i, j \in 1..3 : slot[i] = slot[j] => i = j
      /\ row = [i \in 1..d |-> c.tree.pages[Upto(k, i * PageSize)]]
      /\ restore = IF k = <<>> THEN 0 ELSE c.snap[k]
    BY DEF Admits
<1>2. PICK H : HTree(c, H)
    BY DEF Admits
<1>3. /\ x.phase = "admitted" /\ x.text = shape.prompt /\ x.prompt = Len(shape.prompt)
      /\ x.image = shape.image /\ x.cached = Len(k) /\ x.host = Len(k) /\ x.handle = k /\ x.row = row
      /\ x.live = slot[1] /\ x.track = <<slot[2], slot[3]>> /\ x.frozen = 0 /\ x.restore = restore
    BY DEF Admits, NewReq
<1>4. x = [phase |-> "admitted", text |-> shape.prompt, prompt |-> Len(shape.prompt),
           output |-> shape.output, image |-> shape.image, cached |-> Len(k), host |-> Len(k),
           handle |-> k, row |-> row, live |-> slot[1], track |-> <<slot[2], slot[3]>>,
           next |-> 1, frozen |-> 0, anchor |-> 0, restore |-> restore]
    BY ZenonT(90) DEF Admits, NewReq
<1>5. /\ MatchIds(shape) \in Seq(Token) /\ IsPrefix(MatchIds(shape), shape.prompt)
      /\ Len(MatchIds(shape)) < Len(shape.prompt) /\ Len(MatchIds(shape)) \in Nat
      /\ (shape.image => MatchIds(shape) = <<>>)
      /\ shape.prompt \in Seq(Token) /\ Len(shape.prompt) \in Nat
    BY <1>1, MatchIdsIs
<1>6. /\ k \in Seq(Token) /\ Len(k) \in Nat /\ Len(k) % PageSize = 0
      /\ (k # <<>> => k \in Keys(c.tree) /\ k \in Snapshots(c))
    <2>1. CASE k = <<>>
        BY <2>1, EmptyPrefix, PageSizeAssumption
    <2>2. CASE k # <<>>
        BY <1>1, <1>2, <2>2, SnapshotsIs, WholeKeyIs
    <2> QED BY <2>1, <2>2
<1>7. /\ IsPrefix(k, shape.prompt) /\ Len(k) < Len(shape.prompt)
      /\ (shape.image => k = <<>>)
    <2>1. IsPrefix(k, shape.prompt)
        BY <1>1, <1>5, <1>6, PrefixOrder
    <2>2. Len(k) <= Len(MatchIds(shape))
        BY <1>1, <1>5, <1>6, PrefixOrder
    <2>3. shape.image => k = <<>>
        BY <1>1, <1>5, <1>6, EmptyPrefix
    <2> QED BY <1>5, <1>6, <2>1, <2>2, <2>3
<1>8. d \in Nat /\ d * PageSize = Len(k) /\ Pages(Len(k)) = d
    BY <1>6, WholeIs
<1>9. ASSUME NEW i \in 1..d PROVE c.tree.pages[Upto(k, i * PageSize)] \in Page
    <2>1. k # <<>>
        <3>1. CASE k = <<>>
            <4>1. d * PageSize = 0 * PageSize /\ 1 <= d
                <5>1. 0 * PageSize = 0
                    BY PageSizeAssumption
                <5> QED BY <1>8, <3>1, <5>1
            <4> HIDE DEF d
            <4> QED BY <1>8, <4>1, TimesIs
        <3> QED BY <3>1
    <2>2. Upto(k, i * PageSize) \in WholeKeys(Token) /\ IsPrefix(Upto(k, i * PageSize), k)
        BY <1>6, PageKeyIs
    <2>3. Upto(k, i * PageSize) \in Keys(c.tree)
        BY <1>2, <1>6, <2>1, <2>2 DEF HTree, Tree
    <2> QED BY <1>1, <2>3 DEF Keys, Range
<1> HIDE DEF d
<1>10. row \in Seq(Page) /\ Len(row) = d
    <2>1. row \in [1..d -> Page]
        BY <1>1, <1>9
    <2> QED BY <1>8, <2>1
<1>11. restore \in Nat
    <2>1. CASE k = <<>>
        BY <1>1, <2>1
    <2>2. CASE k # <<>>
        <3>1. c.snap[k] \in Range(c.snap)
            BY <1>6, <2>2 DEF Snapshots, Range
        <3> QED BY <1>1, <2>2, <3>1, PoolsFinite
    <2> QED BY <2>1, <2>2
<1>12. x \in ReqType
    <2>1. shape.output \in Nat /\ shape.image \in BOOLEAN
        BY <1>1, ShapesAssumption
    <2>2. slot[1] \in Nat /\ slot[2] \in Nat /\ slot[3] \in Nat
        BY <1>1
    <2>3. <<slot[2], slot[3]>> \in [1..2 -> Nat]
        BY <2>2
    <2>4. "admitted" \in Phases /\ 0 \in Nat /\ 1 \in {1, 2}
        BY DEF Phases
    <2> QED BY ONLY <1>4, <1>5, <1>6, <1>10, <1>11, <2>1, <2>2, <2>3, <2>4 DEF ReqType
<1>13. OwnPositions(x) = {} /\ OwnPages(x) = {}
    <2>1. OwnPositions(x) = (d + 1)..d
        BY <1>3, <1>10 DEF OwnPositions, d
    <2>2. (d + 1)..d = {}
        BY <1>8
    <2> QED BY <2>1, <2>2 DEF OwnPages
<1>14. OwnSlots(x) = Range(slot)
    <2>1. OwnSlots(x) = {slot[1], slot[2], slot[3]}
        BY <1>3 DEF OwnSlots
    <2>2. Range(slot) = {slot[1], slot[2], slot[3]}
        BY <1>1 DEF Range
    <2> QED BY <2>1, <2>2
<1>15. Lengths(x)
    <2>1. Len(x.row) = Pages(x.cached) /\ IsPrefix(x.handle, x.text) /\ Len(x.handle) <= x.cached
        BY <1>3, <1>6, <1>7, <1>8, <1>10
    <2>2. /\ Len(x.text) = x.prompt /\ x.cached < x.prompt /\ x.host = x.cached
          /\ x.frozen = 0 /\ 0 <= x.cached /\ x.cached = Len(x.handle)
        BY <1>3, <1>6, <1>7
    <2>3. x.image => x.handle = <<>>
        BY <1>3, <1>7
    <2> QED BY <1>3, <2>1, <2>2, <2>3 DEF Lengths, InPrompt, Sampling
<1>16. Apart(x)
    <2>1. slot[1] # slot[2] /\ slot[1] # slot[3] /\ slot[2] # slot[3]
        BY <1>1
    <2> QED BY <1>3, <1>13, <2>1 DEF Apart
<1>17. Shared(c, x)
    BY <1>1, <1>3 DEF Shared, d
<1>18. Wrote(u, x, kk, ss)
    BY <1>3, <1>13 DEF Wrote
<1> QED BY <1>3, <1>12, <1>13, <1>14, <1>15, <1>16, <1>17, <1>18 DEF Fits

\* Who is not running holds nothing, in the invariant's functions.
LEMMA IdleReq ==
    ASSUME NEW h, NEW fp, NEW fs, NEW k, NEW st, NEW q, AllInv(h, fp, fs, k, st, q),
           NEW u \in Req, q[u].phase = "new"
    PROVE  /\ q[u] = NewReq /\ Handles(q)[u] = <<>> /\ PagesOf(q)[u] = {} /\ SlotsOf(q)[u] = {}
           /\ Owning(PagesOf(q), u, {}) = PagesOf(q) /\ Owning(SlotsOf(q), u, {}) = SlotsOf(q)
           /\ [q EXCEPT ![u] = NewReq] = q
<1>1. q[u] = NewReq
    BY FitsIs DEF Lengths
<1>2. OwnPages(q[u]) = {} /\ OwnSlots(q[u]) = {} /\ q[u].handle = <<>>
    BY <1>1, NewReqIs
<1>3. DOMAIN q = Req /\ q = [v \in Req |-> q[v]]
    BY DEF AllInv
<1> QED BY <1>1, <1>2, <1>3 DEF Handles, PagesOf, SlotsOf, Owning

\* The scheduler admits a request, or has no slots for it.
LEMMA AdmitStep ==
    ASSUME HybridInv, NEW u \in Req, Admit(u)
    PROVE  HybridInv'
<1>1. AllInv(cache, freePages, freeSlots, kv, state, req)
    BY DEF HybridInv
<1>2. PICK shape \in Shapes :
         LET h == Locked(shape)
             k == ResumePoint(cache, MatchIds(shape))
         IN  \E S \in Evictable(h, 3) :
                LET c == WithoutSnapshots(h, S)
                    list == SlotsBack(h, S)
                    slot == Lowest(list, 3)
                IN  /\ freePages' = PagesBack(h, S)
                    /\ kv' = Erase(kv, FreedPages(h, S))
                    /\ state' = Erase(state, FreedSlots(h, S))
                    /\ IF Count(list) < 3
                       THEN cache' = UnlockHybrid(c, k) /\ freeSlots' = list /\ UNCHANGED req
                       ELSE /\ cache' = c
                            /\ freeSlots' = Take(list, slot)
                            /\ req' = [req EXCEPT ![u] =
                                  [NewReq EXCEPT
                                     !.phase = "admitted", !.text = shape.prompt,
                                     !.prompt = Len(shape.prompt), !.output = shape.output,
                                     !.image = shape.image,
                                     !.cached = Len(k), !.host = Len(k),
                                     !.handle = k, !.row = MatchedPages(h, k),
                                     !.live = slot[1], !.track = <<slot[2], slot[3]>>,
                                     !.restore = IF k = <<>> THEN 0 ELSE h.snap[k]]]
    BY ZenonT(90) DEF Admit
<1> DEFINE h == Locked(shape)  t == MatchIds(shape)  k == ResumePoint(cache, t)
<1>3. PICK S \in Evictable(h, 3) :
         LET c == WithoutSnapshots(h, S)
             list == SlotsBack(h, S)
             slot == Lowest(list, 3)
         IN  /\ freePages' = PagesBack(h, S)
             /\ kv' = Erase(kv, FreedPages(h, S))
             /\ state' = Erase(state, FreedSlots(h, S))
             /\ IF Count(list) < 3
                THEN cache' = UnlockHybrid(c, k) /\ freeSlots' = list /\ UNCHANGED req
                ELSE /\ cache' = c
                     /\ freeSlots' = Take(list, slot)
                     /\ req' = [req EXCEPT ![u] =
                           [NewReq EXCEPT
                              !.phase = "admitted", !.text = shape.prompt,
                              !.prompt = Len(shape.prompt), !.output = shape.output,
                              !.image = shape.image,
                              !.cached = Len(k), !.host = Len(k),
                              !.handle = k, !.row = MatchedPages(h, k),
                              !.live = slot[1], !.track = <<slot[2], slot[3]>>,
                              !.restore = IF k = <<>> THEN 0 ELSE h.snap[k]]]
    BY <1>2
<1> DEFINE c == WithoutSnapshots(h, S)  list == SlotsBack(h, S)  slot == Lowest(list, 3)
           gp == PagesBack(h, S)  kk == Erase(kv, FreedPages(h, S))
           ss == Erase(state, FreedSlots(h, S))
           H == Handles(req)  G == Owning(H, u, k)  P == PagesOf(req)  Q == SlotsOf(req)
<1>4. /\ freePages' = gp /\ kv' = kk /\ state' = ss
      /\ Count(list) < 3 => cache' = UnlockHybrid(c, k) /\ freeSlots' = list /\ req' = req
      /\ ~(Count(list) < 3) =>
            /\ cache' = c /\ freeSlots' = Take(list, slot)
            /\ req' = [req EXCEPT ![u] =
                  [NewReq EXCEPT
                     !.phase = "admitted", !.text = shape.prompt,
                     !.prompt = Len(shape.prompt), !.output = shape.output,
                     !.image = shape.image,
                     !.cached = Len(k), !.host = Len(k),
                     !.handle = k, !.row = MatchedPages(h, k),
                     !.live = slot[1], !.track = <<slot[2], slot[3]>>,
                     !.restore = IF k = <<>> THEN 0 ELSE h.snap[k]]]
    BY <1>3
<1>5. h = LockHybrid(MatchHybrid(cache, t), k)
    BY DEF Locked
<1>6. S \in SUBSET Idle(h)
    BY EvictableIs
<1>7. t \in Seq(Token)
    BY MatchIdsIs
<1> HIDE DEF h, t, k, c, list, slot, gp, kk, ss, H, G, P, Q
<1>8. HTree(cache, H) /\ DOMAIN H = Req /\ H[u] = <<>> /\ req[u] = NewReq
    <2>1. HTree(cache, H) /\ DOMAIN H = Req /\ DOMAIN req = Req
        BY <1>1 DEF AllInv, H, Handles
    <2>2. req[u].phase = "new"
        BY DEF Admit
    <2>3. H[u] = <<>> /\ req[u] = NewReq
        BY <1>1, <2>2, IdleReq DEF H
    <2> QED BY <2>1, <2>3
<1>9. k \in Snapshots(cache) \cup {<<>>} /\ k \in Seq(Token) /\ IsPrefix(k, t)
    BY <1>7, <1>8, ResumePointIs DEF k
<1>10. HTree(h, G) /\ h.snap = cache.snap /\ h.tree.pages = cache.tree.pages
    <2> DEFINE m == MatchHybrid(cache, t)
    <2>1. HTree(m, H) /\ m.snap = cache.snap /\ m.tree.pages = cache.tree.pages
        BY <1>7, <1>8, MatchHybridIs
    <2>2. h = LockHybrid(m, k)
        BY <1>5
    <2> HIDE DEF m
    <2>3. k \in Snapshots(m) \cup {<<>>}
        BY <1>9, <2>1 DEF Snapshots
    <2>4. LET g == LockHybrid(m, k)
          IN  HTree(g, [H EXCEPT ![u] = k]) /\ g.snap = m.snap /\ g.tree.pages = m.tree.pages
        BY ONLY <1>8, <2>1, <2>3, u \in Req, LockHybridIs
    <2> QED BY <2>1, <2>2, <2>4 DEF G, Owning
<1>11. HasMade(cache, kv, state, req, G, S, gp, list, h, c)
    <2>1. MakesRoom(cache, freePages, freeSlots, kv, state, req, G, h, S)
        BY <1>1, <1>6, <1>10 DEF MakesRoom
    <2>2. HasMade(cache, kv, state, req, G, S, Put(freePages, FreedPages(h, S)),
                  Put(freeSlots, FreedSlots(h, S)), h, WithoutSnapshots(h, S))
        BY ONLY <2>1, RoomIs
    <2> QED BY <2>2 DEF gp, list, c, PagesBack, SlotsBack
<1>12. /\ HTree(c, G) /\ Pool(Page, gp, c.tree.pages, P) /\ Pool(Slot, list, c.snap, Q)
       /\ \A j \in Keys(c.tree) : j \in Keys(cache.tree) /\ c.tree.pages[j] = cache.tree.pages[j]
       /\ \A e \in Snapshots(c) : e \in Snapshots(cache) /\ c.snap[e] = cache.snap[e]
    BY <1>11 DEF HasMade, P, Q
<1>13. Same(Page, c.tree.pages, P, kv, kk) /\ Same(Slot, c.snap, Q, state, ss) /\ TreeWrote(c, kk, ss)
    <2>1. Same(Page, c.tree.pages, PagesOf(req), kv, Erase(kv, FreedPages(h, S)))
        BY ONLY <1>11, RoomErased
    <2>2. Same(Slot, c.snap, SlotsOf(req), state, Erase(state, FreedSlots(h, S)))
        BY ONLY <1>11, RoomErased
    <2>3. TreeWrote(c, Erase(kv, FreedPages(h, S)), Erase(state, FreedSlots(h, S)))
        BY ONLY <1>11, RoomErased
    <2> QED BY <2>1, <2>2, <2>3 DEF P, Q, kk, ss
<1>14. /\ DOMAIN kk = Page /\ DOMAIN ss = Slot
       /\ \A v \in Req \ {u} : /\ \A p \in OwnPages(req[v]) : kk[p] = kv[p]
                               /\ \A s \in OwnSlots(req[v]) : ss[s] = state[s]
    BY <1>13 DEF Same, P, Q, PagesOf, SlotsOf
<1>15. k \in Snapshots(c) \cup {<<>>} /\ G[u] = k /\ DOMAIN G = Req
    <2>1. G[u] = k /\ DOMAIN G = Req
        BY <1>8 DEF G, Owning
    <2> QED BY <1>12, <2>1 DEF HTree, Snapped
<1>16. Owning(P, u, {}) = P /\ Owning(Q, u, {}) = Q /\ P[u] = {} /\ Q[u] = {}
       /\ [req EXCEPT ![u] = NewReq] = req
    <2>1. req[u].phase = "new"
        BY DEF Admit
    <2> QED BY <1>1, <2>1, IdleReq DEF P, Q
<1>17. CASE Count(list) < 3
    <2> DEFINE g == UnlockHybrid(c, k)
    <2>1. HTree(g, H) /\ g.snap = c.snap /\ g.tree.pages = c.tree.pages
        <3>1. LET w == UnlockHybrid(c, G[u])
              IN  HTree(w, [G EXCEPT ![u] = <<>>]) /\ w.snap = c.snap /\ w.tree.pages = c.tree.pages
            BY ONLY ZenonT(90), <1>12, <1>15, u \in Req, UnlockHybridIs
        <3>2. [G EXCEPT ![u] = <<>>] = H
            BY <1>8 DEF G, Owning, H, Handles
        <3> QED BY <1>15, <3>1, <3>2
    <2> HIDE DEF g
    <2>2. /\ Fits(u, NewReq, g, kk, ss) /\ OwnPages(NewReq) = {} /\ OwnSlots(NewReq) = {}
          /\ NewReq.handle = <<>>
        BY NewReqIs
    <2>3. Owning(H, u, <<>>) = H
        BY <1>8 DEF Owning, H, Handles
    <2>4. TreeWrote(g, kk, ss)
        BY <1>13, <2>1 DEF TreeWrote, Keys, Snapshots
    <2>5. /\ \A j \in Keys(cache.tree) \cap Keys(g.tree) : g.tree.pages[j] = cache.tree.pages[j]
          /\ \A e \in Snapshots(cache) \cap Snapshots(g) : g.snap[e] = cache.snap[e]
        BY <1>12, <2>1 DEF Keys, Snapshots
    <2>6. After(cache, kv, state, req, u, NewReq, g, gp, list, kk, ss)
        BY <1>12, <1>14, <1>16, <2>1, <2>2, <2>3, <2>4, <2>5 DEF After, H, P, Q
    <2>7. AllInv(g, gp, list, kk, ss, [req EXCEPT ![u] = NewReq])
        BY ONLY <1>1, <2>6, StepIs
    <2> QED BY <1>4, <1>16, <1>17, <2>7 DEF HybridInv, g
<1>18. CASE ~(Count(list) < 3)
    <2> DEFINE row == MatchedPages(h, k)  restore == IF k = <<>> THEN 0 ELSE h.snap[k]
               x == [NewReq EXCEPT
                        !.phase = "admitted", !.text = shape.prompt, !.prompt = Len(shape.prompt),
                        !.output = shape.output, !.image = shape.image, !.cached = Len(k),
                        !.host = Len(k), !.handle = k, !.row = row, !.live = slot[1],
                        !.track = <<slot[2], slot[3]>>, !.restore = restore]
               gs == Take(list, slot)  N == Range(slot)
    <2>1. cache' = c /\ freeSlots' = gs /\ req' = [req EXCEPT ![u] = x]
        BY <1>4, <1>18
    <2>2. /\ slot \in [1..3 -> Nat] /\ \A i, j \in 1..3 : slot[i] = slot[j] => i = j
          /\ N \in SUBSET There(list) /\ There(list) = {s \in Slot : list[s] > 0}
        <3>1. /\ DOMAIN list = Slot /\ IsFiniteSet(There(list)) /\ There(list) \subseteq Slot
              /\ Count(list) = Cardinality(There(list)) /\ Count(list) \in Nat
              /\ There(list) = {s \in Slot : list[s] > 0}
            BY <1>12, PoolList, PoolsFinite
        <3>2. 3 \in Nat /\ 3 <= Cardinality(There(list)) /\ DOMAIN list \subseteq Int
            BY <1>18, <3>1, PoolsFinite
        <3>3. /\ slot \in Seq(DOMAIN list) /\ DOMAIN slot = 1..3
              /\ \A i \in 1..3 : slot[i] \in There(list)
              /\ \A i, j \in 1..3 : slot[i] = slot[j] => i = j
            BY <3>1, <3>2, LowestIs DEF slot
        <3>4. slot = [i \in 1..3 |-> slot[i]]
            BY DEF slot, Lowest
        <3>5. slot \in [1..3 -> Nat]
            BY <3>1, <3>3, <3>4, PoolsFinite
        <3>6. N \in SUBSET There(list)
            BY <3>3 DEF Range
        <3> QED BY <3>1, <3>3, <3>5, <3>6
    <2>3. row = [i \in 1..(Len(k) \div PageSize) |-> c.tree.pages[Upto(k, i * PageSize)]]
        <3>1. k \in Seq(Token) /\ Len(k) % PageSize = 0 /\ (k # <<>> => k \in Keys(c.tree))
            <4>1. CASE k = <<>>
                BY <4>1, EmptyPrefix, PageSizeAssumption
            <4>2. CASE k # <<>>
                BY <1>12, <1>15, <4>2, SnapshotsIs, WholeKeyIs
            <4> QED BY <4>1, <4>2
        <3> DEFINE d == Len(k) \div PageSize
        <3>2. ASSUME NEW i \in 1..d
              PROVE  h.tree.pages[Upto(k, i * PageSize)] = c.tree.pages[Upto(k, i * PageSize)]
            <4>1. /\ Upto(k, i * PageSize) \in WholeKeys(Token) /\ IsPrefix(Upto(k, i * PageSize), k)
                  /\ i * PageSize \in 1..Len(k)
                BY <3>1, PageKeyIs
            <4>2. k # <<>>
                BY <4>1, EmptyPrefix
            <4>3. Upto(k, i * PageSize) \in Keys(c.tree)
                BY <1>12, <3>1, <4>1, <4>2 DEF HTree, Tree
            <4> QED BY <1>10, <1>12, <4>3
        <3>3. row = [i \in 1..d |-> h.tree.pages[Upto(k, i * PageSize)]]
            BY DEF MatchedPages
        <3> HIDE DEF d, row
        <3>4. row = [i \in 1..d |-> c.tree.pages[Upto(k, i * PageSize)]]
            BY <3>2, <3>3
        <3> QED BY <3>4 DEF d
    <2>4. restore = IF k = <<>> THEN 0 ELSE c.snap[k]
        <3>1. k # <<>> => h.snap[k] = c.snap[k]
            BY <1>10, <1>12, <1>15
        <3> QED BY <3>1
    <2>5. x = [NewReq EXCEPT
                  !.phase = "admitted", !.text = shape.prompt, !.prompt = Len(shape.prompt),
                  !.output = shape.output, !.image = shape.image, !.cached = Len(k),
                  !.host = Len(k), !.handle = k, !.row = row, !.live = slot[1],
                  !.track = <<slot[2], slot[3]>>, !.restore = restore]
        OBVIOUS
    <2> HIDE DEF row, restore, x
    <2>6. Range(c.tree.pages) \subseteq Page /\ Range(c.snap) \subseteq Slot
        BY <1>12 DEF Pool
    <2>7. IsPrefix(k, MatchIds(shape))
        BY <1>9 DEF t
    <2>8. Admits(shape, k, c, slot, row, restore, x)
        BY <1>12, <1>15, <2>2, <2>3, <2>4, <2>5, <2>6, <2>7 DEF Admits
    <2>9. Fits(u, x, c, kk, ss) /\ x.handle = k /\ OwnPages(x) = {} /\ OwnSlots(x) = N
        <3>1. Fits(u, x, c, kk, ss)
            BY ONLY <2>8, AdmittedIs
        <3>2. x.handle = k
            BY <2>5 DEF NewReq
        <3>3. OwnPages(x) = {} /\ OwnSlots(x) = Range(slot)
            BY <2>8, AdmittedIs
        <3> QED BY <3>1, <3>2, <3>3
    <2> HIDE DEF N, gs
    <2>10. Pool(Slot, gs, c.snap, Owning(Q, u, N))
        <3>1. Range(slot) = N /\ N \in SUBSET {s \in Slot : list[s] > 0}
            BY <2>2 DEF N
        <3>2. Pool(Slot, Take(list, slot), c.snap, [Q EXCEPT ![u] = @ \cup N])
            BY <1>12, <3>1, PoolTaken
        <3>3. [Q EXCEPT ![u] = @ \cup N] = Owning(Q, u, N)
            BY <1>16 DEF Owning
        <3> QED BY <3>2, <3>3 DEF gs
    <2>11. After(cache, kv, state, req, u, x, c, gp, gs, kk, ss)
        <3>1. /\ HTree(c, Owning(Handles(req), u, x.handle))
              /\ Pool(Page, gp, c.tree.pages, Owning(PagesOf(req), u, OwnPages(x)))
              /\ Pool(Slot, gs, c.snap, Owning(SlotsOf(req), u, OwnSlots(x)))
            BY <1>12, <1>16, <2>9, <2>10 DEF G, H, P, Q
        <3>2. /\ \A j \in Keys(cache.tree) \cap Keys(c.tree) : c.tree.pages[j] = cache.tree.pages[j]
              /\ \A e \in Snapshots(cache) \cap Snapshots(c) : c.snap[e] = cache.snap[e]
            BY <1>12
        <3> QED BY <1>13, <1>14, <2>9, <3>1, <3>2 DEF After
    <2>12. AllInv(c, gp, gs, kk, ss, [req EXCEPT ![u] = x])
        BY ONLY <1>1, <2>11, StepIs
    <2> QED BY <1>4, <2>1, <2>12 DEF HybridInv
<1> QED BY <1>17, <1>18

-----------------------------------------------------------------------------
(***************************************************************************)
(* A forward.                                                              *)
(***************************************************************************)
LEMMA PagesGrow ==
    ASSUME NEW x \in Nat, NEW y \in Nat, x <= y
    PROVE  Pages(x) \in Nat /\ Pages(y) \in Nat /\ Pages(x) <= Pages(y)
<1> DEFINE a == Pages(x)  b == Pages(y)
<1>1. a \in Nat /\ a * PageSize < x + PageSize /\ b \in Nat /\ y <= b * PageSize
    BY PagesIs
<1> HIDE DEF a, b
<1>2. a * PageSize \in Nat /\ b * PageSize \in Nat /\ (b < a => b * PageSize + PageSize <= a * PageSize)
    BY <1>1, TimesIs
<1>3. ~(b < a)
    BY <1>1, <1>2, PageSizeAssumption
<1> QED BY <1>1, <1>3 DEF a, b

\* Leaves are evicted only while nobody holds them, until enough pages are back.
LEMMA LeafEvictionsIs ==
    ASSUME NEW h, NEW H, HTree(h, H), NEW size, NEW S \in LeafEvictions(h, size)
    PROVE  S \in SUBSET Idle(h) /\ Size(h.tree, Reclaimed(h, S)) >= size
<1>1. S \in SUBSET {e \in Snapshots(h) \cup Leaves(h.tree) : h.tree.refs[e] = 0}
    BY DEF LeafEvictions, Leaves
<1>2. Size(h.tree, Reclaimed(h, S)) >= size
    BY DEF LeafEvictions
<1>3. ASSUME NEW e \in S PROVE e \in Idle(h)
    <2>1. e \in Snapshots(h) /\ h.tree.refs[e] = 0
        BY <1>1 DEF HTree, Snapped
    <2>2. e \in Nodes(h.tree) /\ e \in Seq(Token)
        BY <2>1, SnapshotsIs, WholeKeyIs DEF HTree, Snapped
    <2>3. \A u \in DOMAIN H : ~IsPrefix(e, H[u])
        BY <2>1, <2>2, UnusedNode
    <2>4. \A u \in DOMAIN H : H[u] # e
        BY <2>2, <2>3, PrefixOrder
    <2> QED BY <2>1, <2>4, IdleSnapshot
<1> QED BY <1>2, <1>3

LEMMA EnoughPages ==
    ASSUME NEW h, NEW H, HTree(h, H), NEW fp, NEW P, Pool(Page, fp, h.tree.pages, P),
           NEW S \in SUBSET Idle(h), NEW n \in Nat,
           n > Count(fp) => Size(h.tree, Reclaimed(h, S)) >= (n - Count(fp)) * PageSize
    PROVE  n <= Cardinality(There(Put(fp, FreedPages(h, S))))
<1> DEFINE D == FreedKeys(h, S)  F == FreedPages(h, S)  there == There(fp)  f == h.tree.pages
<1>1. D \subseteq Keys(h.tree) /\ F = {f[j] : j \in D}
    BY WithoutIs
<1>2. /\ DOMAIN fp = Page /\ IsFiniteSet(there) /\ Count(fp) = Cardinality(there) /\ Count(fp) \in Nat
      /\ \A p \in there : p \notin Range(f)
    BY PoolList, PoolsFinite
<1>3. IsInjective(f) /\ Range(f) \subseteq Page
    BY DEF Pool
<1>4. Reclaimed(h, S) \in SUBSET Nodes(h.tree) /\ Tree(h.tree, Token)
    BY DEF Reclaimed, HTree
<1>5. IsFiniteSet(D) /\ Cardinality(D) \in Nat /\ Size(h.tree, Reclaimed(h, S)) = PageSize * Cardinality(D)
    BY <1>4, SizeIs DEF FreedKeys
<1> HIDE DEF D, F, there
<1>6. IsFiniteSet(F) /\ Cardinality(F) = Cardinality(D)
    <2> DEFINE g == [j \in D |-> f[j]]
    <2>1. g \in Bijection(D, F)
        <3>1. g \in [D -> F] /\ \A p \in F : \E j \in D : g[j] = p
            BY <1>1
        <3>2. \A i, j \in D : g[i] = g[j] => i = j
            BY <1>1, <1>3 DEF IsInjective, Keys
        <3> HIDE DEF g
        <3> QED BY <3>1, <3>2 DEF Bijection, Injection, Surjection, IsInjective
    <2> QED BY <1>5, <2>1, FS_Bijection DEF ExistsBijection
<1>7. F \cap there = {} /\ F \subseteq Page /\ F \subseteq Range(f)
    BY <1>1, <1>2, <1>3 DEF Range, Keys
<1>8. There(Put(fp, F)) = there \cup F
    <2>1. \A p \in Page : Put(fp, F)[p] = IF p \in F THEN fp[p] + 1 ELSE fp[p]
        BY <1>2 DEF Put
    <2>2. DOMAIN Put(fp, F) = Page
        BY <1>2 DEF Put
    <2>3. \A p \in Page : fp[p] \in {0, 1}
        BY DEF Pool
    <2> QED BY <1>2, <1>7, <2>1, <2>2, <2>3 DEF There, there
<1>9. Cardinality(there \cup F) = Count(fp) + Cardinality(D)
    <2>1. Cardinality(there \cap F) = 0
        BY <1>7, FS_EmptySet
    <2>2. Cardinality(there \cup F) = Cardinality(there) + Cardinality(F) - Cardinality(there \cap F)
        BY <1>2, <1>6, FS_Union
    <2> QED BY <1>2, <1>5, <1>6, <2>1, <2>2
<1>10. n <= Count(fp) + Cardinality(D)
    <2>1. CASE n <= Count(fp)
        BY <1>2, <1>5, <2>1
    <2>2. CASE n > Count(fp)
        <3> DEFINE m == n - Count(fp)  d == Cardinality(D)
        <3>1. m \in Nat /\ d \in Nat
            BY <1>2, <1>5, <2>2
        <3> HIDE DEF m, d
        <3>2. m * PageSize <= d * PageSize
            <4>1. PageSize * d = d * PageSize /\ m * PageSize \in Nat /\ d * PageSize \in Nat
                BY <3>1, PageSizeAssumption, TimesIs
            <4>2. PageSize * d >= m * PageSize
                BY <1>5, <2>2 DEF m, d
            <4> QED BY <4>1, <4>2
        <3>3. m <= d
            BY <3>1, <3>2, TimesIs
        <3> QED BY <1>2, <1>5, <3>3 DEF m, d
    <2> QED BY <1>2, <2>1, <2>2
<1> QED BY <1>8, <1>9, <1>10 DEF F

\* The lengths of a forward of n tokens.
LEMMA ForwardLengths ==
    ASSUME NEW r \in ReqType, Lengths(r), NEW n \in Nat, CanForward(r, n)
    PROVE  LET end == r.cached + n
           IN  /\ r.cached \in Nat /\ end \in Nat /\ r.cached < end /\ 1 <= n
               /\ end <= Len(r.text) /\ Len(r.text) \in Nat /\ r.text \in Seq(Token)
               /\ InPrompt(r) => r.prompt = Len(r.text)
               /\ ~InPrompt(r) => /\ Sampling(r) /\ end = Len(r.text) /\ r.prompt < end
                                  /\ end <= r.host + 1
               /\ r.phase # "new" /\ NewPages(r, n) \in Nat /\ Len(r.row) = Pages(r.cached)
               /\ Pages(r.cached) + NewPages(r, n) = Pages(end)
<1> DEFINE end == r.cached + n  len == Len(r.text)  old == r.cached
<1>1. r.cached \in Nat /\ r.text \in Seq(Token) /\ r.prompt \in Nat /\ r.host \in Nat
    BY DEF ReqType
<1>2. len \in Nat /\ Len(r.row) = Pages(r.cached)
    BY <1>1 DEF Lengths
<1>3. end \in Nat /\ old \in Nat /\ end = old + n
    BY <1>1
<1>4. /\ old < end /\ 1 <= n /\ end <= len
      /\ InPrompt(r) => r.prompt = len
      /\ ~InPrompt(r) => Sampling(r) /\ end = len /\ r.prompt < end /\ end <= r.host + 1
      /\ r.phase # "new"
    <2>1. CASE InPrompt(r)
        <3>1. n \in 1..(r.prompt - r.cached) /\ r.phase # "new"
            BY <2>1 DEF CanForward, InPrompt, Sampling
        <3>2. len = r.prompt
            BY <2>1 DEF Lengths
        <3> QED BY <1>1, <1>2, <2>1, <3>1, <3>2
    <2>2. CASE ~InPrompt(r)
        <3>1. Sampling(r) /\ n = 1 /\ len - r.host <= 1 /\ r.phase # "new"
            BY <2>2 DEF CanForward, Sampling
        <3>2. len = r.cached + 1 /\ r.prompt <= r.cached
            BY <3>1 DEF Lengths
        <3> QED BY <1>1, <1>2, <2>2, <3>1, <3>2
    <2> QED BY <2>1, <2>2
<1>5. NewPages(r, n) = Pages(end) - Pages(old)
    BY DEF NewPages
<1> HIDE DEF end, old, len
<1>6. Pages(old) \in Nat /\ Pages(end) \in Nat /\ Pages(old) <= Pages(end)
    BY <1>3, <1>4, PagesGrow
<1>7. NewPages(r, n) \in Nat /\ Pages(old) + NewPages(r, n) = Pages(end)
    BY <1>5, <1>6
<1> QED BY <1>1, <1>2, <1>3, <1>4, <1>7 DEF end, old, len

-----------------------------------------------------------------------------
(***************************************************************************)
(* What a forward of n tokens of u computes when the leaves of S go.       *)
(***************************************************************************)
Freeze(u, n) ==
    IF InPrompt(req[u]) THEN TrackPoint(req[u], n)
    ELSE IF AnchorDue(req[u]) THEN req[u].anchor ELSE 0

Fresh(u, n, S) == Lowest(PagesBack(cache, S), NewPages(req[u], n))

Grown(u, n, S) == req[u].row \o Fresh(u, n, S)

NewKv(u, n, S) ==
    [p \in Page |->
        LET row == Grown(u, n, S)
            at == {i \in 1..Len(row) : row[i] = p /\ i * PageSize > req[u].cached}
        IN  IF at # {} THEN Content(u, Min({Max(at) * PageSize, req[u].cached + n}))
            ELSE IF p \in FreedPages(cache, S) THEN Unwritten ELSE kv[p]]

NewState(u, n, S) ==
    [s \in Slot |->
        IF s = req[u].live THEN StateAt(u, req[u].cached + n)
        ELSE IF Freeze(u, n) # 0 /\ s = req[u].track[req[u].next] THEN StateAt(u, Freeze(u, n))
        ELSE IF s \in FreedSlots(cache, S) THEN Unwritten ELSE state[s]]

NextReq(u, n, S, t) == Forwarded(req[u], req[u].cached + n, Grown(u, n, S), Freeze(u, n), t)

Forwarding(u, n, S) ==
    /\ HybridInv /\ u \in Req /\ n \in Nat /\ CanForward(req[u], n) /\ S \in SUBSET Idle(cache)
    /\ NewPages(req[u], n) <= Cardinality(There(PagesBack(cache, S)))

\* What is left of the pools when they are gone.
LEMMA RoomHere ==
    ASSUME NEW u, NEW n, NEW S, Forwarding(u, n, S)
    PROVE  HasMade(cache, kv, state, req, Handles(req), S, PagesBack(cache, S),
                   SlotsBack(cache, S), cache, WithoutSnapshots(cache, S))
<1>1. HybridInv /\ S \in SUBSET Idle(cache)
    BY DEF Forwarding
<1>2. MakesRoom(cache, freePages, freeSlots, kv, state, req, Handles(req), cache, S)
    BY <1>1 DEF MakesRoom, HybridInv, AllInv
<1>3. HasMade(cache, kv, state, req, Handles(req), S, Put(freePages, FreedPages(cache, S)),
              Put(freeSlots, FreedSlots(cache, S)), cache, WithoutSnapshots(cache, S))
    BY ONLY <1>2, RoomIs
<1> QED BY <1>3 DEF PagesBack, SlotsBack

\* u's row is longer by the fresh pages F, which follow its L old ones; the first
\* a are the tree's.
Longer(u, n, S, row, a, L, M, F) ==
    /\ a = Len(req[u].handle) \div PageSize /\ L = Len(req[u].row) /\ M = Pages(req[u].cached + n)
    /\ F = Range(Fresh(u, n, S)) /\ row = Grown(u, n, S)
    /\ a \in Nat /\ L \in Nat /\ M \in Nat /\ a <= L /\ L <= M
    /\ a * PageSize = Len(req[u].handle) /\ Len(req[u].handle) <= req[u].cached
    /\ req[u].cached <= L * PageSize /\ req[u].cached + n <= M * PageSize
    /\ row \in Seq(Page) /\ Len(row) = M
    /\ \A i \in 1..L : row[i] = req[u].row[i]
    /\ OwnPositions(req[u]) = (a + 1)..L
    /\ \A i, j \in (a + 1)..M : row[i] = row[j] => i = j
    /\ Cut(row, a, M) = OwnPages(req[u]) \cup F
    /\ F \subseteq There(PagesBack(cache, S))

LEMMA LongerIs ==
    ASSUME NEW u, NEW n, NEW S, Forwarding(u, n, S)
    PROVE  \E row, a, L, M, F : Longer(u, n, S, row, a, L, M, F)
<1> DEFINE r == req[u]  a == Len(r.handle) \div PageSize  L == Len(r.row)
           N == NewPages(r, n)  M == Pages(r.cached + n)
           gp == PagesBack(cache, S)  fresh == Fresh(u, n, S)  F == Range(fresh)
           row == Grown(u, n, S)
<1>1. /\ AllInv(cache, freePages, freeSlots, kv, state, req) /\ u \in Req /\ n \in Nat
      /\ CanForward(r, n) /\ N <= Cardinality(There(gp))
    BY DEF Forwarding, HybridInv
<1>2. /\ HTree(cache, Handles(req)) /\ r \in ReqType /\ Lengths(r) /\ Apart(r)
      /\ r.handle \in Snapshots(cache) \cup {<<>>} /\ OwnPages(r) = Cut(r.row, a, L)
    BY <1>1, FitsIs
<1>3. /\ r.cached \in Nat /\ r.row \in Seq(Page) /\ Len(r.handle) <= r.cached
    BY <1>2 DEF ReqType, Lengths
<1>4. N \in Nat /\ L = Pages(r.cached) /\ L + N = M /\ r.cached + n \in Nat
    BY <1>1, <1>2, ForwardLengths
<1>5. /\ a \in Nat /\ L \in Nat /\ a <= L /\ a * PageSize = Len(r.handle)
      /\ OwnPositions(r) = (a + 1)..L /\ r.cached <= L * PageSize
    BY <1>2, RowIs
<1>6. M \in Nat /\ L <= M /\ r.cached + n <= M * PageSize
    <2> DEFINE end == r.cached + n
    <2>1. end \in Nat /\ M = Pages(end)
        BY <1>4
    <2> HIDE DEF end, L, M
    <2>2. Pages(end) \in Nat /\ end <= Pages(end) * PageSize
        BY <2>1, PagesIs
    <2> QED BY <1>4, <1>5, <2>1, <2>2 DEF end
<1>7. /\ DOMAIN gp = Page /\ IsFiniteSet(There(gp)) /\ There(gp) \subseteq Page
      /\ \A v \in Req : There(gp) \cap PagesOf(req)[v] = {}
    <2>1. Pool(Page, gp, WithoutSnapshots(cache, S).tree.pages, PagesOf(req))
        BY RoomHere DEF HasMade
    <2> HIDE DEF gp
    <2> QED BY <2>1, PoolList, PoolsFinite
<1>8. fresh = Lowest(gp, N) /\ row = r.row \o fresh
    BY DEF Fresh, Grown
<1> HIDE DEF r, a, L, N, M, gp, fresh, row, F
<1>9. /\ fresh \in Seq(Page) /\ Len(fresh) = N /\ DOMAIN fresh = 1..N
      /\ \A i \in 1..N : fresh[i] \in There(gp)
      /\ \A i, j \in 1..N : fresh[i] = fresh[j] => i = j
    <2>1. DOMAIN gp \subseteq Int
        BY <1>7, PoolsFinite
    <2>2. LET s == Lowest(gp, N)
          IN  /\ s \in Seq(DOMAIN gp) /\ Len(s) = N /\ DOMAIN s = 1..N
              /\ \A i \in 1..N : s[i] \in There(gp)
              /\ \A i, j \in 1..N : s[i] = s[j] => i = j
        BY ONLY <1>1, <1>4, <1>7, <2>1, LowestIs
    <2> QED BY <1>7, <1>8, <2>2
<1>10. F = {fresh[i] : i \in 1..N} /\ F \subseteq There(gp)
    BY <1>9 DEF F, Range
<1>11. /\ row \in Seq(Page) /\ Len(row) = M
       /\ \A i \in 1..L : row[i] = r.row[i]
       /\ \A i \in (L + 1)..M : row[i] = fresh[i - L]
    <2> DEFINE s == r.row
    <2>1. s \in Seq(Page) /\ Len(s) = L /\ L \in Nat /\ row = s \o fresh
        BY <1>3, <1>5, <1>8 DEF L
    <2> HIDE DEF s
    <2>2. s \o fresh \in Seq(Page) /\ Len(s \o fresh) = L + N
        BY <1>9, <2>1, ConcatProperties
    <2>3. \A i \in 1..L + N : (s \o fresh)[i] = IF i <= L THEN s[i] ELSE fresh[i - L]
        BY <1>9, <2>1, ConcatProperties
    <2>4. ASSUME NEW i \in 1..L PROVE row[i] = s[i]
        <3>1. i \in 1..L + N /\ i <= L
            BY ONLY <1>4, <2>1
        <3> QED BY <2>1, <2>3, <3>1
    <2>5. ASSUME NEW i \in (L + 1)..M PROVE row[i] = fresh[i - L]
        <3>1. i \in 1..L + N /\ ~(i <= L)
            BY ONLY <1>4, <2>1
        <3> QED BY <2>1, <2>3, <3>1
    <2> QED BY <1>4, <2>1, <2>2, <2>4, <2>5 DEF s
<1>12. \A i \in (L + 1)..M : i - L \in 1..N
    BY <1>4, <1>5
<1>13. \A i \in 1..N : L + i \in (L + 1)..M /\ (L + i) - L = i
    BY <1>4, <1>5
<1>14. \A i \in (a + 1)..M : i \in (a + 1)..L \/ i \in (L + 1)..M
    BY <1>5, <1>6
<1>15. /\ \A i \in (a + 1)..L : i \in 1..L /\ i \in (a + 1)..M
       /\ \A i \in (L + 1)..M : i \in (a + 1)..M
    BY <1>5, <1>6
<1>16. \A i \in (a + 1)..L : row[i] = r.row[i] /\ row[i] \in OwnPages(r)
    BY <1>2, <1>11, <1>15 DEF Cut
<1>17. \A i \in (L + 1)..M : row[i] \in F
    BY <1>10, <1>11, <1>12
<1>18. OwnPages(r) \cap F = {}
    BY <1>1, <1>7, <1>10 DEF PagesOf, r
<1>19. ASSUME NEW i \in (a + 1)..M, NEW j \in (a + 1)..M, row[i] = row[j]
       PROVE  i = j
    <2>1. CASE i \in (a + 1)..L /\ j \in (a + 1)..L
        BY <1>2, <1>5, <1>16, <1>19, <2>1 DEF Apart
    <2>2. CASE i \in (L + 1)..M /\ j \in (L + 1)..M
        <3>1. i - L = j - L
            BY <1>9, <1>11, <1>12, <1>19, <2>2
        <3> QED BY <1>5, <2>2, <3>1
    <2>3. CASE i \in (a + 1)..L /\ j \in (L + 1)..M
        BY <1>16, <1>17, <1>18, <1>19, <2>3
    <2>4. CASE j \in (a + 1)..L /\ i \in (L + 1)..M
        BY <1>16, <1>17, <1>18, <1>19, <2>4
    <2> QED BY <1>14, <2>1, <2>2, <2>3, <2>4
<1>20. Cut(row, a, M) = OwnPages(r) \cup F
    <2>1. \A i \in (a + 1)..M : row[i] \in OwnPages(r) \cup F
        BY <1>14, <1>16, <1>17
    <2>2. ASSUME NEW p \in OwnPages(r) PROVE p \in Cut(row, a, M)
        <3>1. PICK i \in (a + 1)..L : p = r.row[i]
            BY <1>2 DEF Cut
        <3> QED BY <1>15, <1>16, <3>1 DEF Cut
    <2>3. ASSUME NEW p \in F PROVE p \in Cut(row, a, M)
        <3>1. PICK i \in 1..N : p = fresh[i]
            BY <1>10
        <3>2. L + i \in (L + 1)..M /\ row[L + i] = p
            BY <1>11, <1>13, <3>1
        <3> QED BY <1>15, <3>2 DEF Cut
    <2> QED BY <2>1, <2>2, <2>3 DEF Cut
<1>21. Longer(u, n, S, row, a, L, M, F)
    BY <1>3, <1>5, <1>6, <1>10, <1>11, <1>19, <1>20 DEF Longer, r, a, L, M, F, row, gp, fresh
<1> QED BY <1>21

-----------------------------------------------------------------------------
\* The forward writes u's tokens on its own pages, and nothing else in use.
LEMMA KvIs ==
    ASSUME NEW u, NEW n, NEW S, Forwarding(u, n, S),
           NEW row, NEW a, NEW L, NEW M, NEW F, Longer(u, n, S, row, a, L, M, F)
    PROVE  /\ DOMAIN NewKv(u, n, S) = Page
           /\ \A i \in (a + 1)..M :
                 NewKv(u, n, S)[row[i]]
                   = <<Owner(u, req[u]), Upto(req[u].text, Least(i * PageSize, req[u].cached + n))>>
           /\ \A p \in Page : p \notin Cut(row, a, M) /\ p \notin FreedPages(cache, S)
                                => NewKv(u, n, S)[p] = kv[p]
<1> DEFINE r == req[u]  old == r.cached  end == r.cached + n  FP == FreedPages(cache, S)
           kk == NewKv(u, n, S)  gp == PagesBack(cache, S)
           at(p) == {i \in 1..M : row[i] = p /\ i * PageSize > old}
           after(p) == IF at(p) # {} THEN Content(u, Min({Max(at(p)) * PageSize, end}))
                       ELSE IF p \in FP THEN Unwritten ELSE kv[p]
<1>1. /\ AllInv(cache, freePages, freeSlots, kv, state, req) /\ u \in Req /\ n \in Nat
      /\ CanForward(r, n)
    BY DEF Forwarding, HybridInv
<1>2. r \in ReqType /\ Lengths(r) /\ Wrote(u, r, kv, state) /\ Apart(r)
    BY <1>1, FitsIs
<1>3. /\ old \in Nat /\ end \in Nat /\ old < end
    BY <1>1, <1>2, ForwardLengths
<1>4. /\ row = Grown(u, n, S) /\ a \in Nat /\ L \in Nat /\ M \in Nat /\ a <= L /\ L <= M
      /\ a * PageSize <= old /\ old <= L * PageSize /\ row \in Seq(Page) /\ Len(row) = M
      /\ \A i \in 1..L : row[i] = r.row[i]
      /\ OwnPositions(r) = (a + 1)..L
      /\ \A i, j \in (a + 1)..M : row[i] = row[j] => i = j
    BY DEF Longer
<1>5. OwnPages(r) \cap FP = {}
    <2>1. /\ Pool(Page, gp, WithoutSnapshots(cache, S).tree.pages, PagesOf(req))
          /\ FP \subseteq There(gp)
        BY RoomHere DEF HasMade
    <2> HIDE DEF gp
    <2>2. There(gp) \cap PagesOf(req)[u] = {}
        BY <1>1, <2>1, PoolList, PoolsFinite
    <2> QED BY <1>1, <2>1, <2>2 DEF PagesOf
<1>6. kk = [p \in Page |-> after(p)]
    BY <1>4 DEF NewKv
<1>7. \A p : at(p) = {i \in 1..M : row[i] = p /\ i * PageSize > old}
    OBVIOUS
<1>8. \A p : after(p) = IF at(p) # {} THEN Content(u, Min({Max(at(p)) * PageSize, end}))
                        ELSE IF p \in FP THEN Unwritten ELSE kv[p]
    OBVIOUS
<1>9. \A m : Content(u, m) = <<Owner(u, r), Upto(r.text, m)>>
    BY DEF Content, Owner
<1> HIDE DEF r, old, end, FP, kk, gp, at, after
<1>10. DOMAIN kk = Page /\ \A p \in Page : kk[p] = after(p)
    BY <1>6
<1>11. ASSUME NEW p, NEW i \in at(p) PROVE i \in (a + 1)..M /\ row[i] = p /\ p \in Cut(row, a, M)
    <2>1. i \in 1..M /\ i \in Nat /\ row[i] = p /\ i * PageSize > old
        BY <1>4, <1>7
    <2>2. i * PageSize \in Nat /\ a * PageSize \in Nat /\ (i <= a <=> i * PageSize <= a * PageSize)
        BY <1>4, <2>1, TimesIs
    <2>3. ~(i <= a)
        BY <1>3, <1>4, <2>1, <2>2
    <2>4. i \in (a + 1)..M
        BY <1>4, <2>1, <2>3
    <2> QED BY <2>1, <2>4 DEF Cut
<1>12. ASSUME NEW p \in Page, p \notin Cut(row, a, M), p \notin FP PROVE kk[p] = kv[p]
    <2>1. at(p) = {}
        BY <1>11, <1>12
    <2> QED BY <1>8, <1>10, <1>12, <2>1
<1>13. ASSUME NEW i \in (a + 1)..M
       PROVE  kk[row[i]] = <<Owner(u, r), Upto(r.text, Least(i * PageSize, end))>>
    <2> DEFINE p == row[i]  x == i * PageSize
    <2>0. i \in Nat /\ i \in 1..M
        BY <1>4
    <2>1. x \in Nat
        BY <2>0, TimesIs
    <2>2. p \in Page
        BY <1>4, <2>0
    <2>3. \A j \in at(p) : j = i
        BY <1>4, <1>11
    <2>4. i \in at(p) <=> x > old
        BY <1>7, <2>0
    <2> HIDE DEF p, x
    <2>5. CASE x > old
        <3>1. at(p) = {i}
            BY <2>3, <2>4, <2>5
        <3>2. Max(at(p)) = i
            <4>1. \A b \in {i} : (\A c \in {i} : b >= c) <=> b = i
                BY <2>0
            <4> QED BY <3>1, <4>1 DEF Max
        <3>3. Min({x, end}) = Least(x, end)
            <4>1. x \in Int /\ end \in Int
                BY <1>3, <2>1
            <4> QED BY <4>1, MinIs DEF Least
        <3>4. after(p) = Content(u, Min({i * PageSize, end}))
            BY <1>8, <3>1, <3>2
        <3>5. after(p) = Content(u, Least(x, end))
            BY <3>3, <3>4 DEF x
        <3>6. kk[p] = <<Owner(u, r), Upto(r.text, Least(x, end))>>
            BY <1>9, <1>10, <2>2, <3>5
        <3> QED BY <3>6 DEF p, x
    <2>6. CASE ~(x > old)
        <3>1. at(p) = {}
            BY <2>3, <2>4, <2>6
        <3>2. ~(L < i)
            <4>1. L < i => L * PageSize < i * PageSize
                BY <1>4, <2>0, TimesIs
            <4>2. L * PageSize \in Nat
                BY <1>4, TimesIs
            <4> QED BY <1>3, <1>4, <2>1, <2>6, <4>1, <4>2 DEF x
        <3>3. i \in (a + 1)..L /\ i \in 1..L
            BY <1>4, <2>0, <3>2
        <3>4. p = r.row[i] /\ i \in OwnPositions(r)
            BY <1>4, <3>3 DEF p
        <3>5. p \notin FP
            BY <1>5, <3>4 DEF OwnPages
        <3>6. kk[p] = kv[p]
            BY <1>8, <1>10, <2>2, <3>1, <3>5
        <3>7. kv[p] = <<Owner(u, r), Upto(r.text, Least(x, old))>>
            BY <1>2, <3>4 DEF Wrote, x, old
        <3>8. Least(x, old) = Least(x, end)
            BY <1>3, <2>1, <2>6 DEF Least
        <3>9. kk[p] = <<Owner(u, r), Upto(r.text, Least(x, end))>>
            BY <3>6, <3>7, <3>8
        <3> QED BY <3>9 DEF p, x
    <2> QED BY <2>5, <2>6
<1> QED BY <1>10, <1>12, <1>13 DEF kk, r, end, FP

\* The state a forward starts from is that of the tokens computed before.
LEMMA StartIs ==
    ASSUME NEW u, NEW n, NEW S, Forwarding(u, n, S)
    PROVE  \A m : StateAt(u, m) = <<Owner(u, req[u]), Upto(req[u].text, m)>>
<1> DEFINE r == req[u]
<1>1. /\ AllInv(cache, freePages, freeSlots, kv, state, req) /\ u \in Req /\ n \in Nat
      /\ CanForward(r, n)
    BY DEF Forwarding, HybridInv
<1>2. /\ HTree(cache, Handles(req)) /\ r \in ReqType /\ Lengths(r) /\ Shared(cache, r)
      /\ Wrote(u, r, kv, state) /\ r.handle \in Snapshots(cache) \cup {<<>>}
      /\ TreeWrote(cache, kv, state) /\ Pool(Slot, freeSlots, cache.snap, SlotsOf(req))
    BY ZenonT(90), <1>1, FitsIs DEF AllInv
<1>3. \A m : Content(u, m) = <<Owner(u, r), Upto(r.text, m)>>
    BY DEF Content, Owner
<1>4. /\ StartState(u) = IF r.cached = 0 THEN Content(u, 0)
                         ELSE IF r.restore # 0 THEN state[r.restore] ELSE state[r.live]
      /\ \A m : StateAt(u, m) = IF StartState(u) = Content(u, r.cached) THEN Content(u, m)
                                ELSE Unwritten
    BY DEF StartState, StateAt
<1>5. r.phase # "new" /\ r.cached \in Nat /\ r.text \in Seq(Token) /\ r.handle \in Seq(Token)
    BY <1>1, <1>2, ForwardLengths DEF ReqType
<1> HIDE DEF r
<1>6. StartState(u) = Content(u, r.cached)
    <2>1. CASE r.cached = 0
        BY <1>4, <2>1
    <2>2. CASE r.cached # 0 /\ r.phase = "admitted"
        <3>1. r.cached = Len(r.handle) /\ IsPrefix(r.handle, r.text) /\ (r.image => r.handle = <<>>)
            BY <1>2, <2>2 DEF Lengths
        <3>2. r.handle # <<>> /\ ~r.image
            <4>1. r.handle # <<>>
                BY <1>5, <2>2, <3>1, EmptyPrefix
            <4> QED BY <3>1, <4>1
        <3>3. r.handle \in Snapshots(cache) /\ r.restore = cache.snap[r.handle]
            BY <1>2, <2>2, <3>2 DEF Shared
        <3>4. r.restore \in Slot
            BY <1>2, <3>3 DEF Pool, Snapshots, Range
        <3>5. r.restore # 0
            <4>1. Cardinality(Req) \in Nat
                BY PoolAssumption, FS_CardinalityType
            <4>2. SlotsPerReq * Cardinality(Req) + SnapshotSlots \in Int
                BY <4>1, PoolAssumption DEF SlotsPerReq
            <4> QED BY <3>4, <4>2 DEF Slot
        <3>6. state[r.restore] = <<NoImage, r.handle>>
            BY <1>2, <3>3 DEF TreeWrote
        <3>7. r.handle = Upto(r.text, r.cached)
            BY <1>5, <3>1, PrefixIs
        <3>8. Owner(u, r) = NoImage
            BY <3>2 DEF Owner
        <3> QED BY <1>3, <1>4, <2>2, <3>5, <3>6, <3>7, <3>8
    <2>3. CASE r.cached # 0 /\ r.phase # "admitted"
        <3>1. r.restore = 0
            BY <1>2, <2>3 DEF Shared
        <3>2. state[r.live] = <<Owner(u, r), Upto(r.text, r.cached)>>
            BY <1>2, <1>5, <2>3 DEF Wrote
        <3> QED BY <1>3, <1>4, <2>3, <3>1, <3>2
    <2> QED BY <2>1, <2>2, <2>3
<1> QED BY <1>3, <1>4, <1>6 DEF r

\* The chunk boundary a prefill freezes lies after what was computed and before
\* the end; an anchor is where the request is.
LEMMA FreezeIs ==
    ASSUME NEW u, NEW n, NEW S, Forwarding(u, n, S)
    PROVE  /\ Freeze(u, n) \in Nat
           /\ Freeze(u, n) # 0 => /\ req[u].cached <= Freeze(u, n)
                                  /\ Freeze(u, n) <= req[u].cached + n
<1> DEFINE r == req[u]  old == r.cached  end == r.cached + n  f == Freeze(u, n)
           q == (n - 1) \div Chunk
<1>1. r \in ReqType /\ Lengths(r) /\ CanForward(r, n) /\ n \in Nat
    <2>1. HybridInv /\ u \in Req /\ CanForward(r, n) /\ n \in Nat
        BY DEF Forwarding
    <2> QED BY <2>1, FitsIs DEF HybridInv
<1>2. old \in Nat /\ end \in Nat /\ 1 <= n /\ r.anchor \in Nat
    BY <1>1, ForwardLengths DEF ReqType
<1>3. /\ f = IF InPrompt(r) THEN TrackPoint(r, n) ELSE IF AnchorDue(r) THEN r.anchor ELSE 0
      /\ TrackPoint(r, n) = IF InPrompt(r) /\ q >= 1 THEN old + q * Chunk ELSE 0
      /\ AnchorDue(r) => r.cached = r.anchor
    BY DEF Freeze, TrackPoint, AnchorDue
<1>4. q \in Nat /\ q * Chunk \in Nat /\ q * Chunk <= n - 1
    <2> DEFINE m == n - 1
    <2>1. m \in Nat /\ Chunk \in Nat \ {0}
        BY <1>1, <1>2, ChunkAssumption
    <2> HIDE DEF m
    <2>2. m \div Chunk \in Nat
        BY <2>1, SMTT(30)
    <2>3. m % Chunk \in 0..(Chunk - 1)
        BY <2>1, SMTT(30)
    <2>4. m % Chunk = m - Chunk * (m \div Chunk)
        BY <2>1, SMTT(30)
    <2>5. ASSUME NEW d \in Nat, NEW e \in Nat, e = m - Chunk * d
          PROVE  d * Chunk \in Nat /\ d * Chunk <= m
        BY <2>1, <2>5, SMTT(30)
    <2>6. (m \div Chunk) * Chunk \in Nat /\ (m \div Chunk) * Chunk <= m
        <3> DEFINE d == m \div Chunk  e == m % Chunk
        <3>1. d \in Nat /\ e \in 0..(Chunk - 1) /\ e = m - Chunk * d /\ e \in Nat
            BY <2>1, <2>2, <2>3, <2>4
        <3> HIDE DEF d, e
        <3>2. d * Chunk \in Nat /\ d * Chunk <= m
            BY <2>5, <3>1
        <3> QED BY <3>2 DEF d
    <2> QED BY <2>2, <2>6 DEF m
<1> DEFINE b == q * Chunk
<1>5. b \in Nat /\ b <= n - 1 /\ TrackPoint(r, n) \in {0, old + b}
    BY <1>3, <1>4
<1> HIDE DEF b, q, f, old, end
<1>6. end = old + n
    BY DEF old, end
<1>7. CASE InPrompt(r)
    BY <1>1, <1>2, <1>3, <1>5, <1>6, <1>7 DEF f, old, end
<1>8. CASE ~InPrompt(r)
    BY <1>1, <1>2, <1>3, <1>6, <1>8 DEF f, old, end
<1> QED BY <1>7, <1>8

\* The states of its own slots, and nobody else's, move.
LEMMA StatesAre ==
    ASSUME NEW u, NEW n, NEW S, Forwarding(u, n, S)
    PROVE  LET r == req[u]
               ss == NewState(u, n, S)
           IN  /\ DOMAIN ss = Slot
               /\ ss[r.live] = <<Owner(u, r), Upto(r.text, r.cached + n)>>
               /\ Freeze(u, n) # 0 =>
                     ss[r.track[r.next]] = <<Owner(u, r), Upto(r.text, Freeze(u, n))>>
               /\ Freeze(u, n) = 0 => ss[FrozenSlot(r)] = state[FrozenSlot(r)]
               /\ \A s \in Slot : s \notin OwnSlots(r) /\ s \notin FreedSlots(cache, S)
                                    => ss[s] = state[s]
<1> DEFINE r == req[u]  ss == NewState(u, n, S)  f == Freeze(u, n)  end == r.cached + n
           gs == SlotsBack(cache, S)  FS == FreedSlots(cache, S)
<1>1. /\ AllInv(cache, freePages, freeSlots, kv, state, req) /\ u \in Req /\ n \in Nat
      /\ CanForward(r, n)
    BY DEF Forwarding, HybridInv
<1>2. r \in ReqType /\ Lengths(r) /\ Apart(r)
    BY <1>1, FitsIs
<1>3. r.phase # "new"
    BY <1>1, <1>2, ForwardLengths
<1>4. /\ Pool(Slot, gs, WithoutSnapshots(cache, S).snap, SlotsOf(req)) /\ FS \subseteq There(gs)
    BY RoomHere DEF HasMade
<1>5. SlotsOf(req)[u] = OwnSlots(r)
    BY <1>1 DEF SlotsOf
<1>6. \A m : StateAt(u, m) = <<Owner(u, r), Upto(r.text, m)>>
    BY StartIs
<1>7. ss = [s \in Slot |-> IF s = r.live THEN StateAt(u, end)
                           ELSE IF f # 0 /\ s = r.track[r.next] THEN StateAt(u, f)
                           ELSE IF s \in FS THEN Unwritten ELSE state[s]]
    BY DEF NewState
<1> HIDE DEF r, ss, f, end, gs, FS
<1>8. OwnSlots(r) \subseteq Slot /\ OwnSlots(r) \cap FS = {}
    <2>1. OwnSlots(r) \subseteq Slot
        BY <1>1, <1>4, <1>5 DEF Pool
    <2>2. There(gs) \cap OwnSlots(r) = {}
        BY <1>1, <1>4, <1>5, PoolList, PoolsFinite
    <2> QED BY <1>4, <2>1, <2>2
<1>9. /\ FrozenSlot(r) \in OwnSlots(r) /\ r.live \in OwnSlots(r)
      /\ r.track[r.next] \in OwnSlots(r) /\ r.track[r.next] # r.live /\ FrozenSlot(r) # r.live
    <2>1. /\ FrozenSlot(r) \in OwnSlots(r) /\ r.live \in OwnSlots(r)
          /\ OwnSlots(r) = Range(r.track) \cup {r.live}
          /\ Range(r.track) = {r.track[r.next], FrozenSlot(r)}
          /\ r.live \notin Range(r.track)
        BY <1>2, <1>3, SlotsAre
    <2> QED BY <2>1
<1>10. ss[r.live] = <<Owner(u, r), Upto(r.text, end)>>
    BY <1>6, <1>7, <1>8, <1>9
<1>11. ASSUME f # 0 PROVE ss[r.track[r.next]] = <<Owner(u, r), Upto(r.text, f)>>
    BY <1>6, <1>7, <1>8, <1>9, <1>11
<1>12. ASSUME f = 0 PROVE ss[FrozenSlot(r)] = state[FrozenSlot(r)]
    BY <1>7, <1>8, <1>9, <1>12
<1>13. ASSUME NEW s \in Slot, s \notin OwnSlots(r), s \notin FS PROVE ss[s] = state[s]
    BY <1>7, <1>9, <1>13
<1>14. DOMAIN ss = Slot
    BY <1>7
<1> QED BY <1>10, <1>11, <1>12, <1>13, <1>14 DEF r, ss, f, end, FS

\* Its text, longer by the token a finished prompt or a decode step samples.
NextText(u, n, t) ==
    IF req[u].cached + n >= req[u].prompt THEN Append(req[u].text, t) ELSE req[u].text

LEMMA NextTextIs ==
    ASSUME NEW u, NEW n, NEW S, Forwarding(u, n, S),
           NEW t \in IF req[u].cached + n >= req[u].prompt THEN Sampled ELSE {Opener}
    PROVE  LET r == req[u]
               x == NextText(u, n, t)
           IN  /\ x \in Seq(Token) /\ IsPrefix(r.handle, x)
               /\ Len(x) = IF r.cached + n >= r.prompt THEN Len(r.text) + 1 ELSE Len(r.text)
               /\ \A m \in 0..Len(r.text) : Upto(x, m) = Upto(r.text, m)
<1> DEFINE r == req[u]  x == NextText(u, n, t)  done == r.cached + n >= r.prompt
<1>1. r \in ReqType /\ Lengths(r)
    <2>1. HybridInv /\ u \in Req
        BY DEF Forwarding
    <2> QED BY <2>1, FitsIs DEF HybridInv
<1>2. r.text \in Seq(Token) /\ r.handle \in Seq(Token) /\ IsPrefix(r.handle, r.text)
    BY <1>1 DEF ReqType, Lengths
<1>3. x = (IF done THEN Append(r.text, t) ELSE r.text) /\ (done => t \in Sampled)
    BY DEF NextText
<1> DEFINE w == r.text  k == r.handle
<1>4. w \in Seq(Token) /\ k \in Seq(Token) /\ IsPrefix(k, w)
    BY <1>2
<1>5. x = IF done THEN Append(w, t) ELSE w
    BY <1>3
<1> HIDE DEF w, k, x, done
<1>6. x \in Seq(Token) /\ IsPrefix(w, x) /\ Len(x) = IF done THEN Len(w) + 1 ELSE Len(w)
    <2>1. CASE done
        <3>1. t \in Token
            BY <1>3, <2>1, TokenAssumption
        <3>2. /\ Append(w, t) \in Seq(Token) /\ Len(Append(w, t)) = Len(w) + 1 /\ Len(w) \in Nat
              /\ \A i \in 1..Len(w) : w[i] = Append(w, t)[i]
            BY <1>4, <3>1
        <3>3. x = Append(w, t)
            BY <1>5, <2>1
        <3>4. x \in Seq(Token) /\ Len(w) <= Len(x) /\ \A i \in 1..Len(w) : w[i] = x[i]
            BY <3>2, <3>3
        <3>5. IsPrefix(w, x)
            BY <1>4, <3>4, PrefixIs
        <3> QED BY <2>1, <3>2, <3>3, <3>5
    <2>2. CASE ~done
        BY <1>4, <1>5, <2>2, PrefixOrder
    <2> QED BY <2>1, <2>2
<1>7. IsPrefix(k, x)
    BY <1>4, <1>6, PrefixOrder
<1>8. \A m \in 0..Len(w) : Upto(x, m) = Upto(w, m)
    BY <1>4, <1>6, UptoOfPrefix
<1> QED BY <1>6, <1>7, <1>8 DEF w, k, x, done

\* A forwarded request fits what the forward has written.
LEMMA ForwardedIs ==
    ASSUME NEW u, NEW n, NEW S, Forwarding(u, n, S),
           NEW t \in IF req[u].cached + n >= req[u].prompt THEN Sampled ELSE {Opener},
           NEW row, NEW a, NEW L, NEW M, NEW F, Longer(u, n, S, row, a, L, M, F)
    PROVE  LET x == NextReq(u, n, S, t)
           IN  /\ Fits(u, x, WithoutSnapshots(cache, S), NewKv(u, n, S), NewState(u, n, S))
               /\ x.handle = req[u].handle /\ OwnPages(x) = Cut(row, a, M)
               /\ OwnSlots(x) = OwnSlots(req[u])
<1> DEFINE r == req[u]  x == NextReq(u, n, S, t)  old == r.cached  end == r.cached + n
           f == Freeze(u, n)  text == NextText(u, n, t)  c == WithoutSnapshots(cache, S)
           kk == NewKv(u, n, S)  ss == NewState(u, n, S)  done == end >= r.prompt
           frozen == IF InPrompt(r) \/ f # 0 THEN f ELSE r.frozen
           phase == IF ~InPrompt(r) THEN r.phase ELSE IF done THEN "drain" ELSE "prefill"
           next == IF f # 0 THEN 3 - r.next ELSE r.next
           host == IF InPrompt(r) THEN end ELSE r.host
<1>1. /\ AllInv(cache, freePages, freeSlots, kv, state, req) /\ u \in Req /\ n \in Nat
      /\ CanForward(r, n)
    BY DEF Forwarding, HybridInv
<1>2. /\ HTree(cache, Handles(req)) /\ r \in ReqType /\ Lengths(r) /\ Apart(r)
      /\ Shared(cache, r) /\ Wrote(u, r, kv, state) /\ Handles(req)[u] = r.handle
      /\ DOMAIN Handles(req) = Req
    BY <1>1, FitsIs
<1>3. /\ old \in Nat /\ end \in Nat /\ old < end /\ 1 <= n
      /\ end <= Len(r.text) /\ Len(r.text) \in Nat
      /\ InPrompt(r) => r.prompt = Len(r.text)
      /\ ~InPrompt(r) => Sampling(r) /\ end = Len(r.text) /\ r.prompt < end /\ end <= r.host + 1
      /\ r.phase # "new"
    BY <1>1, <1>2, ForwardLengths
<1>4. /\ a = Len(r.handle) \div PageSize /\ M = Pages(end) /\ row = Grown(u, n, S)
      /\ a \in Nat /\ L \in Nat /\ M \in Nat /\ a <= L /\ L <= M
      /\ row \in Seq(Page) /\ Len(row) = M /\ \A i \in 1..L : row[i] = r.row[i]
      /\ \A i, j \in (a + 1)..M : row[i] = row[j] => i = j
      /\ Len(r.handle) <= old
    BY DEF Longer
<1>5. f \in Nat /\ (f # 0 => old <= f /\ f <= end)
    BY FreezeIs
<1>6. /\ text \in Seq(Token) /\ IsPrefix(r.handle, text)
      /\ Len(text) = IF done THEN Len(r.text) + 1 ELSE Len(r.text)
      /\ \A m \in 0..Len(r.text) : Upto(text, m) = Upto(r.text, m)
    BY NextTextIs
<1>7. x = [r EXCEPT
              !.cached = end, !.row = row, !.restore = 0, !.host = host, !.text = text,
              !.phase = phase, !.frozen = frozen, !.next = next]
    <2>1. x = [r EXCEPT
              !.cached = end, !.row = Grown(u, n, S), !.restore = 0,
              !.host = IF InPrompt(r) THEN end ELSE r.host,
              !.text = IF end >= r.prompt THEN Append(r.text, t) ELSE r.text,
              !.phase = IF ~InPrompt(r) THEN r.phase ELSE IF end >= r.prompt THEN "drain" ELSE "prefill",
              !.frozen = IF InPrompt(r) \/ f # 0 THEN f ELSE r.frozen,
              !.next = IF f # 0 THEN 3 - r.next ELSE r.next]
        BY DEF NextReq, Forwarded
    <2> QED BY <1>4, <2>1 DEF NextText
<1>8. /\ r.phase \in Phases /\ r.prompt \in Nat /\ r.output \in Nat
      /\ r.image \in BOOLEAN /\ r.host \in Nat /\ r.handle \in Seq(Token) /\ r.live \in Nat
      /\ r.track \in [1..2 -> Nat] /\ r.next \in {1, 2} /\ r.frozen \in Nat /\ r.anchor \in Nat
      /\ r.text \in Seq(Token)
    BY <1>2 DEF ReqType
<1>9. /\ phase \in Phases \ {"new", "admitted"} /\ next \in {1, 2} /\ frozen \in Nat /\ host \in Nat
      /\ (phase = "prefill" => InPrompt(r) /\ ~done)
      /\ (phase \in {"drain", "decode"} => done)
    <2> HIDE DEF x, text, f, c, kk, ss, r, old, end
    <2> QED BY SMTT(90), <1>3, <1>5, <1>8 DEF Phases, InPrompt, Sampling
<1>10. /\ done => end <= host + 1 /\ r.prompt <= end /\ Len(text) = end + 1
       /\ ~done => InPrompt(r) /\ Len(text) = r.prompt /\ end < r.prompt /\ host = end
    <2> HIDE DEF x, text, f, c, kk, ss, r, old, end
    <2> QED BY SMTT(90), <1>3, <1>6, <1>8
<1>11. frozen <= end /\ (frozen # 0 => Len(r.handle) <= frozen)
    <2>1. r.frozen <= old /\ (r.frozen # 0 => Len(r.handle) <= r.frozen) /\ Len(r.handle) \in Nat
        BY <1>2, <1>8 DEF Lengths
    <2> HIDE DEF x, text, f, c, kk, ss, r, old, end
    <2> QED BY SMTT(90), <1>3, <1>4, <1>5, <1>8, <2>1
<1>12. /\ f # 0 => frozen = f /\ next = 3 - r.next
       /\ f = 0 /\ frozen # 0 => frozen = r.frozen /\ next = r.next
    BY <1>5
<1> HIDE DEF x, text, frozen, phase, next, host, f, c, kk, ss, done, end, old, r
<1>13. r = [phase |-> r.phase, text |-> r.text, prompt |-> r.prompt, output |-> r.output,
           image |-> r.image, cached |-> r.cached, host |-> r.host, handle |-> r.handle,
           row |-> r.row, live |-> r.live, track |-> r.track, next |-> r.next,
           frozen |-> r.frozen, anchor |-> r.anchor, restore |-> r.restore]
    BY <1>2 DEF ReqType
<1>14. x = [phase |-> phase, text |-> text, prompt |-> r.prompt, output |-> r.output,
           image |-> r.image, cached |-> end, host |-> host, handle |-> r.handle,
           row |-> row, live |-> r.live, track |-> r.track, next |-> next,
           frozen |-> frozen, anchor |-> r.anchor, restore |-> 0]
    BY <1>7, <1>13
<1>15. x \in ReqType
    BY ONLY <1>3, <1>4, <1>6, <1>8, <1>9, <1>14, 0 \in Nat DEF ReqType
<1>16. /\ x.phase = phase /\ x.text = text /\ x.prompt = r.prompt /\ x.image = r.image
       /\ x.cached = end /\ x.host = host /\ x.handle = r.handle /\ x.row = row
       /\ x.live = r.live /\ x.track = r.track /\ x.next = next /\ x.frozen = frozen
       /\ x.restore = 0
    BY <1>14
<1>17. OwnPositions(x) = (a + 1)..M
    BY <1>4, <1>16 DEF OwnPositions
<1>18. OwnPages(x) = Cut(row, a, M)
    BY <1>16, <1>17 DEF OwnPages, Cut
<1>19. OwnSlots(x) = OwnSlots(r)
    BY <1>3, <1>9, <1>16 DEF OwnSlots
<1>20. Lengths(x)
    <2>1. Len(x.row) = Pages(x.cached) /\ IsPrefix(x.handle, x.text) /\ Len(x.handle) <= x.cached
        <3>1. Len(r.handle) \in Nat
            BY <1>8
        <3> QED BY <1>3, <1>4, <1>6, <1>16, <3>1
    <2>2. x.image => x.handle = <<>>
        BY <1>2, <1>16 DEF Lengths
    <2>3. x.phase # "new" /\ x.phase # "admitted"
        BY <1>9, <1>16
    <2>4. x.phase = "prefill" => Len(x.text) = x.prompt /\ x.cached < x.prompt /\ x.host = x.cached
        BY <1>9, <1>10, <1>16
    <2>5. x.phase \in {"drain", "decode"} =>
             Len(x.text) = x.cached + 1 /\ x.prompt <= x.cached /\ x.cached <= x.host + 1
        BY <1>9, <1>10, <1>16
    <2>6. x.frozen <= x.cached /\ (x.frozen # 0 => Len(x.handle) <= x.frozen)
        BY <1>11, <1>16
    <2> QED BY ONLY <2>1, <2>2, <2>3, <2>4, <2>5, <2>6 DEF Lengths, InPrompt, Sampling
<1>21. Apart(x)
    BY <1>2, <1>3, <1>4, <1>16, <1>17 DEF Apart
<1>22. Shared(c, x)
    <2>1. /\ HTree(c, Handles(req))
          /\ \A j \in Keys(c.tree) : j \in Keys(cache.tree) /\ c.tree.pages[j] = cache.tree.pages[j]
        BY RoomHere DEF HasMade, c
    <2>2. r.handle \in Snapshots(c) \cup {<<>>}
        BY <1>1, <1>2, <2>1 DEF HTree, Snapped
    <2>3. \A i \in 1..a : Upto(r.handle, i * PageSize) \in Keys(c.tree)
        BY <1>2, <1>4, <2>1, <2>2, RowIs
    <2>4. \A i \in 1..a : r.row[i] = cache.tree.pages[Upto(r.handle, i * PageSize)]
        BY <1>2, <1>4 DEF Shared
    <2>5. \A i \in 1..a : i \in 1..L
        BY <1>4
    <2>6. \A i \in 1..a : row[i] = c.tree.pages[Upto(r.handle, i * PageSize)]
        BY <1>4, <2>1, <2>3, <2>4, <2>5
    <2> QED BY <1>4, <1>9, <1>16, <2>6 DEF Shared
<1>23. Wrote(u, x, kk, ss)
    <2>1. Owner(u, x) = Owner(u, r)
        BY <1>16 DEF Owner
    <2>2. ASSUME NEW i \in (a + 1)..M
          PROVE  kk[row[i]] = <<Owner(u, r), Upto(text, Least(i * PageSize, end))>>
        <3>1. kk[row[i]] = <<Owner(u, r), Upto(r.text, Least(i * PageSize, end))>>
            BY KvIs DEF kk, r, end
        <3>2. i \in Nat
            BY <1>4
        <3>3. i * PageSize \in Nat
            BY <3>2, TimesIs
        <3>4. Least(i * PageSize, end) \in 0..Len(r.text)
            BY <1>3, <3>3 DEF Least
        <3> QED BY <1>6, <3>1, <3>4
    <2>3. /\ ss[r.live] = <<Owner(u, r), Upto(r.text, end)>>
          /\ f # 0 => ss[r.track[r.next]] = <<Owner(u, r), Upto(r.text, f)>>
          /\ f = 0 => ss[FrozenSlot(r)] = state[FrozenSlot(r)]
        BY StatesAre DEF r, end, f, ss
    <2>4. ss[r.live] = <<Owner(u, r), Upto(text, end)>>
        <3>1. end \in 0..Len(r.text)
            BY <1>3
        <3> QED BY <1>6, <2>3, <3>1
    <2>5. ASSUME frozen # 0 PROVE ss[FrozenSlot(x)] = <<Owner(u, r), Upto(text, frozen)>>
        <3>1. frozen \in 0..Len(r.text)
            BY <1>3, <1>9, <1>11
        <3>2. CASE f # 0
            <4>1. FrozenSlot(x) = r.track[r.next]
                <5>1. 3 - next = r.next
                    BY <1>8, <1>12, <3>2
                <5> QED BY <1>16, <5>1 DEF FrozenSlot
            <4> QED BY <1>6, <1>12, <2>3, <3>1, <3>2, <4>1
        <3>3. CASE f = 0
            <4>1. frozen = r.frozen /\ next = r.next
                BY <1>12, <2>5, <3>3
            <4>2. FrozenSlot(x) = FrozenSlot(r)
                BY <1>16, <4>1 DEF FrozenSlot
            <4>3. state[FrozenSlot(r)] = <<Owner(u, r), Upto(r.text, r.frozen)>>
                BY <1>2, <2>5, <4>1 DEF Wrote
            <4> QED BY <1>6, <2>3, <3>1, <3>3, <4>1, <4>2, <4>3
        <3> QED BY <3>2, <3>3
    <2> QED BY <1>16, <1>17, <2>1, <2>2, <2>4, <2>5 DEF Wrote
<1> QED BY <1>15, <1>16, <1>18, <1>19, <1>20, <1>21, <1>22, <1>23 DEF Fits, x, c, kk, ss, r

\* After a forward everybody keeps what was his.
LEMMA ForwardAfter ==
    ASSUME NEW u, NEW n, NEW S, Forwarding(u, n, S),
           NEW t \in IF req[u].cached + n >= req[u].prompt THEN Sampled ELSE {Opener}
    PROVE  After(cache, kv, state, req, u, NextReq(u, n, S, t), WithoutSnapshots(cache, S),
                 Take(PagesBack(cache, S), Fresh(u, n, S)), SlotsBack(cache, S),
                 NewKv(u, n, S), NewState(u, n, S))
<1> DEFINE r == req[u]  x == NextReq(u, n, S, t)  c == WithoutSnapshots(cache, S)
           gp == PagesBack(cache, S)  gs == SlotsBack(cache, S)  fresh == Fresh(u, n, S)
           kk == NewKv(u, n, S)  ss == NewState(u, n, S)
           FP == FreedPages(cache, S)  FS == FreedSlots(cache, S)
           H == Handles(req)  P == PagesOf(req)  Q == SlotsOf(req)
<1>1. AllInv(cache, freePages, freeSlots, kv, state, req) /\ u \in Req
    BY DEF Forwarding, HybridInv
<1>2. /\ HTree(c, H) /\ Pool(Page, gp, c.tree.pages, P) /\ Pool(Slot, gs, c.snap, Q)
      /\ TreeWrote(c, kv, state) /\ FP \subseteq There(gp) /\ FS \subseteq There(gs)
      /\ \A j \in Keys(c.tree) : j \in Keys(cache.tree) /\ c.tree.pages[j] = cache.tree.pages[j]
      /\ \A e \in Snapshots(c) : e \in Snapshots(cache) /\ c.snap[e] = cache.snap[e]
    BY RoomHere DEF HasMade
<1>3. PICK row, a, L, M, F : Longer(u, n, S, row, a, L, M, F)
    BY LongerIs
<1>4. F = Range(fresh) /\ Cut(row, a, M) = OwnPages(r) \cup F /\ F \subseteq There(gp)
    BY <1>3 DEF Longer
<1>5. /\ Fits(u, x, c, kk, ss) /\ x.handle = r.handle /\ OwnPages(x) = Cut(row, a, M)
      /\ OwnSlots(x) = OwnSlots(r)
    BY <1>3, ForwardedIs
<1>6. /\ DOMAIN kk = Page
      /\ \A p \in Page : p \notin Cut(row, a, M) /\ p \notin FP => kk[p] = kv[p]
    BY <1>3, KvIs
<1>7. DOMAIN ss = Slot /\ \A s \in Slot : s \notin OwnSlots(r) /\ s \notin FS => ss[s] = state[s]
    BY StatesAre
<1>8. DOMAIN H = Req /\ H[u] = r.handle /\ DOMAIN P = Req /\ P[u] = OwnPages(r)
      /\ DOMAIN Q = Req /\ Q[u] = OwnSlots(r)
      /\ H = [v \in Req |-> H[v]] /\ Q = [v \in Req |-> Q[v]]
      /\ \A v \in Req : P[v] = OwnPages(req[v]) /\ Q[v] = OwnSlots(req[v])
    BY <1>1 DEF Handles, PagesOf, SlotsOf
<1> HIDE DEF r, x, c, gp, gs, fresh, kk, ss, FP, FS, H, P, Q
<1>9. /\ There(gp) = {p \in Page : gp[p] > 0}
      /\ \A p \in There(gp) : p \notin Range(c.tree.pages) /\ \A v \in Req : p \notin P[v]
    BY <1>2, PoolList, PoolsFinite
<1>10. \A s \in There(gs) : s \notin Range(c.snap) /\ \A v \in Req : s \notin Q[v]
    BY <1>2, PoolList, PoolsFinite
<1>11. /\ Pool(Page, Take(gp, fresh), c.tree.pages, [P EXCEPT ![u] = @ \cup F])
       /\ F \cap Range(c.tree.pages) = {} /\ \A v \in Req : F \cap P[v] = {}
    <2>1. F \in SUBSET {p \in Page : gp[p] > 0} /\ Range(fresh) = F
        BY <1>4, <1>9
    <2> QED BY <1>1, <1>2, <2>1, PoolTaken
<1>12. Pool(Page, Take(gp, fresh), c.tree.pages, Owning(P, u, OwnPages(x)))
    <2>1. [P EXCEPT ![u] = @ \cup F] = [P EXCEPT ![u] = OwnPages(x)]
        BY <1>4, <1>5, <1>8
    <2> QED BY <1>11, <2>1 DEF Owning
<1>13. Owning(H, u, x.handle) = H /\ Owning(Q, u, OwnSlots(x)) = Q
    BY <1>5, <1>8 DEF Owning
<1>14. /\ Range(c.tree.pages) \subseteq Page /\ Range(c.snap) \subseteq Slot
       /\ \A v \in Req : P[v] \subseteq Page /\ Q[v] \subseteq Slot
       /\ \A v \in Req : P[v] \cap Range(c.tree.pages) = {} /\ Q[v] \cap Range(c.snap) = {}
       /\ \A v \in Req \ {u} : P[v] \cap P[u] = {} /\ Q[v] \cap Q[u] = {}
    BY <1>1, <1>2 DEF Pool
<1>15. \A p \in Range(c.tree.pages) : kk[p] = kv[p]
    BY <1>1, <1>2, <1>4, <1>6, <1>8, <1>9, <1>11, <1>14
<1>16. \A s \in Range(c.snap) : ss[s] = state[s]
    BY <1>1, <1>2, <1>7, <1>8, <1>10, <1>14
<1>17. ASSUME NEW v \in Req \ {u} PROVE \A p \in P[v] : kk[p] = kv[p]
    BY <1>1, <1>2, <1>4, <1>6, <1>8, <1>9, <1>11, <1>14
<1>18. ASSUME NEW v \in Req \ {u} PROVE \A s \in Q[v] : ss[s] = state[s]
    BY <1>1, <1>2, <1>7, <1>8, <1>10, <1>14
<1>19. TreeWrote(c, kk, ss)
    <2>1. \A j \in Keys(c.tree) : c.tree.pages[j] \in Range(c.tree.pages)
        BY DEF Keys, Range
    <2>2. \A e \in Snapshots(c) : c.snap[e] \in Range(c.snap)
        BY DEF Snapshots, Range
    <2> QED BY <1>2, <1>15, <1>16, <2>1, <2>2 DEF TreeWrote
<1>20. After(cache, kv, state, req, u, x, c, Take(gp, fresh), gs, kk, ss)
    <2>1. /\ HTree(c, Owning(Handles(req), u, x.handle))
          /\ Pool(Page, Take(gp, fresh), c.tree.pages, Owning(PagesOf(req), u, OwnPages(x)))
          /\ Pool(Slot, gs, c.snap, Owning(SlotsOf(req), u, OwnSlots(x)))
        BY <1>2, <1>12, <1>13 DEF H, P, Q
    <2>2. \A v \in Req \ {u} : /\ \A p \in OwnPages(req[v]) : kk[p] = kv[p]
                               /\ \A s \in OwnSlots(req[v]) : ss[s] = state[s]
        BY <1>8, <1>17, <1>18
    <2>3. /\ \A j \in Keys(cache.tree) \cap Keys(c.tree) : c.tree.pages[j] = cache.tree.pages[j]
          /\ \A e \in Snapshots(cache) \cap Snapshots(c) : c.snap[e] = cache.snap[e]
        BY <1>2
    <2> QED BY <1>1, <1>5, <1>6, <1>7, <1>19, <2>1, <2>2, <2>3 DEF After
<1> QED BY <1>20 DEF x, c, gp, gs, fresh, kk, ss

LEMMA ForwardStep ==
    ASSUME HybridInv, NEW u \in Req, NEW n \in Nat, Forward(u, n)
    PROVE  HybridInv'
<1> DEFINE r == req[u]  N == NewPages(r, n)
<1>1. CanForward(r, n)
    BY DEF Forward
<1>2. CASE Victims(N) = {}
    <2>1. UNCHANGED <<cache, freePages, freeSlots, kv, state, req>>
        BY <1>2 DEF Forward
    <2> QED BY <2>1 DEF HybridInv
<1>3. CASE Victims(N) # {}
    <2>1. PICK S \in Victims(N) :
             /\ cache' = WithoutSnapshots(cache, S)
             /\ freePages' = Take(PagesBack(cache, S), Fresh(u, n, S))
             /\ freeSlots' = SlotsBack(cache, S)
             /\ kv' = NewKv(u, n, S) /\ state' = NewState(u, n, S)
             /\ \E t \in IF r.cached + n >= r.prompt THEN Sampled ELSE {Opener} :
                   req' = [req EXCEPT ![u] = NextReq(u, n, S, t)]
        BY <1>3 DEF Forward, Fresh, NewKv, NewState, NextReq, Grown, Freeze
    <2>2. PICK t \in IF r.cached + n >= r.prompt THEN Sampled ELSE {Opener} :
             req' = [req EXCEPT ![u] = NextReq(u, n, S, t)]
        BY <2>1
    <2>3. HTree(cache, Handles(req)) /\ r \in ReqType /\ Lengths(r)
          /\ Pool(Page, freePages, cache.tree.pages, PagesOf(req))
        BY ZenonT(90), FitsIs DEF HybridInv, AllInv
    <2>4. N \in Nat /\ Count(freePages) \in Nat
        <3>1. N \in Nat
            BY <1>1, <2>3, ForwardLengths
        <3>2. Count(freePages) \in Nat
            BY <2>3, PoolList, PoolsFinite
        <3> QED BY <3>1, <3>2
    <2> HIDE DEF N
    <2>5. /\ S \in SUBSET Idle(cache)
          /\ N > Count(freePages) =>
                Size(cache.tree, Reclaimed(cache, S)) >= (N - Count(freePages)) * PageSize
        <3>1. CASE N > Count(freePages)
            <4> DEFINE size == (N - Count(freePages)) * PageSize
            <4>1. S \in LeafEvictions(cache, size)
                BY <2>1, <3>1 DEF Victims
            <4> HIDE DEF size
            <4>2. S \in SUBSET Idle(cache) /\ Size(cache.tree, Reclaimed(cache, S)) >= size
                BY <2>3, <4>1, LeafEvictionsIs
            <4> QED BY <4>2 DEF size
        <3>2. CASE ~(N > Count(freePages))
            <4>1. S = {}
                BY <2>1, <3>2 DEF Victims
            <4> QED BY <3>2, <4>1
        <3> QED BY <3>1, <3>2
    <2>6. N <= Cardinality(There(Put(freePages, FreedPages(cache, S))))
        BY <2>3, <2>4, <2>5, EnoughPages
    <2>7. Forwarding(u, n, S)
        BY <1>1, <2>5, <2>6 DEF Forwarding, PagesBack, N
    <2>8. After(cache, kv, state, req, u, NextReq(u, n, S, t), WithoutSnapshots(cache, S),
                Take(PagesBack(cache, S), Fresh(u, n, S)), SlotsBack(cache, S),
                NewKv(u, n, S), NewState(u, n, S))
        BY <2>7, ForwardAfter
    <2> DEFINE x == NextReq(u, n, S, t)  c == WithoutSnapshots(cache, S)
               gp == Take(PagesBack(cache, S), Fresh(u, n, S))  gs == SlotsBack(cache, S)
               kk == NewKv(u, n, S)  ss == NewState(u, n, S)
    <2>9. /\ After(cache, kv, state, req, u, x, c, gp, gs, kk, ss)
          /\ cache' = c /\ freePages' = gp /\ freeSlots' = gs /\ kv' = kk /\ state' = ss
          /\ req' = [req EXCEPT ![u] = x]
        BY <2>1, <2>2, <2>8
    <2> HIDE DEF x, c, gp, gs, kk, ss
    <2>10. AllInv(cache, freePages, freeSlots, kv, state, req)
        BY DEF HybridInv
    <2>11. AllInv(c, gp, gs, kk, ss, [req EXCEPT ![u] = x])
        BY ONLY <2>9, <2>10, StepIs
    <2> QED BY <2>9, <2>11 DEF HybridInv
<1> QED BY <1>2, <1>3

-----------------------------------------------------------------------------
(***************************************************************************)
(* The empty cache, at the start and after a rebuild.                      *)
(***************************************************************************)
LEMMA EmptyHybridIs ==
    ASSUME NEW H, DOMAIN H = Req, \A u \in Req : H[u] = <<>>
    PROVE  /\ HTree(EmptyHybrid, H) /\ EmptyHybrid.tree.pages = [j \in {} |-> 0]
           /\ EmptyHybrid.snap = [e \in {} |-> 0]
           /\ Keys(EmptyHybrid.tree) = {} /\ Snapshots(EmptyHybrid) = {}
<1> DEFINE h == EmptyHybrid
<1>1. h.tree = EmptyRadix /\ h.snap = [e \in {} |-> 0] /\ h.mref = [e \in {} |-> 0]
      /\ h.evictable = 0 /\ h.protected = 0
      /\ h = [tree |-> h.tree, snap |-> h.snap, mref |-> h.mref,
              evictable |-> h.evictable, protected |-> h.protected]
    BY DEF EmptyHybrid
<1> HIDE DEF h
<1>2. Tree(EmptyRadix, Token) /\ Keys(EmptyRadix) = {} /\ Nodes(EmptyRadix) = {}
    BY EmptyTree
<1>3. EmptyRadix.evictable = 0 /\ EmptyRadix.protected = 0 /\ EmptyRadix.pages = [j \in {} |-> 0]
    BY DEF EmptyRadix
<1>4. UsedKeys(EmptyRadix, H) = {} /\ Cardinality({}) = 0 /\ PageSize * 0 = 0
    BY <1>2, FS_EmptySet, PageSizeAssumption DEF UsedKeys
<1>5. Keys(EmptyRadix) \ UsedKeys(EmptyRadix, H) = {}
    BY <1>2
<1>6. Counts(EmptyRadix, H)
    BY <1>2, <1>3, <1>4, <1>5, PoolAssumption DEF Counts
<1>7. Snapshots(h) = {}
    BY <1>1 DEF Snapshots
<1>8. Record(h)
    BY <1>1, <1>7 DEF Record
<1>9. Idle(h) = {} /\ Snapshots(h) \ Idle(h) = {} /\ Leaves(h.tree) = {}
    BY <1>1, <1>2, <1>7 DEF Idle, Leaves
<1>10. Snapped(h, H)
    <2>1. h.evictable = Cardinality(Idle(h)) /\ h.protected = Cardinality(Snapshots(h) \ Idle(h))
        BY <1>1, <1>4, <1>9
    <2> QED BY <1>1, <1>7, <1>9, <2>1 DEF Snapped
<1>11. HTree(h, H)
    BY <1>1, <1>2, <1>6, <1>8, <1>10 DEF HTree
<1> QED BY <1>1, <1>2, <1>3, <1>7, <1>11 DEF h

LEMMA EmptyPool ==
    ASSUME NEW X, NEW f, DOMAIN f = {}, NEW O, DOMAIN O = Req, \A u \in Req : O[u] = {}
    PROVE  Pool(X, [x \in X |-> 1], f, O)
<1>1. Range(f) = {} /\ IsInjective(f)
    BY DEF Range, IsInjective
<1> QED BY <1>1 DEF Pool

LEMMA EmptyIs ==
    ASSUME NEW k, DOMAIN k = Page, NEW st, DOMAIN st = Slot
    PROVE  AllInv(EmptyHybrid, [p \in Page |-> 1], [s \in Slot |-> 1], k, st,
                  [u \in Req |-> NewReq])
<1> DEFINE q == [u \in Req |-> NewReq]  h == EmptyHybrid
           H == Handles(q)  P == PagesOf(q)  Q == SlotsOf(q)
<1>1. /\ OwnPages(NewReq) = {} /\ OwnSlots(NewReq) = {} /\ NewReq.handle = <<>>
      /\ \A u : Fits(u, NewReq, h, k, st)
    BY NewReqIs
<1>2. DOMAIN q = Req /\ \A u \in Req : q[u] = NewReq
    OBVIOUS
<1>3. q = [u \in Req |-> q[u]]
    OBVIOUS
<1> HIDE DEF q, h
<1>4. /\ DOMAIN H = Req /\ DOMAIN P = Req /\ DOMAIN Q = Req
      /\ \A u \in Req : H[u] = <<>> /\ P[u] = {} /\ Q[u] = {}
    BY <1>1, <1>2 DEF Handles, PagesOf, SlotsOf
<1> HIDE DEF H, P, Q
<1>5. /\ HTree(h, H) /\ h.tree.pages = [j \in {} |-> 0] /\ h.snap = [e \in {} |-> 0]
      /\ Keys(h.tree) = {} /\ Snapshots(h) = {}
    BY <1>4, EmptyHybridIs DEF h
<1>6. DOMAIN h.tree.pages = {} /\ DOMAIN h.snap = {}
    BY <1>5
<1>7. Pool(Page, [p \in Page |-> 1], h.tree.pages, P)
    BY ONLY <1>4, <1>6, EmptyPool
<1>8. Pool(Slot, [s \in Slot |-> 1], h.snap, Q)
    BY ONLY <1>4, <1>6, EmptyPool
<1>9. TreeWrote(h, k, st)
    BY <1>5 DEF TreeWrote
<1>10. \A u \in Req : Fits(u, q[u], h, k, st)
    BY <1>1, <1>2
<1>11. AllInv(h, [p \in Page |-> 1], [s \in Slot |-> 1], k, st, q)
    BY <1>2, <1>3, <1>5, <1>7, <1>8, <1>9, <1>10 DEF AllInv, H, P, Q
<1> QED BY <1>11 DEF h, q

LEMMA InitIs ==
    ASSUME Init
    PROVE  HybridInv
<1>1. /\ cache = EmptyHybrid /\ freePages = [p \in Page |-> 1] /\ freeSlots = [s \in Slot |-> 1]
      /\ DOMAIN kv = Page /\ DOMAIN state = Slot /\ req = [u \in Req |-> NewReq]
    BY DEF Init
<1> QED BY <1>1, EmptyIs DEF HybridInv

LEMMA RebuildStep ==
    ASSUME HybridInv, Rebuild
    PROVE  HybridInv'
<1>1. req = [u \in Req |-> NewReq]
    <2>1. /\ req = [u \in Req |-> req[u]]
          /\ \A u \in Req : Lengths(req[u])
        BY ZenonT(90), FitsIs DEF HybridInv, AllInv
    <2>2. \A u \in Req : req[u].phase = "new"
        BY DEF Rebuild, Active
    <2>3. \A u \in Req : req[u] = NewReq
        BY <2>1, <2>2 DEF Lengths
    <2> QED BY <2>1, <2>3
<1> DEFINE k == kv'  st == state'
<1>2. /\ cache' = EmptyHybrid /\ freePages' = [p \in Page |-> 1] /\ freeSlots' = [s \in Slot |-> 1]
      /\ DOMAIN k = Page /\ DOMAIN st = Slot /\ req' = req
    BY DEF Rebuild
<1> HIDE DEF k, st
<1>3. AllInv(EmptyHybrid, [p \in Page |-> 1], [s \in Slot |-> 1], k, st, [u \in Req |-> NewReq])
    BY <1>2, EmptyIs
<1> QED BY <1>1, <1>2, <1>3 DEF HybridInv, k, st

LEMMA NextStep ==
    ASSUME HybridInv, [Next]_vars
    PROVE  HybridInv'
<1>1. CASE UNCHANGED vars
    BY <1>1 DEF vars, HybridInv
<1>2. CASE Next
    <2>1. CASE AdmitRefused
        BY <2>1, RefusedStep
    <2>2. CASE Rebuild
        BY <2>2, RebuildStep
    <2>3. CASE \E u \in Req : Admit(u) \/ Drain(u) \/ Abort(u)
        BY <2>3, AdmitStep, DrainStep, AbortStep
    <2>4. CASE \E u \in Req, n \in 1..(NumPages * PageSize) : Forward(u, n)
        <3>1. PICK u \in Req, n \in 1..(NumPages * PageSize) : Forward(u, n)
            BY <2>4
        <3>2. n \in Nat
            OBVIOUS
        <3> QED BY <3>1, <3>2, ForwardStep
    <2> QED BY <1>2, <2>1, <2>2, <2>3, <2>4 DEF Next
<1> QED BY <1>1, <1>2

-----------------------------------------------------------------------------
(***************************************************************************)
(* What the invariant says.                                                *)
(***************************************************************************)
\* A running request holds what it owns; who is not running holds nothing.
LEMMA Running ==
    ASSUME HybridInv
    PROVE  /\ Active \subseteq Req
           /\ \A u \in Req : /\ req[u] \in ReqType /\ Lengths(req[u]) /\ Apart(req[u])
                             /\ (u \notin Active => req[u] = NewReq)
                             /\ (OwnPages(req[u]) # {} \/ OwnSlots(req[u]) # {} => u \in Active)
<1>1. AllInv(cache, freePages, freeSlots, kv, state, req)
    BY DEF HybridInv
<1>2. Active \subseteq Req
    BY DEF Active
<1>3. ASSUME NEW u \in Req
      PROVE  /\ req[u] \in ReqType /\ Lengths(req[u]) /\ Apart(req[u])
             /\ (u \notin Active => req[u] = NewReq)
    <2>1. req[u] \in ReqType /\ Lengths(req[u]) /\ Apart(req[u])
        BY <1>1, FitsIs
    <2>2. u \notin Active => req[u].phase = "new"
        BY DEF Active
    <2> QED BY <2>1, <2>2 DEF Lengths
<1> QED BY <1>2, <1>3, NewReqIs

\* A page is in one place.
LEMMA PageIsOwned ==
    ASSUME HybridInv, NEW p \in Page
    PROVE  freePages[p] + Cardinality({k \in Keys(cache.tree) : cache.tree.pages[k] = p})
             + Cardinality({at \in UNION {{u} \X OwnPositions(req[u]) : u \in Active} :
                              req[at[1]].row[at[2]] = p}) = 1
<1> DEFINE f == cache.tree.pages
           K == {k \in Keys(cache.tree) : f[k] = p}
           R == {at \in UNION {{u} \X OwnPositions(req[u]) : u \in Active} :
                    req[at[1]].row[at[2]] = p}
<1>1. Pool(Page, freePages, f, PagesOf(req)) /\ \A u \in Req : PagesOf(req)[u] = OwnPages(req[u])
    BY DEF HybridInv, AllInv, PagesOf
<1>2. /\ IsInjective(f) /\ \A u \in Req : OwnPages(req[u]) \cap Range(f) = {}
      /\ freePages[p] = IF p \in Range(f) \/ \E u \in Req : p \in OwnPages(req[u]) THEN 0 ELSE 1
      /\ \A u, v \in Req : p \in OwnPages(req[u]) /\ p \in OwnPages(req[v]) => u = v
    BY <1>1 DEF Pool
<1>3. /\ Active \subseteq Req
      /\ \A u \in Req : Apart(req[u]) /\ (OwnPages(req[u]) # {} => u \in Active)
    BY Running
<1>4. ASSUME NEW at \in R
      PROVE  \E u \in Active : \E i \in OwnPositions(req[u]) :
                at = <<u, i>> /\ req[u].row[i] = p /\ p \in OwnPages(req[u])
    <2>1. PICK u \in Active : at \in {u} \X OwnPositions(req[u])
        OBVIOUS
    <2>2. PICK i \in OwnPositions(req[u]) : at = <<u, i>>
        BY <2>1
    <2>3. req[u].row[i] = p
        BY <2>2
    <2> QED BY <2>2, <2>3 DEF OwnPages
<1>5. \A u \in Active : \A i \in OwnPositions(req[u]) : req[u].row[i] = p => <<u, i>> \in R
    OBVIOUS
<1>6. K = {k \in DOMAIN f : f[k] = p}
    BY DEF Keys
<1>7. Cardinality({}) = 0
    BY FS_EmptySet
<1> SUFFICES freePages[p] + Cardinality(K) + Cardinality(R) = 1
    OBVIOUS
<1> HIDE DEF R, K, f
<1>8. CASE p \in Range(f)
    <2>1. PICK k \in DOMAIN f : f[k] = p
        BY <1>8 DEF Range
    <2>2. K = {k}
        BY <1>2, <1>6, <2>1 DEF IsInjective
    <2>3. Cardinality(K) = 1
        BY <2>2, FS_Singleton
    <2>4. R = {} /\ freePages[p] = 0
        BY <1>2, <1>3, <1>4, <1>8
    <2> QED BY <1>7, <2>3, <2>4
<1>9. CASE \E u \in Req : p \in OwnPages(req[u])
    <2>1. PICK u \in Req : p \in OwnPages(req[u])
        BY <1>9
    <2>2. PICK i \in OwnPositions(req[u]) : req[u].row[i] = p
        BY <2>1 DEF OwnPages
    <2>3. u \in Active
        BY <1>3, <2>1
    <2>4. R = {<<u, i>>}
        <3>1. <<u, i>> \in R
            BY <1>5, <2>2, <2>3
        <3>2. ASSUME NEW at \in R PROVE at = <<u, i>>
            <4>1. PICK v \in Active : \E j \in OwnPositions(req[v]) :
                     at = <<v, j>> /\ req[v].row[j] = p /\ p \in OwnPages(req[v])
                BY <1>4
            <4>2. v = u
                BY <1>2, <1>3, <2>1, <4>1
            <4> QED BY <1>3, <2>2, <4>1, <4>2 DEF Apart
        <3> QED BY <3>1, <3>2
    <2>5. Cardinality(R) = 1
        BY <2>4, FS_Singleton
    <2>6. p \notin Range(f) /\ freePages[p] = 0
        BY <1>2, <2>1
    <2>7. K = {}
        BY <1>6, <2>6 DEF Range
    <2> QED BY <1>7, <2>5, <2>6, <2>7
<1>10. CASE p \notin Range(f) /\ \A u \in Req : p \notin OwnPages(req[u])
    <2>1. R = {} /\ freePages[p] = 1
        BY <1>2, <1>3, <1>4, <1>10
    <2>2. K = {}
        BY <1>6, <1>10 DEF Range
    <2> QED BY <1>7, <2>1, <2>2
<1> QED BY <1>8, <1>9, <1>10

\* A slot is in one place.
LEMMA SlotIsOwned ==
    ASSUME HybridInv, NEW s \in Slot
    PROVE  freeSlots[s] + Cardinality({e \in Snapshots(cache) : cache.snap[e] = s})
             + Cardinality({u \in Active : req[u].live = s})
             + Cardinality({at \in Active \X {1, 2} : req[at[1]].track[at[2]] = s}) = 1
<1> DEFINE f == cache.snap
           K == {e \in Snapshots(cache) : f[e] = s}
           A == {u \in Active : req[u].live = s}
           B == {at \in Active \X {1, 2} : req[at[1]].track[at[2]] = s}
<1>1. Pool(Slot, freeSlots, f, SlotsOf(req)) /\ \A u \in Req : SlotsOf(req)[u] = OwnSlots(req[u])
    BY DEF HybridInv, AllInv, SlotsOf
<1>2. /\ IsInjective(f) /\ \A u \in Req : OwnSlots(req[u]) \cap Range(f) = {}
      /\ freeSlots[s] = IF s \in Range(f) \/ \E u \in Req : s \in OwnSlots(req[u]) THEN 0 ELSE 1
      /\ \A u, v \in Req : s \in OwnSlots(req[u]) /\ s \in OwnSlots(req[v]) => u = v
    BY <1>1 DEF Pool
<1>3. /\ Active \subseteq Req
      /\ \A u \in Req : Apart(req[u]) /\ (OwnSlots(req[u]) # {} => u \in Active)
    BY Running
<1>4. \A u \in Active : /\ req[u].phase # "new"
                        /\ OwnSlots(req[u]) = {req[u].live, req[u].track[1], req[u].track[2]}
    BY DEF Active, OwnSlots
<1>5. \A u \in A : u \in Active /\ s \in OwnSlots(req[u])
    BY <1>4
<1>6. \A at \in B : \E u \in Active : \E i \in {1, 2} :
         at = <<u, i>> /\ req[u].track[i] = s /\ s \in OwnSlots(req[u])
    BY <1>4
<1>7. \A u \in Active : \A i \in {1, 2} : req[u].track[i] = s => <<u, i>> \in B
    OBVIOUS
<1>8. \A u \in Active : req[u].live = s => u \in A
    OBVIOUS
<1>9. K = {e \in DOMAIN f : f[e] = s}
    BY DEF Snapshots
<1>10. Cardinality({}) = 0
    BY FS_EmptySet
<1>11. \A u \in A : req[u].live = s
    OBVIOUS
<1> SUFFICES freeSlots[s] + Cardinality(K) + Cardinality(A) + Cardinality(B) = 1
    OBVIOUS
<1> HIDE DEF A, B, K, f
<1>12. CASE s \in Range(f)
    <2>1. PICK e \in DOMAIN f : f[e] = s
        BY <1>12 DEF Range
    <2>2. K = {e}
        BY <1>2, <1>9, <2>1 DEF IsInjective
    <2>3. Cardinality(K) = 1
        BY <2>2, FS_Singleton
    <2>4. A = {} /\ B = {} /\ freeSlots[s] = 0
        BY <1>2, <1>3, <1>5, <1>6, <1>12
    <2> QED BY <1>10, <2>3, <2>4
<1>13. CASE \E u \in Req : s \in OwnSlots(req[u])
    <2>1. PICK u \in Req : s \in OwnSlots(req[u])
        BY <1>13
    <2>2. u \in Active
        BY <1>3, <2>1
    <2>3. s \notin Range(f) /\ freeSlots[s] = 0
        BY <1>2, <2>1
    <2>4. K = {}
        BY <1>9, <2>3 DEF Range
    <2>5. /\ \A v \in A : v = u
          /\ \A at \in B : \E i \in {1, 2} : at = <<u, i>> /\ req[u].track[i] = s
        BY <1>2, <1>3, <1>5, <1>6, <2>1
    <2>6. /\ req[u].live # req[u].track[1] /\ req[u].live # req[u].track[2]
          /\ req[u].track[1] # req[u].track[2]
        BY <1>3, <1>4, <2>2 DEF Apart
    <2>7. CASE req[u].live = s
        <3>1. A = {u}
            BY <1>8, <2>2, <2>5, <2>7
        <3>2. B = {}
            BY <2>5, <2>6, <2>7
        <3>3. Cardinality(A) = 1
            BY <3>1, FS_Singleton
        <3> QED BY <1>10, <2>3, <2>4, <3>2, <3>3
    <2>8. ASSUME NEW i \in {1, 2}, req[u].track[i] = s
          PROVE  freeSlots[s] + Cardinality(K) + Cardinality(A) + Cardinality(B) = 1
        <3>1. A = {}
            BY <1>11, <2>5, <2>6, <2>8
        <3>2. B = {<<u, i>>}
            BY ZenonT(90), <1>7, <2>2, <2>5, <2>6, <2>8
        <3>3. Cardinality(B) = 1
            BY <3>2, FS_Singleton
        <3> QED BY <1>10, <2>3, <2>4, <3>1, <3>3
    <2>9. \/ req[u].live = s
          \/ \E i \in {1, 2} : req[u].track[i] = s
        BY <1>4, <2>1, <2>2
    <2> QED BY <2>7, <2>8, <2>9
<1>14. CASE s \notin Range(f) /\ \A u \in Req : s \notin OwnSlots(req[u])
    <2>1. A = {} /\ B = {} /\ freeSlots[s] = 1
        BY <1>2, <1>3, <1>5, <1>6, <1>14
    <2>2. K = {}
        BY <1>9, <1>14 DEF Range
    <2> QED BY <1>10, <2>1, <2>2
<1> QED BY <1>12, <1>13, <1>14

\* What a row reads is its request's.
LEMMA MatchesIs ==
    ASSUME HybridInv
    PROVE  KVMatches
<1>1. AllInv(cache, freePages, freeSlots, kv, state, req)
    BY DEF HybridInv
<1>2. TreeWrote(cache, kv, state)
    BY <1>1 DEF AllInv
<1>3. ASSUME NEW u \in Active, NEW i \in 1..Len(req[u].row)
      PROVE  kv[req[u].row[i]] = Content(u, Min({i * PageSize, req[u].cached}))
    <2> DEFINE r == req[u]  a == Len(r.handle) \div PageSize  L == Len(r.row)  y == i * PageSize
    <2>1. /\ HTree(cache, Handles(req)) /\ r \in ReqType /\ Lengths(r) /\ Shared(cache, r)
          /\ Wrote(u, r, kv, state) /\ r.handle \in Snapshots(cache) \cup {<<>>}
        <3>1. u \in Req
            BY DEF Active
        <3> QED BY <1>1, <3>1, FitsIs
    <2>2. \A m : Content(u, m) = <<Owner(u, r), Upto(r.text, m)>>
        BY DEF Content, Owner
    <2>3. /\ a \in Nat /\ L \in Nat /\ a <= L /\ OwnPositions(r) = (a + 1)..L
          /\ \A j \in 1..a : /\ j * PageSize <= r.cached
                             /\ Upto(r.handle, j * PageSize) \in Keys(cache.tree)
                             /\ Upto(r.handle, j * PageSize) = Upto(r.text, j * PageSize)
        BY <2>1, RowIs
    <2>4. i \in Nat /\ i \in 1..L /\ r.cached \in Nat
        BY <2>1 DEF ReqType
    <2>5. y \in Nat
        BY <2>4, TimesIs
    <2>6. Min({y, r.cached}) = Least(y, r.cached)
        <3>1. y \in Int /\ r.cached \in Int
            BY <2>4, <2>5
        <3> HIDE DEF y, r
        <3> QED BY <3>1, MinIs DEF Least
    <2>7. CASE i \in OwnPositions(r)
        BY <2>1, <2>2, <2>6, <2>7 DEF Wrote
    <2>8. CASE i \notin OwnPositions(r)
        <3>1. i \in 1..a
            <4> HIDE DEF r, a, L
            <4> QED BY <2>3, <2>4, <2>8
        <3> DEFINE key == Upto(r.handle, y)
        <3>2. /\ y <= r.cached /\ key \in Keys(cache.tree) /\ key = Upto(r.text, y)
              /\ r.row[i] = cache.tree.pages[key]
            BY <2>1, <2>3, <3>1 DEF Shared
        <3>3. kv[r.row[i]] = <<NoImage, key>>
            BY <1>2, <3>2 DEF TreeWrote
        <3>4. ~r.image
            <4>1. r.handle # <<>>
                <5>1. CASE r.handle = <<>>
                    <6>1. a = 0
                        BY <5>1, PageSizeAssumption
                    <6> QED BY <3>1, <6>1
                <5> QED BY <5>1
            <4> QED BY <2>1, <4>1 DEF Lengths
        <3>5. Least(y, r.cached) = y
            BY <3>2 DEF Least
        <3> HIDE DEF key, y
        <3> QED BY <2>2, <2>6, <3>2, <3>3, <3>4, <3>5 DEF Owner, y
    <2> QED BY <2>7, <2>8
<1> QED BY <1>2, <1>3 DEF KVMatches, TreeWrote

\* The counters of the tree.
LEMMA TreeIsExact ==
    ASSUME HybridInv
    PROVE  TreeExact
<1> DEFINE tree == cache.tree  H == Handles(req)
           unlocked == {k \in Keys(tree) : tree.refs[NodeOf(tree, k)] = 0}
           idle == {e \in Snapshots(cache) : cache.mref[e] = 0}
<1>1. Tree(tree, Token) /\ Counts(tree, H) /\ Snapped(cache, H) /\ DOMAIN H = Req
      /\ \A u \in Req : H[u] = req[u].handle
    BY DEF HybridInv, AllInv, HTree, Handles
<1>2. /\ Active \subseteq Req /\ \A u \in Req : u \notin Active => H[u] = <<>>
    BY <1>1, Running, NewReqIs
<1> HIDE DEF H, tree
<1>3. \A k \in Keys(tree) : tree.refs[NodeOf(tree, k)] = 0 <=> k \notin UsedKeys(tree, H)
    BY <1>1, KeyCounts
<1>4. unlocked = Keys(tree) \ UsedKeys(tree, H)
    BY <1>3
<1>5. UsedKeys(tree, H) \subseteq Keys(tree)
    BY DEF UsedKeys
<1>6. idle = Idle(cache)
    BY DEF Idle
<1> HIDE DEF unlocked, idle
<1>7. Keys(tree) \ unlocked = UsedKeys(tree, H)
    BY <1>4, <1>5
<1>8. ASSUME NEW e \in Nodes(tree)
      PROVE  tree.refs[e] = Cardinality({u \in Active : IsPrefix(e, req[u].handle)})
    <2>1. e \in Seq(Token) /\ e # <<>>
        BY <1>1, WholeKeyIs DEF Tree
    <2>2. \A u \in Req : IsPrefix(e, H[u]) => u \in Active
        BY <1>2, <2>1, EmptyPrefix
    <2>3. Users(H, e) = {u \in Active : IsPrefix(e, req[u].handle)}
        BY <1>1, <1>2, <2>2 DEF Users
    <2> QED BY <1>1, <2>3 DEF Counts
<1>9. ASSUME NEW e \in Snapshots(cache)
      PROVE  cache.mref[e] = Cardinality({u \in Active : req[u].handle = e})
    <2>1. e # <<>>
        <3>1. HTree(cache, H)
            BY DEF HybridInv, AllInv, H
        <3> QED BY <3>1, SnapshotsIs
    <2>2. Holders(H, e) = {u \in Active : req[u].handle = e}
        BY <1>1, <1>2, <2>1 DEF Holders
    <2> QED BY <1>1, <2>2 DEF Snapped
<1>10. \A u \in Active : req[u].handle = <<>> \/ req[u].handle \in Snapshots(cache)
    BY <1>1, <1>2 DEF Snapped
<1>11. /\ Snapshots(cache) \subseteq Nodes(tree)
       /\ \A e \in Nodes(tree) :
             (\A f \in Nodes(tree) : ~IsStrictPrefix(e, f)) => e \in Snapshots(cache)
    BY <1>1 DEF Snapped, Leaves, tree
<1>12. /\ tree.evictable = PageSize * Cardinality(unlocked)
       /\ tree.protected = PageSize * Cardinality(Keys(tree) \ unlocked)
    BY <1>1, <1>4, <1>7 DEF Counts
<1>13. /\ cache.evictable = Cardinality(idle)
       /\ cache.protected = Cardinality(Snapshots(cache) \ idle)
    BY <1>1, <1>6 DEF Snapped
<1> QED BY <1>8, <1>9, <1>10, <1>11, <1>12, <1>13 DEF TreeExact, tree, unlocked, idle

-----------------------------------------------------------------------------
(***************************************************************************)
(* Room.  A slot is free, held by a request, or a snapshot's, and it can   *)
(* be evicted unless a request has locked it: four for each running        *)
(* request, less the one that a commit has just given away.                *)
(***************************************************************************)
\* When no slot is free and no snapshot idle, the requests have them all.
LEMMA SlotsLeft ==
    ASSUME NEW h, NEW H, HTree(h, H), DOMAIN H = Req,
           NEW list, NEW q, NEW u \in Req, NEW O, Pool(Slot, list, h.snap, O),
           \A v \in Req : O[v] \subseteq {q[v].live, q[v].track[1], q[v].track[2]},
           NEW i \in {1, 2}, q[u].track[i] \notin O[u]
    PROVE  There(list) # {} \/ Idle(h) # {}
<1> SUFFICES ASSUME There(list) = {}, Idle(h) = {} PROVE FALSE
    OBVIOUS
<1> DEFINE A == {h.snap[H[v]] : v \in Req}  B == {q[v].live : v \in Req}
           C == {q[v].track[3 - i] : v \in Req}  D == {q[v].track[i] : v \in Req \ {u}}
           n == Cardinality(Req)
<1>1. \A s \in Slot : s \in Range(h.snap) \/ \E v \in Req : s \in O[v]
    BY DEF Pool, There
<1>2. \A e \in Snapshots(h) : \E v \in Req : H[v] = e
    BY IdleSnapshot
<1>3. Range(h.snap) \subseteq A
    BY <1>2 DEF Range, Snapshots
<1>4. ASSUME NEW v \in Req PROVE O[v] \subseteq B \cup C \cup D
    <2>1. {q[v].live, q[v].track[1], q[v].track[2]} = {q[v].live, q[v].track[3 - i], q[v].track[i]}
        <3>1. i = 1 \/ i = 2
            OBVIOUS
        <3> QED BY <3>1
    <2>2. CASE v = u
        BY <2>1, <2>2
    <2>3. CASE v # u
        BY <2>1, <2>3
    <2> QED BY <2>2, <2>3
<1>5. Slot \subseteq (A \cup B) \cup (C \cup D)
    <2> HIDE DEF A, B, C, D
    <2> QED BY <1>1, <1>3, <1>4
<1>6. n \in Nat /\ IsFiniteSet(Req) /\ IsFiniteSet(Req \ {u}) /\ Cardinality(Req \ {u}) = n - 1
    BY PoolAssumption, FS_CardinalityType, FS_RemoveElement
<1>7. IsFiniteSet(A) /\ Cardinality(A) \in Nat /\ Cardinality(A) <= n
    <2> DEFINE f == [v \in Req |-> h.snap[H[v]]]
    <2>1. A = {f[v] : v \in Req}
        OBVIOUS
    <2> HIDE DEF A, f, n
    <2> QED BY <1>6, <2>1, ImageIs DEF n
<1>8. IsFiniteSet(B) /\ Cardinality(B) \in Nat /\ Cardinality(B) <= n
    <2> DEFINE f == [v \in Req |-> q[v].live]
    <2>1. B = {f[v] : v \in Req}
        OBVIOUS
    <2> HIDE DEF B, f, n
    <2> QED BY <1>6, <2>1, ImageIs DEF n
<1>9. IsFiniteSet(C) /\ Cardinality(C) \in Nat /\ Cardinality(C) <= n
    <2> DEFINE f == [v \in Req |-> q[v].track[3 - i]]
    <2>1. C = {f[v] : v \in Req}
        OBVIOUS
    <2> HIDE DEF C, f, n
    <2> QED BY <1>6, <2>1, ImageIs DEF n
<1>10. IsFiniteSet(D) /\ Cardinality(D) \in Nat /\ Cardinality(D) <= n - 1
    <2> DEFINE f == [v \in Req \ {u} |-> q[v].track[i]]
    <2>1. D = {f[v] : v \in Req \ {u}}
        OBVIOUS
    <2> HIDE DEF D, f, n
    <2> QED BY <1>6, <2>1, ImageIs
<1> HIDE DEF A, B, C, D, n
<1>11. /\ IsFiniteSet(A \cup B) /\ Cardinality(A \cup B) \in Nat
       /\ Cardinality(A \cup B) <= Cardinality(A) + Cardinality(B)
       /\ IsFiniteSet(C \cup D) /\ Cardinality(C \cup D) \in Nat
       /\ Cardinality(C \cup D) <= Cardinality(C) + Cardinality(D)
    BY <1>7, <1>8, <1>9, <1>10, PartsIs
<1> DEFINE X == A \cup B  Y == C \cup D
<1>12. IsFiniteSet(X \cup Y) /\ Cardinality(X \cup Y) \in Nat
       /\ Cardinality(X \cup Y) <= Cardinality(X) + Cardinality(Y)
    <2> HIDE DEF X, Y
    <2>1. IsFiniteSet(X) /\ IsFiniteSet(Y)
        BY <1>11 DEF X, Y
    <2> QED BY <2>1, PartsIs
<1>13. Cardinality(Slot) <= Cardinality(X \cup Y)
    BY <1>5, <1>12, FS_Subset
<1>14. Cardinality(X \cup Y) <= 4 * n - 1
    BY <1>6, <1>7, <1>8, <1>9, <1>10, <1>11, <1>12
<1>15. Cardinality(Slot) = 4 * n + SnapshotSlots
    <2>1. 4 * n + SnapshotSlots \in Nat
        BY <1>6, PoolAssumption
    <2> DEFINE m == 4 * n + SnapshotSlots
    <2>2. Slot = 1..m
        BY DEF Slot, SlotsPerReq, n
    <2> HIDE DEF m
    <2>3. Cardinality(1..m) = m
        BY <2>1, FS_Interval DEF m
    <2> QED BY <2>2, <2>3 DEF m
<1> QED BY <1>6, <1>12, <1>13, <1>14, <1>15, PoolAssumption

\* A commit finds a slot: a free one, or that of an idle snapshot.
LEMMA SlotFound ==
    ASSUME NEW h, NEW fp, NEW fs, NEW k, NEW st, NEW q, NEW u, NEW t, NEW g, NEW c, NEW dups,
           Commits(h, fp, fs, k, st, q, u, t, g, c, dups), ~HasSnapshot(h, t),
           NEW S, S \in IF Count(fs) < 1 THEN SnapshotEvictions(c, 1 - Count(fs)) ELSE {{}}
    PROVE  Count(Put(fs, FreedSlots(c, S))) # 0
<1> DEFINE H == Owning(Handles(q), u, t)  i == 3 - q[u].next
           O == Owning(SlotsOf(q), u, OwnSlots(q[u]) \ {FrozenSlot(q[u])})
           list == Put(fs, FreedSlots(c, S))
<1>1. /\ Committed(h, fp, fs, k, st, q, u, t, g, c, dups)
      /\ AllInv(h, fp, fs, k, st, q) /\ u \in Req
    BY CommitsIs DEF Commits
<1>2. HTree(c, H) /\ Pool(Slot, fs, c.snap, O)
    BY <1>1 DEF Committed
<1>3. DOMAIN H = Req /\ q[u].next \in {1, 2} /\ q[u].track[i] = FrozenSlot(q[u])
    <2>1. q[u] \in ReqType
        BY <1>1, FitsIs
    <2> QED BY <2>1 DEF Owning, Handles, ReqType, FrozenSlot
<1>4. i \in {1, 2}
    BY <1>3
<1>5. q[u].track[i] \notin O[u]
    BY <1>1, <1>3 DEF Owning, SlotsOf
<1>6. \A v \in Req : O[v] \subseteq {q[v].live, q[v].track[1], q[v].track[2]}
    BY <1>1 DEF Owning, SlotsOf, OwnSlots
<1> HIDE DEF H, O, i
<1>7. There(fs) # {} \/ Idle(c) # {}
    BY <1>1, <1>2, <1>3, <1>4, <1>5, <1>6, SlotsLeft
<1>8. /\ DOMAIN fs = Slot /\ IsFiniteSet(There(fs)) /\ Count(fs) = Cardinality(There(fs))
      /\ Count(fs) \in Nat
    BY <1>2, PoolList, PoolsFinite
<1>9. S \in SUBSET Idle(c)
    <2>1. {} \in SUBSET Idle(c)
        OBVIOUS
    <2>2. S \in SnapshotEvictions(c, 1 - Count(fs)) => S \in SUBSET Idle(c)
        BY DEF SnapshotEvictions, kSubset, Idle
    <2> QED BY <2>1, <2>2
<1>10. FreedSlots(c, S) = {c.snap[e] : e \in S} /\ FreedSlots(c, S) \subseteq Slot
    <2>1. FreedSlots(c, S) = {c.snap[e] : e \in S}
        BY <1>2, <1>9, WithoutIs
    <2>2. S \subseteq DOMAIN c.snap /\ Range(c.snap) \subseteq Slot
        BY <1>2, <1>9 DEF Idle, Snapshots, Pool
    <2> QED BY <2>1, <2>2 DEF Range
<1>11. There(list) # {}
    <2>1. FreedSlots(c, S) \subseteq There(list) /\ There(fs) \subseteq There(list)
        BY <1>2, <1>10, PutThere
    <2>2. CASE There(fs) # {}
        BY <2>1, <2>2
    <2>3. CASE There(fs) = {}
        <3>1. Count(fs) = 0
            BY <1>8, <2>3, FS_EmptySet
        <3>2. S \in SnapshotEvictions(c, 1)
            BY <3>1
        <3>3. IsFiniteSet(Idle(c)) /\ Cardinality(Idle(c)) \in Nat /\ Cardinality(Idle(c)) # 0
            BY <1>2, <1>7, <2>3, SnapshotsIs, FS_CardinalityType, FS_EmptySet
        <3>4. Cardinality(S) = Min({1, Cardinality(Idle(c))})
            BY <3>2 DEF SnapshotEvictions, kSubset, Idle
        <3>5. Min({1, Cardinality(Idle(c))}) = 1
            BY <3>3, MinIs
        <3>6. S # {}
            BY <3>4, <3>5, FS_EmptySet
        <3> QED BY <1>10, <2>1, <3>6
    <2> QED BY <2>2, <2>3
<1>12. Count(list) = Cardinality(There(list)) /\ IsFiniteSet(There(list))
    <2> DEFINE c2 == WithoutSnapshots(c, S)
    <2>1. Pool(Slot, list, c2.snap, O)
        <3>1. Pool(Page, Put(fp, dups), c.tree.pages, Owning(PagesOf(q), u, Rest(q[u], t)))
              /\ TreeWrote(c, k, st)
            BY <1>1 DEF Committed
        <3> QED BY <1>2, <1>9, <3>1, EvictPools
    <2> HIDE DEF c2, list
    <2> QED BY <2>1, PoolList, PoolsFinite
<1> QED BY <1>11, <1>12, FS_EmptySet

-----------------------------------------------------------------------------
(***************************************************************************)
(* A page that no row points at is on the free list or may be evicted.  A  *)
(* forward takes what its request no longer needs; a commit that puts the  *)
(* tree's page for one of its own lets that one go; and admission counts   *)
(* in tokens at least what it has to count in pages.                       *)
(***************************************************************************)
Pinned(q) == UNION {Range(q[u].row) : u \in Req}
Spare(q) == Cardinality(Page \ Pinned(q))

\* The pages a request may still take: its last token is never forwarded.
Need(r) == IF r.phase = "new" THEN 0 ELSE Pages(MaxDeviceLen(r) - 1) - Pages(r.cached)
Needs(q) == [u \in Req |-> Need(q[u])]

Budget(r) ==
    r.phase # "new" =>
        /\ r.output >= 1 /\ r.cached < MaxDeviceLen(r)
        /\ PageSize * Pages(MaxDeviceLen(r) - 1) <= MaxDeviceLen(r)

Covered(q) == (\A u \in Req : Budget(q[u])) /\ SumOver(Needs(q), Req) <= Spare(q)

CoverInv == dead = "no" /\ Covered(req)

\* The pages of a request with its last token hold no more tokens than admission
\* counts it with.
RoomyShapes ==
    \A s \in Shapes : PageSize * Pages((Len(s.prompt) + s.output) - 1) <= Len(s.prompt) + s.output

\* A position of a row is its request's own, or holds the tree's page for a part of
\* the handle; every such page is there.
LEMMA RowPageIs ==
    ASSUME NEW h, NEW H, HTree(h, H), NEW r \in ReqType, Lengths(r), Shared(h, r),
           r.handle \in Snapshots(h) \cup {<<>>}
    PROVE  /\ \A i \in 1..Len(r.row) :
                 \/ i \in OwnPositions(r)
                 \/ \E j \in Keys(h.tree) : IsPrefix(j, r.handle) /\ r.row[i] = h.tree.pages[j]
           /\ \A j \in Keys(h.tree) : IsPrefix(j, r.handle) => h.tree.pages[j] \in Range(r.row)
           /\ OwnPages(r) \subseteq Range(r.row) /\ OwnPositions(r) \subseteq 1..Len(r.row)
           /\ Range(r.row) = {r.row[i] : i \in 1..Len(r.row)} /\ Range(r.row) \subseteq Page
<1> DEFINE k == r.handle  a == Len(k) \div PageSize  e == Len(r.row)
<1>1. k \in Seq(Token) /\ r.row \in Seq(Page)
    BY DEF ReqType
<1>2. /\ a \in Nat /\ e \in Nat /\ a <= e /\ Len(k) % PageSize = 0
      /\ OwnPositions(r) = (a + 1)..e
      /\ \A i \in 1..a : i \in 1..e /\ Upto(k, i * PageSize) \in Keys(h.tree)
    BY RowIs
<1>3. /\ \A i \in 1..a : IsPrefix(Upto(k, i * PageSize), k)
      /\ \A j \in WholeKeys(Token) : IsPrefix(j, k) =>
            /\ Len(j) \div PageSize \in 1..a /\ (Len(j) \div PageSize) * PageSize = Len(j)
            /\ j = Upto(k, Len(j))
    BY <1>1, <1>2, PageKeyIs
<1>4. Keys(h.tree) \subseteq WholeKeys(Token)
    BY DEF HTree, Tree
<1>5. \A i \in 1..a : r.row[i] = h.tree.pages[Upto(k, i * PageSize)]
    BY DEF Shared
<1>6. DOMAIN r.row = 1..e
    BY <1>1
<1>7. Range(r.row) = {r.row[i] : i \in 1..e} /\ Range(r.row) \subseteq Page
    <2>1. \A i \in 1..e : r.row[i] \in Page
        BY <1>1
    <2> QED BY <1>6, <2>1 DEF Range
<1> HIDE DEF k, a, e
<1>8. ASSUME NEW j \in Keys(h.tree), IsPrefix(j, k) PROVE h.tree.pages[j] \in Range(r.row)
    <2> DEFINE i == Len(j) \div PageSize
    <2>1. i \in 1..a /\ i * PageSize = Len(j) /\ j = Upto(k, Len(j))
        BY <1>3, <1>4, <1>8
    <2>2. r.row[i] = h.tree.pages[j]
        BY <1>5, <2>1
    <2> HIDE DEF i
    <2> QED BY <1>2, <1>7, <2>1, <2>2
<1>9. ASSUME NEW i \in 1..e, i \notin OwnPositions(r)
      PROVE  \E j \in Keys(h.tree) : IsPrefix(j, k) /\ r.row[i] = h.tree.pages[j]
    <2>1. i \in 1..a
        BY <1>2, <1>9
    <2> QED BY <1>2, <1>3, <1>5, <2>1
<1>10. OwnPositions(r) \subseteq 1..e
    BY <1>2
<1>11. OwnPages(r) \subseteq Range(r.row)
    BY <1>7, <1>10 DEF OwnPages
<1> QED BY <1>7, <1>8, <1>9, <1>10, <1>11 DEF k, e

\* X is the pages that are held and those of the keys in use.
Pins(c, H, O, X) ==
    /\ \A p \in X : \/ \E u \in Req : p \in O[u]
                    \/ \E k \in UsedKeys(c, H) : p = c.pages[k]
    /\ \A u \in Req : O[u] \subseteq X
    /\ \A k \in UsedKeys(c, H) : c.pages[k] \in X

\* A page outside X is free or may be evicted.
LEMMA SpareOf ==
    ASSUME NEW c, Tree(c, Token), NEW H, Counts(c, H),
           NEW list, NEW O, Pool(Page, list, c.pages, O), NEW X, Pins(c, H, O, X)
    PROVE  /\ X \subseteq Page /\ Count(list) \in Nat
           /\ \E n \in Nat : /\ c.evictable = PageSize * n
                             /\ n + Count(list) = Cardinality(Page \ X)
<1> DEFINE used == UsedKeys(c, H)  idle == Keys(c) \ used
           U == {c.pages[k] : k \in idle}  F == There(list)
<1>1. IsFiniteSet(Keys(c)) /\ c.evictable = PageSize * Cardinality(idle) /\ used \subseteq Keys(c)
    BY DEF Tree, Counts, UsedKeys
<1>2. /\ Count(list) = Cardinality(F) /\ IsFiniteSet(F) /\ Count(list) \in Nat
      /\ F = {x \in Page : list[x] > 0}
    BY PoolList, PoolsFinite
<1>3. \A j, k \in Keys(c) : c.pages[j] = c.pages[k] => j = k
    BY DEF Pool, IsInjective, Keys
<1>4. IsFiniteSet(U) /\ Cardinality(U) = Cardinality(idle) /\ Cardinality(idle) \in Nat
    <2>1. IsFiniteSet(idle)
        <3>1. idle \in SUBSET Keys(c)
            OBVIOUS
        <3> QED BY <1>1, <3>1, FS_Subset
    <2> DEFINE g == c.pages
    <2>2. \A j, k \in idle : g[j] = g[k] => j = k
        BY <1>3
    <2> HIDE DEF idle, g
    <2>3. IsFiniteSet({g[k] : k \in idle}) /\ Cardinality({g[k] : k \in idle}) = Cardinality(idle)
        BY <2>1, <2>2, ImageIs
    <2> QED BY <2>1, <2>3, FS_CardinalityType DEF g
<1>5. /\ \A k \in Keys(c) : c.pages[k] \in Range(c.pages)
      /\ \A p \in Range(c.pages) : \E k \in Keys(c) : p = c.pages[k]
    BY DEF Keys, Range
<1>6. /\ Range(c.pages) \subseteq Page
      /\ \A u \in Req : O[u] \subseteq Page /\ O[u] \cap Range(c.pages) = {}
      /\ \A p \in Page :
            list[p] = IF p \in Range(c.pages) \/ \E u \in Req : p \in O[u] THEN 0 ELSE 1
    BY DEF Pool
<1>7. X \subseteq Page
    BY <1>1, <1>5, <1>6 DEF Pins
<1>8. ASSUME NEW p \in X PROVE p \notin U /\ p \notin F
    <2>1. CASE \E u \in Req : p \in O[u]
        <3>1. p \notin Range(c.pages) /\ list[p] = 0
            BY <1>6, <2>1
        <3> QED BY <1>2, <1>5, <3>1
    <2>2. CASE \E k \in used : p = c.pages[k]
        <3>1. PICK k \in used : p = c.pages[k]
            BY <2>2
        <3>2. p \in Range(c.pages) /\ k \in Keys(c)
            BY <1>1, <1>5, <3>1
        <3>3. p \notin F
            BY <1>2, <1>6, <3>2
        <3>4. p \notin U
            BY <1>1, <1>3, <3>1
        <3> QED BY <3>3, <3>4
    <2> QED BY <2>1, <2>2 DEF Pins
<1>9. ASSUME NEW p \in Page \ X PROVE p \in U \cup F
    <2>1. \A u \in Req : p \notin O[u]
        BY DEF Pins
    <2>2. CASE p \notin Range(c.pages)
        <3>1. list[p] = 1
            BY <1>6, <2>1, <2>2
        <3> QED BY <1>2, <3>1
    <2>3. CASE p \in Range(c.pages)
        <3>1. PICK k \in Keys(c) : p = c.pages[k]
            BY <1>5, <2>3
        <3>2. k \notin used
            BY <3>1 DEF Pins
        <3> QED BY <3>1, <3>2
    <2> QED BY <2>2, <2>3
<1>10. Page \ X = U \cup F
    <2>1. U \subseteq Page /\ F \subseteq Page
        BY <1>2, <1>5, <1>6
    <2> HIDE DEF U, F
    <2> QED BY <1>8, <1>9, <2>1
<1>11. U \cap F = {}
    <2>1. \A p \in U : p \in Range(c.pages)
        BY <1>5
    <2> HIDE DEF U, F
    <2> QED BY <1>2, <1>6, <2>1
<1> HIDE DEF U, F, idle
<1>12. Cardinality(Page \ X) = Cardinality(U) + Cardinality(F) /\ Cardinality(F) \in Nat
    BY <1>2, <1>4, <1>10, <1>11, PartsIs
<1>13. Cardinality(idle) + Count(list) = Cardinality(Page \ X)
    BY <1>2, <1>4, <1>12
<1> QED BY <1>1, <1>2, <1>4, <1>7, <1>13

\* The rows hold what is held, and the pages of the keys in use.
LEMMA RowsPin ==
    ASSUME NEW h, NEW fp, NEW fs, NEW k, NEW st, NEW q, AllInv(h, fp, fs, k, st, q)
    PROVE  /\ Pins(h.tree, Handles(q), PagesOf(q), Pinned(q))
           /\ Tree(h.tree, Token) /\ Counts(h.tree, Handles(q))
           /\ Pool(Page, fp, h.tree.pages, PagesOf(q))
           /\ \A u \in Req : /\ q[u] \in ReqType /\ Lengths(q[u])
                             /\ OwnPages(q[u]) \subseteq Range(q[u].row)
                             /\ Range(q[u].row) = {q[u].row[i] : i \in 1..Len(q[u].row)}
                             /\ Range(q[u].row) \subseteq Page
                             /\ Range(q[u].row) \subseteq OwnPages(q[u]) \cup Range(h.tree.pages)
                             /\ \A i \in 1..Len(q[u].row) : i \in OwnPositions(q[u])
                                                           \/ q[u].row[i] \in Range(h.tree.pages)
<1> DEFINE c == h.tree  H == Handles(q)  O == PagesOf(q)
<1>1. HTree(h, H) /\ Tree(c, Token) /\ Counts(c, H) /\ Pool(Page, fp, c.pages, O) /\ DOMAIN H = Req
    BY DEF AllInv, HTree, Handles
<1>2. \A u \in Req : /\ q[u] \in ReqType /\ Lengths(q[u]) /\ Shared(h, q[u]) /\ H[u] = q[u].handle
                     /\ q[u].handle \in Snapshots(h) \cup {<<>>} /\ O[u] = OwnPages(q[u])
    BY FitsIs DEF PagesOf
<1>3. ASSUME NEW u \in Req
      PROVE  /\ \A i \in 1..Len(q[u].row) :
                 \/ i \in OwnPositions(q[u])
                 \/ \E j \in Keys(c) : IsPrefix(j, H[u]) /\ q[u].row[i] = c.pages[j]
             /\ \A j \in Keys(c) : IsPrefix(j, H[u]) => c.pages[j] \in Range(q[u].row)
             /\ O[u] \subseteq Range(q[u].row)
             /\ Range(q[u].row) = {q[u].row[i] : i \in 1..Len(q[u].row)}
             /\ Range(q[u].row) \subseteq Page
    <2> DEFINE r == q[u]
    <2>1. /\ HTree(h, H) /\ r \in ReqType /\ Lengths(r) /\ Shared(h, r)
          /\ r.handle \in Snapshots(h) \cup {<<>>} /\ H[u] = r.handle /\ O[u] = OwnPages(r)
        BY <1>1, <1>2
    <2> HIDE DEF r, H, O
    <2>2. /\ \A i \in 1..Len(r.row) :
                 \/ i \in OwnPositions(r)
                 \/ \E j \in Keys(c) : IsPrefix(j, r.handle) /\ r.row[i] = c.pages[j]
          /\ \A j \in Keys(c) : IsPrefix(j, r.handle) => c.pages[j] \in Range(r.row)
          /\ OwnPages(r) \subseteq Range(r.row)
          /\ Range(r.row) = {r.row[i] : i \in 1..Len(r.row)} /\ Range(r.row) \subseteq Page
        BY <2>1, RowPageIs
    <2> QED BY <2>1, <2>2 DEF r
<1> HIDE DEF H, O
<1>4. ASSUME NEW u \in Req, NEW p \in Range(q[u].row)
      PROVE  p \in O[u] \/ \E j \in UsedKeys(c, H) : p = c.pages[j]
    <2>1. PICK i \in 1..Len(q[u].row) : p = q[u].row[i]
        BY <1>3
    <2>2. CASE i \in OwnPositions(q[u])
        BY <1>2, <2>1, <2>2 DEF OwnPages
    <2>3. CASE i \notin OwnPositions(q[u])
        <3>1. PICK j \in Keys(c) : IsPrefix(j, H[u]) /\ p = c.pages[j]
            BY <1>3, <2>1, <2>3
        <3> QED BY <1>1, <3>1 DEF UsedKeys, Users
    <2> QED BY <2>2, <2>3
<1>5. \A p \in Pinned(q) : \/ \E u \in Req : p \in O[u]
                           \/ \E j \in UsedKeys(c, H) : p = c.pages[j]
    BY <1>4 DEF Pinned
<1>6. \A u \in Req : O[u] \subseteq Pinned(q)
    BY <1>3 DEF Pinned
<1>7. ASSUME NEW j \in UsedKeys(c, H) PROVE c.pages[j] \in Pinned(q)
    <2>1. j \in Keys(c) /\ \E u \in Req : IsPrefix(j, H[u])
        BY <1>1 DEF UsedKeys, Users
    <2> QED BY <1>3, <2>1 DEF Pinned
<1>8. Pins(c, H, O, Pinned(q))
    BY <1>5, <1>6, <1>7 DEF Pins
<1>9. ASSUME NEW u \in Req PROVE Range(q[u].row) \subseteq OwnPages(q[u]) \cup Range(c.pages)
    <2>1. \A j \in UsedKeys(c, H) : c.pages[j] \in Range(c.pages)
        BY DEF UsedKeys, Keys, Range
    <2> QED BY <1>2, <1>4, <2>1
<1>10. ASSUME NEW u \in Req, NEW i \in 1..Len(q[u].row), i \notin OwnPositions(q[u])
       PROVE  q[u].row[i] \in Range(c.pages)
    <2>1. \E j \in Keys(c) : q[u].row[i] = c.pages[j]
        BY <1>3, <1>10
    <2> QED BY <2>1 DEF Keys, Range
<1>11. ASSUME NEW u \in Req
       PROVE  /\ q[u] \in ReqType /\ Lengths(q[u]) /\ OwnPages(q[u]) \subseteq Range(q[u].row)
              /\ Range(q[u].row) = {q[u].row[i] : i \in 1..Len(q[u].row)}
              /\ Range(q[u].row) \subseteq Page
    BY <1>2, <1>3
<1> QED BY ZenonT(60), <1>1, <1>8, <1>9, <1>10, <1>11 DEF H, O

\* A page that no row points at is free, or may be evicted.
LEMMA SpareIs ==
    ASSUME NEW h, NEW fp, NEW fs, NEW k, NEW st, NEW q, AllInv(h, fp, fs, k, st, q)
    PROVE  /\ Pinned(q) \subseteq Page /\ Count(fp) \in Nat
           /\ \E n \in Nat : h.tree.evictable = PageSize * n /\ n + Count(fp) = Spare(q)
<1> DEFINE c == h.tree  H == Handles(q)  O == PagesOf(q)  X == Pinned(q)
<1>1. Pins(c, H, O, X) /\ Tree(c, Token) /\ Counts(c, H) /\ Pool(Page, fp, c.pages, O)
    BY RowsPin
<1> HIDE DEF c, H, O, X
<1>2. /\ X \subseteq Page /\ Count(fp) \in Nat
      /\ \E n \in Nat : c.evictable = PageSize * n /\ n + Count(fp) = Cardinality(Page \ X)
    BY <1>1, SpareOf
<1> QED BY <1>2 DEF c, X, Spare

\* Below every node there is a leaf, which carries a snapshot.
LEMMA LeafBelow ==
    ASSUME NEW h, NEW H, HTree(h, H), NEW f \in Nodes(h.tree)
    PROVE  \E e \in Snapshots(h) : IsPrefix(f, e)
<1> DEFINE N == Nodes(h.tree)  Below(e) == {g \in N : IsPrefix(e, g)}
           A == {Below(e) : e \in Below(f)}
<1>1. IsFiniteSet(N) /\ N \subseteq Seq(Token) /\ Leaves(h.tree) \subseteq Snapshots(h)
    BY SnapshotsIs, WholeKeyIs DEF HTree, Tree, Snapped
<1>2. f \in Below(f)
    BY <1>1, PrefixOrder
<1>3. A \subseteq SUBSET N /\ A # {}
    BY <1>2
<1> HIDE DEF A
<1>4. PICK l \in A : \A s \in A : s \subseteq l => s = l
    <2> HIDE DEF N
    <2> QED BY <1>1, <1>3, MinimalSubset
<1>5. PICK e \in Below(f) : l = Below(e)
    BY <1>4 DEF A
<1>6. e \in N /\ IsPrefix(f, e) /\ e \in Below(e)
    BY <1>1, <1>5, PrefixOrder
<1>7. ASSUME NEW g \in N, IsStrictPrefix(e, g) PROVE FALSE
    <2>1. IsPrefix(e, g) /\ e # g
        BY <1>7 DEF IsStrictPrefix
    <2>2. g \in Below(f)
        BY <1>1, <1>6, <2>1, PrefixOrder
    <2>3. Below(g) \in A
        BY <2>2 DEF A
    <2>4. Below(g) \subseteq Below(e)
        BY <1>1, <1>6, <2>1, PrefixOrder
    <2>5. Below(g) = Below(e)
        <3> HIDE DEF Below
        <3> QED BY <1>4, <1>5, <2>3, <2>4
    <2>6. IsPrefix(g, e)
        BY <1>6, <2>5
    <2> QED BY <1>1, <1>6, <2>1, <2>6, PrefixOrder
<1>8. e \in Leaves(h.tree)
    BY <1>6, <1>7 DEF Leaves
<1> QED BY <1>1, <1>6, <1>8

\* With all unlocked snapshots the nodes go that nobody's handle runs through.
LEMMA AllReclaimed ==
    ASSUME NEW h, NEW H, HTree(h, H), NEW top, top = {e \in Snapshots(h) : h.tree.refs[e] = 0}
    PROVE  /\ Reclaimed(h, top) = {e \in Nodes(h.tree) : h.tree.refs[e] = 0}
           /\ top \subseteq Reclaimed(h, top)
           /\ Size(h.tree, Reclaimed(h, top)) = h.tree.evictable
<1> DEFINE c == h.tree  N == Nodes(c)  open == {e \in N : c.refs[e] = 0}
<1>1. /\ Tree(c, Token) /\ Counts(c, H) /\ Snapshots(h) \subseteq N /\ N \subseteq Seq(Token)
      /\ N \subseteq Keys(c)
    BY WholeKeyIs DEF HTree, Tree, Snapped
<1>2. \A u \in DOMAIN H : H[u] \in Seq(Token)
    <2>1. <<>> \in Seq(Token)
        OBVIOUS
    <2> QED BY <1>1, <2>1 DEF Counts
<1>3. ASSUME NEW e \in open, NEW f \in N, IsPrefix(e, f) PROVE f \in open
    <2>1. \A u \in DOMAIN H : ~IsPrefix(e, H[u])
        BY UnusedNode
    <2>2. ASSUME NEW u \in DOMAIN H PROVE ~IsPrefix(f, H[u])
        BY <1>1, <1>2, <1>3, <2>1, PrefixOrder
    <2> QED BY <2>2, UnusedNode
<1>4. \A e \in Reclaimed(h, top) : e \in open
    <2>1. ASSUME NEW e \in Reclaimed(h, top) PROVE e \in open
        <3>1. e \in N /\ IsPrefix(e, e)
            BY <1>1, PrefixOrder DEF Reclaimed
        <3> QED BY <3>1 DEF Reclaimed
    <2> QED BY <2>1
<1>5. ASSUME NEW e \in open PROVE e \in Reclaimed(h, top)
    <2>1. ASSUME NEW f \in N, IsPrefix(e, f)
          PROVE  c.refs[f] = 0 /\ (f \in top \/ f \notin Snapshots(h)) /\ \E s \in top : IsPrefix(f, s)
        <3>1. f \in open
            BY <1>3, <2>1
        <3>2. PICK s \in Snapshots(h) : IsPrefix(f, s)
            BY LeafBelow
        <3>3. s \in open
            BY <1>1, <1>3, <3>1, <3>2
        <3> QED BY <3>1, <3>2, <3>3
    <2> QED BY <2>1 DEF Reclaimed
<1>6. Reclaimed(h, top) = open
    <2> HIDE DEF open
    <2> QED BY <1>4, <1>5
<1>7. top \subseteq open
    BY <1>1
<1>8. Size(c, open) = c.evictable
    <2>1. EvictedKeys(c, open) = Keys(c) \ UsedKeys(c, H)
        <3>1. \A k \in Keys(c) : /\ NodeOf(c, k) \in N
                                 /\ c.refs[NodeOf(c, k)] = 0 <=> k \notin UsedKeys(c, H)
            BY <1>1, KeyCounts, NodeOfIs
        <3> QED BY <3>1 DEF EvictedKeys
    <2>2. Size(c, open) = PageSize * Cardinality(EvictedKeys(c, open))
        <3>1. open \in SUBSET N
            OBVIOUS
        <3> HIDE DEF open, N
        <3> QED BY <1>1, <3>1, SizeIs DEF N
    <2> QED BY <1>1, <2>1, <2>2 DEF Counts
<1> QED BY <1>6, <1>7, <1>8

\* While enough is evictable, evict_full finds snapshots to take: all unlocked ones
\* would do, and of what does a smallest set is one that it may pop.
LEMMA LeavesToEvict ==
    ASSUME NEW h, NEW H, HTree(h, H), NEW size \in Int, size > 0, size <= h.tree.evictable
    PROVE  LeafEvictions(h, size) # {}
<1> DEFINE c == h.tree  N == Nodes(c)  top == {e \in Snapshots(h) : c.refs[e] = 0}
           Gone(S) == Size(c, Reclaimed(h, S))
           B == {S \in SUBSET top : S \subseteq Reclaimed(h, S) /\ Gone(S) >= size}
<1>1. /\ Tree(c, Token) /\ IsFiniteSet(top) /\ top \subseteq N /\ N \subseteq Seq(Token)
      /\ Leaves(c) \subseteq Snapshots(h)
    <2>1. IsFiniteSet(Snapshots(h)) /\ top \in SUBSET Snapshots(h)
        BY SnapshotsIs
    <2>2. IsFiniteSet(top)
        BY <2>1, FS_Subset
    <2>3. Tree(c, Token) /\ Snapshots(h) \subseteq N /\ N \subseteq Seq(Token)
        BY WholeKeyIs DEF HTree, Tree, Snapped
    <2>4. Leaves(c) \subseteq Snapshots(h)
        BY DEF HTree, Snapped
    <2> QED BY <2>1, <2>2, <2>3, <2>4
<1>2. ASSUME NEW S PROVE /\ Gone(S) \in Int
                         /\ Reclaimed(h, S) = {} => Gone(S) = 0
    <2>1. Reclaimed(h, S) \in SUBSET N
        BY DEF Reclaimed
    <2> DEFINE R == Reclaimed(h, S)
    <2> HIDE DEF R
    <2>2. Size(c, R) = PageSize * Cardinality(EvictedKeys(c, R))
          /\ Cardinality(EvictedKeys(c, R)) \in Nat
        BY <1>1, <2>1, SizeIs DEF R
    <2>3. R = {} => Cardinality(EvictedKeys(c, R)) = 0
        BY FS_EmptySet DEF EvictedKeys
    <2> QED BY <2>2, <2>3, PageSizeAssumption DEF R
<1>3. top \in B
    <2>1. top \subseteq Reclaimed(h, top) /\ Gone(top) = c.evictable
        BY AllReclaimed
    <2> QED BY <1>2, <2>1
<1>4. PICK m \in B : \A s \in B : s \subseteq m => s = m
    <2>1. B \subseteq SUBSET top /\ B # {}
        BY <1>3
    <2> HIDE DEF B, top
    <2> QED BY <1>1, <2>1, MinimalSubset
<1>5. m \in SUBSET top /\ m \subseteq Reclaimed(h, m) /\ Gone(m) >= size
    BY <1>4
<1>6. m # {}
    <2>1. Reclaimed(h, {}) = {}
        <3>1. ASSUME NEW e \in Reclaimed(h, {}) PROVE FALSE
            <4>1. e \in N /\ IsPrefix(e, e)
                BY <1>1, PrefixOrder DEF Reclaimed
            <4> QED BY <4>1 DEF Reclaimed
        <3> QED BY <3>1
    <2>2. m = {} => Gone(m) = 0
        BY <1>2, <2>1
    <2> QED BY <1>2, <1>5, <2>2
<1> DEFINE Above(e) == {f \in m : IsPrefix(f, e)}
<1>7. PICK last \in m : \A e \in m : Above(e) \subseteq Above(last) => Above(e) = Above(last)
    <2> DEFINE A == {Above(e) : e \in m}
    <2>1. A \subseteq SUBSET m /\ A # {}
        BY <1>6
    <2>2. IsFiniteSet(m)
        <3> HIDE DEF top
        <3> QED BY <1>1, <1>5, FS_Subset
    <2> HIDE DEF A
    <2>3. PICK l \in A : \A s \in A : s \subseteq l => s = l
        BY <2>1, <2>2, MinimalSubset
    <2>4. PICK last \in m : l = Above(last)
        BY <2>3 DEF A
    <2>5. \A e \in m : Above(e) \in A
        BY DEF A
    <2> HIDE DEF Above, B
    <2> QED BY <2>3, <2>4, <2>5
<1>8. m \subseteq Seq(Token)
    <2> HIDE DEF top
    <2> QED BY <1>1, <1>5
<1>9. ASSUME NEW e \in m, IsPrefix(e, last) PROVE e = last
    <2>1. e \in Seq(Token) /\ last \in Seq(Token)
        BY <1>8
    <2>2. Above(e) \subseteq Above(last)
        BY <1>8, <1>9, PrefixOrder
    <2>3. last \in Above(last)
        BY <2>1, PrefixOrder
    <2>4. last \in Above(e)
        BY <1>7, <2>2, <2>3
    <2> QED BY <1>9, <2>1, <2>4, PrefixOrder
<1> DEFINE less == m \ {last}
<1>10. less \subseteq Reclaimed(h, less)
    <2> SUFFICES ASSUME NEW e \in less PROVE e \in Reclaimed(h, less)
        OBVIOUS
    <2>1. e \in m /\ e # last /\ e \in N /\ e \in Seq(Token) /\ last \in Seq(Token)
        BY <1>1, <1>5, <1>8
    <2>2. ASSUME NEW f \in N, IsPrefix(e, f)
          PROVE  c.refs[f] = 0 /\ (f \in less \/ f \notin Snapshots(h)) /\ \E s \in less : IsPrefix(f, s)
        <3>1. f \in Seq(Token)
            BY <1>1
        <3>2. c.refs[f] = 0 /\ (f \in m \/ f \notin Snapshots(h)) /\ \E s \in m : IsPrefix(f, s)
            BY <1>5, <2>1, <2>2 DEF Reclaimed
        <3>3. ~IsPrefix(f, last)
            BY <1>9, <2>1, <2>2, <3>1, PrefixOrder
        <3>4. f # last
            BY <2>1, <3>3, PrefixOrder
        <3> QED BY <3>2, <3>3, <3>4
    <2> HIDE DEF less
    <2> QED BY <2>1, <2>2 DEF Reclaimed
<1>11. Gone(less) < size
    <2>1. less \notin B
        BY <1>4
    <2>2. less \in SUBSET top
        BY <1>5
    <2>3. ~(Gone(less) >= size)
        <3> HIDE DEF top, less, Gone
        <3> QED BY <1>10, <2>1, <2>2
    <2> HIDE DEF less
    <2>4. Gone(less) \in Int
        BY <1>2
    <2> QED BY <2>3, <2>4
<1>12. m \in SUBSET {e \in Snapshots(h) \cup Leaves(c) : c.refs[e] = 0}
    BY <1>5
<1> HIDE DEF B
<1> QED BY <1>5, <1>10, <1>11, <1>12 DEF LeafEvictions, Leaves

\* What is spared when the pages of D are let go and those of T are taken.
LEMMA SpareMoves ==
    ASSUME NEW X \in SUBSET Page, NEW Y, NEW D \in SUBSET X, NEW T, IsFiniteSet(T),
           Y \subseteq (X \ D) \cup T
    PROVE  /\ Cardinality(Page \ X) \in Nat /\ Cardinality(Page \ Y) \in Nat
           /\ Cardinality(D) \in Nat /\ Cardinality(T) \in Nat
           /\ Cardinality(Page \ X) + Cardinality(D) <= Cardinality(Page \ Y) + Cardinality(T)
<1> DEFINE A == Page \ X  B == Page \ Y
<1>1. IsFiniteSet(A) /\ IsFiniteSet(B) /\ IsFiniteSet(D)
    <2>1. A \in SUBSET Page /\ B \in SUBSET Page /\ D \in SUBSET Page
        OBVIOUS
    <2> QED BY <2>1, PoolsFinite, FS_Subset
<1>2. A \cap D = {} /\ A \cup D \subseteq B \cup T
    OBVIOUS
<1> HIDE DEF A, B
<1>3. /\ Cardinality(A) \in Nat /\ Cardinality(D) \in Nat
      /\ Cardinality(A \cup D) = Cardinality(A) + Cardinality(D)
    BY <1>1, <1>2, PartsIs
<1>4. /\ Cardinality(B) \in Nat /\ Cardinality(T) \in Nat /\ IsFiniteSet(B \cup T)
      /\ Cardinality(B \cup T) \in Nat /\ Cardinality(B \cup T) <= Cardinality(B) + Cardinality(T)
    BY <1>1, PartsIs
<1>5. Cardinality(A \cup D) <= Cardinality(B \cup T)
    BY <1>2, <1>4, FS_Subset
<1> QED BY <1>3, <1>4, <1>5 DEF A, B

\* The pages left to take, for a last token that is not forwarded.
LEMMA LeftIs ==
    ASSUME NEW m \in Nat, NEW c \in Nat, c < m
    PROVE  /\ Pages(m - 1) \in Nat /\ Pages(c) \in Nat /\ Pages(m - 1) - Pages(c) \in Nat
           /\ PageSize * Pages(m - 1) \in Nat /\ PageSize * Pages(c) \in Nat
           /\ PageSize * (Pages(m - 1) - Pages(c)) = PageSize * Pages(m - 1) - PageSize * Pages(c)
           /\ c <= PageSize * Pages(c) /\ PageSize * Pages(m - 1) <= m + PageSize - 2
<1> DEFINE n == m - 1  a == Pages(n)  b == Pages(c)
<1>1. n \in Nat /\ c <= n
    OBVIOUS
<1> HIDE DEF n
<1>2. a \in Nat /\ b \in Nat /\ b <= a
    BY <1>1, PagesGrow
<1>3. c <= b * PageSize /\ a * PageSize < n + PageSize
    BY <1>1, PagesIs
<1> HIDE DEF a, b
<1>4. /\ PageSize * a \in Nat /\ PageSize * b \in Nat /\ a * PageSize = PageSize * a
      /\ b * PageSize = PageSize * b /\ PageSize * (a - b) = PageSize * a - PageSize * b
    BY <1>2, PageSizeAssumption
<1>5. a - b \in Nat
    BY <1>2
<1>6. PageSize * a <= m + PageSize - 2
    BY <1>1, <1>3, <1>4, PageSizeAssumption DEF n
<1> QED BY <1>1, <1>2, <1>3, <1>4, <1>5, <1>6 DEF a, b, n

LEMMA NeedIs ==
    ASSUME NEW r \in ReqType, Budget(r)
    PROVE  /\ Need(r) \in Nat
           /\ r.phase # "new" => /\ MaxDeviceLen(r) \in Nat /\ r.cached \in Nat
                                 /\ r.output >= 1 /\ r.cached < MaxDeviceLen(r)
<1>1. CASE r.phase = "new"
    BY <1>1 DEF Need
<1>2. CASE r.phase # "new"
    <2>1. /\ MaxDeviceLen(r) \in Nat /\ r.cached \in Nat /\ r.cached < MaxDeviceLen(r)
          /\ r.output >= 1
        BY SMTT(30), <1>2 DEF ReqType, Budget, MaxDeviceLen
    <2> QED BY <1>2, <2>1, LeftIs DEF Need
<1> QED BY <1>1, <1>2

\* What the requests need is covered, in pages of the pool.
Paid(q) ==
    /\ DOMAIN q = Req /\ \A v \in Req : q[v] \in ReqType
    /\ Pinned(q) \subseteq Page /\ Covered(q)

\* u goes on as x: it lets go of the pages of D, takes those of T, and needs that
\* much less.
Pays(q, u, x, D, T) ==
    /\ Budget(x) /\ Need(x) \in Nat
    /\ D \subseteq Range(q[u].row) /\ \A v \in Req \ {u} : Range(q[v].row) \cap D = {}
    /\ IsFiniteSet(T) /\ Range(x.row) \subseteq (Range(q[u].row) \ D) \cup T
    /\ Need(x) + Cardinality(T) <= Need(q[u]) + Cardinality(D)

LEMMA PaidStays ==
    ASSUME NEW q, Paid(q), NEW u \in Req, NEW x, NEW D, NEW T, Pays(q, u, x, D, T)
    PROVE  Covered([q EXCEPT ![u] = x])
<1> DEFINE p == [q EXCEPT ![u] = x]  f == Needs(q)  g == Needs(p)
<1>1. p[u] = x /\ \A v \in Req \ {u} : p[v] = q[v]
    BY DEF Paid
<1>2. \A v \in Req : Budget(q[v]) /\ Need(q[v]) \in Nat
    BY NeedIs DEF Paid, Covered
<1>3. \A v \in Req : Budget(p[v])
    BY <1>1, <1>2 DEF Pays
<1>4. /\ \A v \in Req : f[v] \in Nat /\ g[v] \in Nat
      /\ \A v \in Req \ {u} : g[v] = f[v]
      /\ f[u] = Need(q[u]) /\ g[u] = Need(x)
    BY <1>1, <1>2 DEF Needs, Pays
<1>5. Pinned(q) \in SUBSET Page /\ D \in SUBSET Pinned(q) /\ Pinned(p) \subseteq (Pinned(q) \ D) \cup T
    <2>1. D \subseteq Pinned(q)
        BY DEF Pinned, Pays
    <2>2. ASSUME NEW v \in Req PROVE Range(p[v].row) \subseteq (Pinned(q) \ D) \cup T
        <3>1. Range(q[v].row) \subseteq Pinned(q)
            BY DEF Pinned
        <3>2. CASE v = u
            <4>1. Range(x.row) \subseteq (Range(q[u].row) \ D) \cup T
                BY DEF Pays
            <4> QED BY <1>1, <3>1, <3>2, <4>1
        <3>3. CASE v # u
            <4>1. Range(q[v].row) \cap D = {}
                BY <3>3 DEF Pays
            <4> QED BY <1>1, <3>1, <3>3, <4>1
        <3> QED BY <3>2, <3>3
    <2>3. Pinned(p) = UNION {Range(p[v].row) : v \in Req}
        BY DEF Pinned
    <2> HIDE DEF p
    <2> QED BY <2>1, <2>2, <2>3 DEF Paid
<1> HIDE DEF p, f, g
<1>6. SumOver(g, Req) = SumOver(f, Req) + g[u] - f[u] /\ SumOver(f, Req) \in Nat
    <2>1. SumOver(f, Req) \in Nat
        BY <1>4, PoolAssumption, SumNat
    <2>2. SumOver(g, Req) = SumOver(f, Req) + g[u] - f[u]
        BY <1>4, PoolAssumption, SumUpdate
    <2> QED BY <2>1, <2>2
<1>7. /\ Spare(q) \in Nat /\ Spare(p) \in Nat /\ Cardinality(D) \in Nat /\ Cardinality(T) \in Nat
      /\ Spare(q) + Cardinality(D) <= Spare(p) + Cardinality(T)
    <2> DEFINE X == Pinned(q)  Y == Pinned(p)
    <2>1. X \in SUBSET Page /\ D \in SUBSET X /\ Y \subseteq (X \ D) \cup T /\ IsFiniteSet(T)
        BY <1>5 DEF Pays
    <2>2. Spare(q) = Cardinality(Page \ X) /\ Spare(p) = Cardinality(Page \ Y)
        BY DEF Spare
    <2> HIDE DEF X, Y
    <2> QED BY <2>1, <2>2, SpareMoves
<1>8. SumOver(f, Req) <= Spare(q)
    BY DEF Paid, Covered, f
<1>9. Need(x) + Cardinality(T) <= Need(q[u]) + Cardinality(D)
    BY DEF Pays
<1>10. SumOver(g, Req) <= Spare(p)
    BY <1>4, <1>6, <1>7, <1>8, <1>9
<1> QED BY <1>3, <1>10 DEF Covered, p, g

\* A step that takes no page.
LEMMA PaidIdle ==
    ASSUME NEW q, Paid(q), NEW u \in Req, NEW x, Budget(x), Need(x) \in Nat,
           Range(x.row) \subseteq Range(q[u].row), Need(x) <= Need(q[u])
    PROVE  Covered([q EXCEPT ![u] = x])
<1>1. IsFiniteSet({}) /\ Cardinality({}) = 0
    BY FS_EmptySet
<1>2. Need(q[u]) \in Nat
    BY NeedIs DEF Paid, Covered
<1>3. Need(x) + Cardinality({}) <= Need(q[u]) + Cardinality({})
    BY <1>1, <1>2
<1>4. Range(x.row) \subseteq (Range(q[u].row) \ {}) \cup {}
    OBVIOUS
<1>5. {} \subseteq Range(q[u].row) /\ \A v \in Req \ {u} : Range(q[v].row) \cap {} = {}
    OBVIOUS
<1>6. Pays(q, u, x, {}, {})
    BY <1>1, <1>3, <1>4, <1>5 DEF Pays
<1> QED BY <1>6, PaidStays

LEMMA PaidIs ==
    ASSUME NEW h, NEW fp, NEW fs, NEW k, NEW st, NEW q, AllInv(h, fp, fs, k, st, q), Covered(q)
    PROVE  Paid(q)
<1>1. DOMAIN q = Req
    BY DEF AllInv
<1>2. \A v \in Req : q[v] \in ReqType
    BY FitsIs
<1>3. Pinned(q) \subseteq Page
    BY SpareIs
<1> QED BY <1>1, <1>2, <1>3 DEF Paid

\* x has what r was admitted with, and has computed as much.
Alike(r, x) ==
    /\ x.phase # "new" /\ r.phase # "new"
    /\ x.cached = r.cached /\ x.prompt = r.prompt /\ x.output = r.output

LEMMA AlikeIs ==
    ASSUME NEW r, NEW x, Alike(r, x), Budget(r)
    PROVE  Budget(x) /\ Need(x) = Need(r)
BY DEF Alike, Budget, Need, MaxDeviceLen

LEMMA ReleaseCover ==
    ASSUME HybridInv, CoverInv, NEW u \in Req, NEW host, Release(u, host)
    PROVE  CoverInv'
<1>1. Paid(req) /\ dead = "no" /\ Need(req[u]) \in Nat
    <2>1. Paid(req) /\ dead = "no"
        BY PaidIs DEF HybridInv, CoverInv
    <2> QED BY <2>1, NeedIs DEF Paid, Covered
<1>2. req' = [req EXCEPT ![u] = NewReq] /\ dead' = dead
    BY DEF Release
<1>3. Budget(NewReq) /\ Need(NewReq) = 0 /\ Range(NewReq.row) = {}
    BY DEF Budget, Need, NewReq, Range
<1>4. Need(NewReq) \in Nat /\ Need(NewReq) <= Need(req[u]) /\ Range(NewReq.row) \subseteq Range(req[u].row)
    BY <1>1, <1>3
<1>5. Covered([req EXCEPT ![u] = NewReq])
    <2> DEFINE x == NewReq
    <2> HIDE DEF x
    <2>1. Budget(x) /\ Need(x) \in Nat /\ Range(x.row) \subseteq Range(req[u].row) /\ Need(x) <= Need(req[u])
        BY <1>3, <1>4 DEF x
    <2>2. Covered([req EXCEPT ![u] = x])
        BY <1>1, <2>1, PaidIdle
    <2> QED BY <2>2 DEF x
<1> QED BY <1>1, <1>2, <1>5 DEF CoverInv

\* The positions of I in u's own part of its row now point at other pages.
Swaps(h, fp, fs, k, st, q, u, I, w, x) ==
    /\ AllInv(h, fp, fs, k, st, q) /\ Covered(q) /\ u \in Req /\ Alike(q[u], x)
    /\ I \in SUBSET OwnPositions(q[u])
    /\ x.row = [i \in 1..Len(q[u].row) |-> IF i \in I THEN w[i] ELSE q[u].row[i]]

LEMMA SwapCover ==
    ASSUME NEW h, NEW fp, NEW fs, NEW k, NEW st, NEW q, NEW u, NEW I, NEW w, NEW x,
           Swaps(h, fp, fs, k, st, q, u, I, w, x)
    PROVE  Covered([q EXCEPT ![u] = x])
<1> DEFINE r == q[u]  e == Len(r.row)  D == {r.row[i] : i \in I}  T == {w[i] : i \in I}
<1>1. /\ AllInv(h, fp, fs, k, st, q) /\ Covered(q) /\ u \in Req /\ Alike(r, x)
      /\ I \in SUBSET OwnPositions(r)
      /\ x.row = [i \in 1..e |-> IF i \in I THEN w[i] ELSE r.row[i]]
    BY DEF Swaps
<1>2. /\ Pool(Page, fp, h.tree.pages, PagesOf(q))
      /\ \A v \in Req : /\ q[v] \in ReqType /\ Lengths(q[v])
                        /\ OwnPages(q[v]) \subseteq Range(q[v].row)
                        /\ Range(q[v].row) \subseteq OwnPages(q[v]) \cup Range(h.tree.pages)
      /\ Range(r.row) = {r.row[i] : i \in 1..e}
      /\ \A i \in 1..e : i \in OwnPositions(r) \/ r.row[i] \in Range(h.tree.pages)
    <2>0. AllInv(h, fp, fs, k, st, q)
        BY <1>1
    <2>1. Pool(Page, fp, h.tree.pages, PagesOf(q))
        BY ONLY <2>0, RowsPin
    <2>2. \A v \in Req : q[v] \in ReqType /\ Lengths(q[v])
        BY <2>0, FitsIs
    <2>6. \A v \in Req : OwnPages(q[v]) \subseteq Range(q[v].row)
        BY ONLY ZenonT(60), <2>0, RowsPin
    <2>3. Range(r.row) = {r.row[i] : i \in 1..e}
        <3>1. r.row \in Seq(Page)
            BY <1>1, <2>2 DEF ReqType
        <3> QED BY <3>1 DEF Range
    <2>4. \A v \in Req : Range(q[v].row) \subseteq OwnPages(q[v]) \cup Range(h.tree.pages)
        BY ONLY <2>0, RowsPin
    <2>5. \A v \in Req : \A i \in 1..Len(q[v].row) : i \in OwnPositions(q[v])
                                                     \/ q[v].row[i] \in Range(h.tree.pages)
        BY ONLY <2>0, RowsPin
    <2> QED BY ZenonT(60), <1>1, <2>1, <2>2, <2>3, <2>4, <2>5, <2>6
<1>3. Apart(r) /\ r.handle \in Seq(Token) /\ r.row \in Seq(Page)
    BY <1>1, FitsIs DEF ReqType
<1>4. IsFiniteSet(OwnPositions(r))
    <2> DEFINE a == Len(r.handle) \div PageSize + 1
    <2>1. a \in Int /\ e \in Int
        BY <1>3, PageSizeAssumption
    <2>2. OwnPositions(r) = a..e
        BY DEF OwnPositions
    <2> HIDE DEF a, e
    <2> QED BY <2>1, <2>2, FS_Interval
<1>5. Paid(q) /\ Budget(r) /\ Need(r) \in Nat
    <2>1. Paid(q)
        BY ONLY <1>1, PaidIs
    <2> QED BY <1>1, <2>1, NeedIs DEF Paid, Covered
<1>6. Budget(x) /\ Need(x) = Need(r)
    BY <1>1, <1>5, AlikeIs
<1>7. /\ \A v \in Req : OwnPages(q[v]) \cap Range(h.tree.pages) = {}
      /\ \A v \in Req \ {u} : OwnPages(r) \cap OwnPages(q[v]) = {}
    BY <1>1, <1>2 DEF Pool, PagesOf
<1>8. D \subseteq OwnPages(r)
    BY <1>1 DEF OwnPages
<1>9. \A v \in Req \ {u} : Range(q[v].row) \cap D = {}
    <2> HIDE DEF r, D
    <2>1. OwnPages(r) \cap Range(h.tree.pages) = {}
        BY <1>1, <1>7 DEF r
    <2> QED BY <1>2, <1>7, <1>8, <2>1
<1>10. IsFiniteSet(I) /\ Cardinality(I) \in Nat
    BY <1>1, <1>4, FS_Subset, FS_CardinalityType
<1>11. IsFiniteSet(D) /\ Cardinality(D) = Cardinality(I)
    <2> DEFINE f == r.row
    <2>1. \A i, j \in I : f[i] = f[j] => i = j
        BY <1>1, <1>3 DEF Apart
    <2> HIDE DEF f
    <2>2. IsFiniteSet({f[i] : i \in I}) /\ Cardinality({f[i] : i \in I}) = Cardinality(I)
        BY <1>10, <2>1, ImageIs
    <2> QED BY <2>2 DEF f
<1>12. IsFiniteSet(T) /\ Cardinality(T) <= Cardinality(I) /\ Cardinality(T) \in Nat
    BY <1>10, ImageIs
<1>13. D \subseteq Range(r.row)
    <2> HIDE DEF r, D
    <2> QED BY <1>1, <1>2, <1>8 DEF r
<1>14. Range(x.row) \subseteq (Range(r.row) \ D) \cup T
    <2>1. Range(x.row) = {x.row[i] : i \in 1..e}
        BY <1>1 DEF Range
    <2>2. ASSUME NEW i \in 1..e PROVE x.row[i] \in (Range(r.row) \ D) \cup T
        <3>1. CASE i \in I
            BY <1>1, <3>1
        <3>2. CASE i \notin I
            <4>1. x.row[i] = r.row[i] /\ r.row[i] \in Range(r.row)
                BY <1>1, <1>2, <3>2
            <4>2. CASE i \in OwnPositions(r)
                <5>1. \A j \in I : r.row[i] # r.row[j]
                    BY <1>1, <1>3, <3>2, <4>2 DEF Apart
                <5> QED BY <4>1, <5>1
            <4>3. CASE i \notin OwnPositions(r)
                <5>1. r.row[i] \in Range(h.tree.pages)
                    BY <1>2, <4>3
                <5>2. OwnPages(r) \cap Range(h.tree.pages) = {}
                    BY <1>1, <1>7
                <5> QED BY <1>8, <4>1, <5>1, <5>2
            <4> QED BY <4>2, <4>3
        <3> QED BY <3>1, <3>2
    <2> QED BY <2>1, <2>2
<1>15. Need(x) + Cardinality(T) <= Need(r) + Cardinality(D)
    <2> HIDE DEF D, T
    <2> QED BY <1>5, <1>6, <1>10, <1>11, <1>12
<1>16. Pays(q, u, x, D, T)
    <2> HIDE DEF D, T
    <2> QED BY <1>5, <1>6, <1>9, <1>12, <1>13, <1>14, <1>15 DEF Pays, r
<1> HIDE DEF D, T
<1> QED BY <1>1, <1>5, <1>16, PaidStays

\* A request whose row stays what it is.
LEMMA KeepCover ==
    ASSUME NEW h, NEW fp, NEW fs, NEW k, NEW st, NEW q, AllInv(h, fp, fs, k, st, q), Covered(q),
           NEW u \in Req, NEW x, Alike(q[u], x), x.row = q[u].row
    PROVE  Covered([q EXCEPT ![u] = x])
<1>1. Paid(q) /\ Budget(q[u]) /\ Need(q[u]) \in Nat
    <2>1. Paid(q)
        BY PaidIs
    <2> QED BY <2>1, NeedIs DEF Paid, Covered
<1>2. Budget(x) /\ Need(x) = Need(q[u])
    BY <1>1, AlikeIs
<1>3. Need(x) \in Nat /\ Need(x) <= Need(q[u])
    BY <1>1, <1>2
<1>4. Range(x.row) \subseteq Range(q[u].row)
    OBVIOUS
<1> QED BY <1>1, <1>2, <1>3, <1>4, PaidIdle

LEMMA RepointCover ==
    ASSUME NEW h, NEW fp, NEW fs, NEW k, NEW st, NEW q, AllInv(h, fp, fs, k, st, q), Covered(q),
           NEW u \in Req, NEW x, Alike(q[u], x), NEW c, NEW t, NEW hit,
           x.row = Repoint(q[u], c, t, hit)
    PROVE  Covered([q EXCEPT ![u] = x])
<1> DEFINE r == q[u]  e == Len(r.row)  a == Len(r.handle) \div PageSize
           b == Len(hit) \div PageSize  w == MatchedPages(c, t)
           I == {i \in 1..e : i > a /\ i <= b}
<1>1. r.handle \in Seq(Token) /\ r.row \in Seq(Page)
    BY FitsIs DEF ReqType
<1>2. a \in Int /\ e \in Int
    BY <1>1, PageSizeAssumption
<1>3. OwnPositions(r) = (a + 1)..e
    BY DEF OwnPositions
<1>4. x.row = [i \in 1..e |-> IF i > a /\ i <= b THEN w[i] ELSE r.row[i]]
    BY DEF Repoint
<1> HIDE DEF a, b, e, w
<1>5. I \in SUBSET OwnPositions(r)
    BY <1>2, <1>3
<1>6. x.row = [i \in 1..e |-> IF i \in I THEN w[i] ELSE r.row[i]]
    <2>1. \A i \in 1..e : (IF i > a /\ i <= b THEN w[i] ELSE r.row[i])
                            = IF i \in I THEN w[i] ELSE r.row[i]
        BY <1>2
    <2> HIDE DEF I, r
    <2> QED BY <1>4, <2>1
<1>7. Swaps(h, fp, fs, k, st, q, u, I, w, x)
    <2> HIDE DEF I
    <2> QED BY <1>5, <1>6 DEF Swaps, e
<1> HIDE DEF I
<1> QED BY ONLY <1>7, SwapCover

\* A commit lets go of the duplicates, takes as many pages of the tree at most, and
\* finds the slot it needs.
LEMMA CommitCover ==
    ASSUME HybridInv, dead = "no", NEW u \in Req, NEW r,
           AllInv(cache, freePages, freeSlots, kv, state, [req EXCEPT ![u] = r]),
           Covered([req EXCEPT ![u] = r]), r.phase = "decode", Commit(u, r)
    PROVE  CoverInv'
<1> DEFINE q == [req EXCEPT ![u] = r]
<1>1. /\ AllInv(cache, freePages, freeSlots, kv, state, q) /\ q[u] = r /\ Covered(q)
      /\ \A x : [q EXCEPT ![u] = x] = [req EXCEPT ![u] = x]
    BY DEF HybridInv, AllInv
<1> HIDE DEF q
<1>2. r \in ReqType
    BY <1>1, FitsIs
<1>3. CASE r.image \/ r.frozen = 0 \/ ~Aligned(r.frozen)
    <2> DEFINE x == [r EXCEPT !.frozen = IF r.image THEN @ ELSE 0]
    <2>1. req' = [req EXCEPT ![u] = x] /\ dead' = dead
        BY <1>3 DEF Commit
    <2>2. Alike(q[u], x) /\ x.row = q[u].row
        BY <1>1, <1>2 DEF Alike, ReqType
    <2> HIDE DEF x
    <2>3. Covered([q EXCEPT ![u] = x])
        BY <1>1, <2>2, KeepCover
    <2> QED BY <1>1, <2>1, <2>3 DEF CoverInv
<1>4. CASE ~(r.image \/ r.frozen = 0 \/ ~Aligned(r.frozen))
    <2> DEFINE t == Upto(r.text, r.frozen)
               hit == Walk(cache.tree, t)
               g == Donate(cache, t, r.row, FrozenSlot(r))
               h1 == UnlockHybrid(g, r.handle)
               c == LockHybrid(MatchHybrid(h1, t), t)
               dups == RowPages(r.row, Len(r.handle), Len(hit))
               moved == [r EXCEPT !.handle = t, !.frozen = 0, !.row = Repoint(r, c, t, hit)]
    <2>1. ~r.image /\ r.frozen # 0 /\ r.frozen % PageSize = 0
        <3>1. r.frozen \in Nat /\ AlignDown(r.frozen) = r.frozen
            BY <1>2, <1>4 DEF ReqType, Aligned
        <3> QED BY <1>4, <3>1, PagesIs
    <2>2. Commits(cache, freePages, freeSlots, kv, state, q, u, t, g, c, dups)
        BY <1>1, <2>1 DEF Commits
    <2>3. ResumePoint(h1, t) = t
        <3> HIDE DEF c, dups, g, t
        <3>1. Committed(cache, freePages, freeSlots, kv, state, q, u, t, g, c, dups)
            BY ONLY <2>2, CommitsIs
        <3> QED BY <1>1, <3>1 DEF Committed
    <2>4. Secured(MatchHybrid(h1, t), ResumePoint(h1, t)) = c
        BY <2>3 DEF Secured
    <2>5. ASSUME NEW x, Alike(r, x), x.row = Repoint(r, c, t, hit), dead' = dead,
                 req' = [req EXCEPT ![u] = x]
          PROVE  CoverInv'
        <3> HIDE DEF c, t, hit
        <3>1. /\ AllInv(cache, freePages, freeSlots, kv, state, q) /\ Covered(q) /\ u \in Req
              /\ Alike(q[u], x) /\ x.row = Repoint(q[u], c, t, hit)
            BY <1>1, <2>5
        <3>2. Covered([q EXCEPT ![u] = x])
            BY ONLY ZenonT(60), <3>1, RepointCover
        <3> QED BY <1>1, <2>5, <3>2 DEF CoverInv
    <2>6. CASE HasSnapshot(cache, t)
        <3>1. req' = [req EXCEPT ![u] = moved] /\ dead' = dead
            BY <1>4, <2>3, <2>4, <2>6 DEF Commit
        <3>2. Alike(r, moved) /\ moved.row = Repoint(r, c, t, hit)
            BY <1>1, <1>2 DEF Alike, ReqType
        <3> HIDE DEF moved, c, t, hit
        <3> QED BY <2>5, <3>1, <3>2
    <2>7. CASE ~HasSnapshot(cache, t)
        <3> DEFINE after(S) == Put(freeSlots, FreedSlots(c, S))
                   new(S) == Lowest(after(S), 1)[1]
        <3>1. PICK S \in Evictable(c, 1) :
                 Count(after(S)) # 0 =>
                     /\ dead' = dead
                     /\ req' = [req EXCEPT ![u] = [moved EXCEPT !.track[3 - r.next] = new(S)]]
            BY ZenonT(90), <1>4, <2>3, <2>4, <2>7 DEF Commit, SlotsBack
        <3>2. Count(after(S)) # 0
            <4>1. S \in IF Count(freeSlots) < 1 THEN SnapshotEvictions(c, 1 - Count(freeSlots)) ELSE {{}}
                BY <3>1 DEF Evictable
            <4> HIDE DEF c, dups, g, t
            <4> QED BY ONLY <2>2, <2>7, <4>1, SlotFound
        <3> DEFINE x == [moved EXCEPT !.track[3 - r.next] = new(S)]
        <3>3. req' = [req EXCEPT ![u] = x] /\ dead' = dead
            BY <3>1, <3>2
        <3>4. Alike(r, x) /\ x.row = Repoint(r, c, t, hit)
            <4>1. Alike(r, moved) /\ moved.row = Repoint(r, c, t, hit)
                BY <1>1, <1>2 DEF Alike, ReqType
            <4> HIDE DEF moved, c, t, hit
            <4>2. /\ x.phase = moved.phase /\ x.cached = moved.cached /\ x.prompt = moved.prompt
                  /\ x.output = moved.output /\ x.row = moved.row
                OBVIOUS
            <4> HIDE DEF x
            <4> QED BY <4>1, <4>2 DEF Alike
        <3> HIDE DEF x, c, t, hit
        <3> QED BY <2>5, <3>3, <3>4
    <2> QED BY <2>6, <2>7
<1> QED BY <1>3, <1>4

LEMMA DrainCover ==
    ASSUME HybridInv, CoverInv, NEW u \in Req, Drain(u)
    PROVE  CoverInv'
<1> DEFINE r == req[u]
           n == IF r.text[r.host + 1] = Opener /\ r.anchor = 0 THEN r.host + 1 ELSE r.anchor
           x == [r EXCEPT !.host = @ + 1, !.phase = "decode", !.anchor = n]
<1>1. /\ AllInv(cache, freePages, freeSlots, kv, state, req) /\ dead = "no" /\ Covered(req)
    BY DEF HybridInv, CoverInv
<1>2. r \in ReqType /\ Lengths(r)
    BY <1>1, FitsIs
<1>3. /\ Sampling(r) /\ r.host < Len(r.text)
      /\ \E stop \in BOOLEAN :
            IF stop \/ r.host + 1 >= MaxDeviceLen(r) THEN Release(u, r.host + 1)
            ELSE IF r.phase = "drain" THEN Commit(u, x)
            ELSE /\ req' = [req EXCEPT ![u] = x]
                 /\ UNCHANGED <<cache, freePages, freeSlots, kv, state, dead>>
    BY DEF Drain
<1>4. /\ r.host \in Nat /\ r.anchor \in Nat /\ r.phase # "new"
    BY <1>2, <1>3 DEF ReqType, Sampling
<1>5. x \in ReqType /\ x.phase = "decode" /\ Alike(r, x) /\ x.row = r.row
    <2>1. n \in Nat
        BY <1>4
    <2> HIDE DEF n
    <2> DEFINE m == r.host + 1  d == "decode"
    <2>2. m \in Nat /\ d \in Phases /\ x = [r EXCEPT !.host = m, !.phase = d, !.anchor = n]
        BY <1>4 DEF Phases
    <2>3. d # "new"
        OBVIOUS
    <2> HIDE DEF m, d, x, r
    <2>4. x \in ReqType /\ x.phase = d
        BY <1>2, <2>1, <2>2 DEF ReqType
    <2>5. Alike(r, x) /\ x.row = r.row
        BY <1>2, <1>4, <2>1, <2>2, <2>3 DEF ReqType, Alike
    <2> QED BY <2>4, <2>5 DEF d
<1>6. AllInv(cache, freePages, freeSlots, kv, state, [req EXCEPT ![u] = x])
    <2> HIDE DEF n
    <2>1. x = [req[u] EXCEPT !.host = @ + 1, !.phase = "decode", !.anchor = n]
        OBVIOUS
    <2> HIDE DEF x
    <2> QED BY <1>1, <1>3, <1>5, <2>1, DrainedIs
<1> HIDE DEF x
<1>7. Covered([req EXCEPT ![u] = x])
    BY <1>1, <1>5, KeepCover
<1>8. CASE Release(u, r.host + 1)
    BY <1>8, ReleaseCover
<1>9. CASE Commit(u, x)
    BY <1>1, <1>5, <1>6, <1>7, <1>9, CommitCover
<1>10. CASE req' = [req EXCEPT ![u] = x] /\ dead' = dead
    BY <1>1, <1>7, <1>10 DEF CoverInv
<1> QED BY <1>3, <1>8, <1>9, <1>10

LEMMA AbortCover ==
    ASSUME HybridInv, CoverInv, NEW u \in Req, Abort(u)
    PROVE  CoverInv'
<1>1. Release(u, req[u].host)
    BY DEF Abort
<1> QED BY <1>1, ReleaseCover

-----------------------------------------------------------------------------
(***************************************************************************)
(* A forward.                                                              *)
(***************************************************************************)
\* A row followed by n more pages.
LEMMA RowGrows ==
    ASSUME NEW row \in Seq(Page), NEW n \in Nat, NEW f, DOMAIN f = 1..n, f = [i \in 1..n |-> f[i]]
    PROVE  /\ Range(row \o f) \subseteq (Range(row) \ {}) \cup Range(f)
           /\ IsFiniteSet(Range(f)) /\ Cardinality(Range(f)) \in Nat /\ Cardinality(Range(f)) <= n
<1> DEFINE V == Range(f)  W == Page \cup V
<1>1. V = {f[i] : i \in 1..n}
    BY DEF Range
<1>2. IsFiniteSet(1..n) /\ Cardinality(1..n) = n
    BY FS_Interval
<1>3. IsFiniteSet(V) /\ Cardinality(V) \in Nat /\ Cardinality(V) <= n
    <2> DEFINE N == 1..n
    <2>1. IsFiniteSet(N) /\ V = {f[i] : i \in N} /\ Cardinality(N) = n
        BY <1>1, <1>2
    <2> HIDE DEF N, V
    <2> QED BY <2>1, ImageIs
<1>4. row \in Seq(W) /\ f \in Seq(W)
    <2>1. \A i \in 1..n : f[i] \in W
        BY <1>1
    <2> HIDE DEF W
    <2>2. f \in [1..n -> W]
        BY <2>1
    <2>3. f \in Seq(W)
        BY <2>2
    <2>4. Page \subseteq W
        BY DEF W
    <2>5. row \in Seq(W)
        BY <2>4
    <2> QED BY <2>3, <2>5
<1> HIDE DEF W, V
<1>5. ASSUME NEW p \in Range(row \o f) PROVE p \in Range(row) \cup V
    <2>1. PICK i \in DOMAIN (row \o f) : p = (row \o f)[i]
        BY DEF Range
    <2>2. i \in 1..(Len(row) + Len(f)) /\ Len(row) \in Nat /\ Len(f) \in Nat
        BY <1>4, <2>1
    <2>3. CASE i <= Len(row)
        <3>1. p = row[i] /\ i \in DOMAIN row
            BY <1>4, <2>1, <2>2, <2>3
        <3> QED BY <3>1 DEF Range
    <2>4. CASE ~(i <= Len(row))
        <3>1. p = f[i - Len(row)] /\ i - Len(row) \in DOMAIN f
            BY <1>4, <2>1, <2>2, <2>4
        <3> QED BY <3>1 DEF Range, V
    <2> QED BY <2>3, <2>4
<1> QED BY <1>3, <1>5 DEF V

\* A forward finds the pages it needs.
LEMMA ForwardFinds ==
    ASSUME HybridInv, CoverInv, NEW u \in Req, NEW n \in Nat, CanForward(req[u], n)
    PROVE  LET r == req[u]
           IN  /\ Victims(NewPages(r, n)) # {} /\ r \in ReqType /\ r.phase # "new" /\ r.output >= 1
               /\ NewPages(r, n) \in Nat /\ r.cached + n < MaxDeviceLen(r) /\ r.cached + n \in Nat
               /\ PageSize * Pages(MaxDeviceLen(r) - 1) <= MaxDeviceLen(r)
               /\ Need(r) \in Nat /\ Pages(MaxDeviceLen(r) - 1) - Pages(r.cached + n) \in Nat
               /\ Pages(MaxDeviceLen(r) - 1) - Pages(r.cached + n) + NewPages(r, n) = Need(r)
<1> DEFINE r == req[u]  m == MaxDeviceLen(r)  x == r.cached  y == r.cached + n  new == NewPages(r, n)
<1>1. /\ AllInv(cache, freePages, freeSlots, kv, state, req) /\ Covered(req)
      /\ CanForward(r, n)
    BY DEF HybridInv, CoverInv
<1>2. /\ r \in ReqType /\ Lengths(r) /\ HTree(cache, Handles(req)) /\ Budget(r) /\ Paid(req)
    BY <1>1, FitsIs, PaidIs DEF Covered
<1>3. /\ x \in Nat /\ y \in Nat /\ x < y /\ y <= Len(r.text) /\ Len(r.text) \in Nat
      /\ InPrompt(r) => r.prompt = Len(r.text)
      /\ ~InPrompt(r) => Sampling(r) /\ y = Len(r.text)
      /\ r.phase # "new" /\ new \in Nat /\ Pages(x) + new = Pages(y)
    BY <1>1, <1>2, ForwardLengths
<1>4. /\ Need(r) \in Nat /\ m \in Nat /\ r.output >= 1 /\ x < m /\ r.prompt \in Nat /\ r.output \in Nat
      /\ PageSize * Pages(m - 1) <= m /\ m = r.prompt + r.output
      /\ Need(r) = Pages(m - 1) - Pages(x)
    <2>1. Need(r) \in Nat /\ m \in Nat /\ r.output >= 1 /\ x < m
        BY <1>2, <1>3, NeedIs
    <2>2. r.prompt \in Nat /\ r.output \in Nat
        BY <1>2 DEF ReqType
    <2>3. PageSize * Pages(m - 1) <= m
        BY <1>2, <1>3 DEF Budget
    <2>4. m = r.prompt + r.output
        BY DEF MaxDeviceLen
    <2>5. Need(r) = Pages(m - 1) - Pages(x)
        BY <1>3 DEF Need
    <2> QED BY <2>1, <2>2, <2>3, <2>4, <2>5
<1>5. y < m
    <2>1. CASE InPrompt(r)
        <3> HIDE DEF m, y, r
        <3> QED BY SMTT(30), <1>3, <1>4, <2>1
    <2>2. CASE ~InPrompt(r)
        <3>1. Len(r.text) < m
            BY <1>1, <2>2 DEF CanForward
        <3> QED BY <1>3, <2>2, <3>1
    <2> QED BY <2>1, <2>2
<1> HIDE DEF r, m, x, y, new
<1>6. /\ Pages(x) \in Nat /\ Pages(y) \in Nat /\ Pages(m - 1) - Pages(y) \in Nat /\ Pages(m - 1) \in Nat
    BY <1>3, <1>4, <1>5, LeftIs
<1>7. Pages(m - 1) - Pages(y) + new = Need(r) /\ new <= Need(r)
    <2> DEFINE a == Pages(m - 1)  b == Pages(y)  c == Pages(x)  d == Need(r)
    <2>1. /\ a \in Nat /\ b \in Nat /\ c \in Nat /\ a - b \in Nat /\ new \in Nat
          /\ c + new = b /\ d = a - c
        BY <1>3, <1>4, <1>6
    <2> HIDE DEF a, b, c, d
    <2>2. (a - b) + new = d /\ new <= d
        BY <2>1
    <2> QED BY <2>2 DEF a, b, d
<1>8. Need(r) <= SumOver(Needs(req), Req) /\ SumOver(Needs(req), Req) \in Nat
    <2> DEFINE f == Needs(req)
    <2>1. \A v \in Req : f[v] \in Nat
        <3>1. \A v \in Req : Need(req[v]) \in Nat
            BY <1>2, NeedIs DEF Paid, Covered
        <3> QED BY <3>1 DEF Needs
    <2>2. f[u] = Need(r)
        BY DEF Needs, r
    <2> HIDE DEF f
    <2>3. f[u] <= SumOver(f, Req) /\ SumOver(f, Req) \in Nat
        BY <2>1, PoolAssumption, SumNat
    <2> QED BY <2>2, <2>3 DEF f
<1>9. PICK i \in Nat : cache.tree.evictable = PageSize * i /\ i + Count(freePages) = Spare(req)
    BY ONLY <1>1, SpareIs
<1>10. Count(freePages) \in Nat
    BY ONLY <1>1, SpareIs
<1>11. new - Count(freePages) <= i
    <2>1. SumOver(Needs(req), Req) <= Spare(req)
        BY <1>1 DEF Covered
    <2> QED BY <1>3, <1>4, <1>7, <1>8, <1>9, <1>10, <2>1
<1>12. Victims(new) # {}
    <2>1. CASE new > Count(freePages)
        <3> DEFINE s == new - Count(freePages)  size == s * PageSize
        <3>1. s \in Nat /\ s > 0 /\ s <= i
            BY <1>3, <1>10, <1>11, <2>1
        <3> HIDE DEF s
        <3>2. size \in Int /\ size > 0 /\ size <= PageSize * i
            BY <3>1, <1>9, PageSizeAssumption
        <3>3. LeafEvictions(cache, size) # {}
            <4> HIDE DEF size
            <4> QED BY <1>2, <1>9, <3>2, LeavesToEvict
        <3>4. Victims(new) = LeafEvictions(cache, size)
            BY <2>1 DEF Victims, s
        <3> HIDE DEF size
        <3> QED BY <3>3, <3>4
    <2>2. CASE ~(new > Count(freePages))
        BY <2>2 DEF Victims
    <2> QED BY <2>1, <2>2
<1>13. Need(r) \in Nat /\ r.output >= 1 /\ PageSize * Pages(m - 1) <= m
    BY <1>4
<1> QED BY <1>2, <1>3, <1>5, <1>6, <1>7, <1>12, <1>13 DEF r, m, x, y, new

LEMMA ForwardCover ==
    ASSUME HybridInv, CoverInv, NEW u \in Req, NEW n \in Nat, Forward(u, n)
    PROVE  CoverInv'
<1> DEFINE r == req[u]  end == r.cached + n  new == NewPages(r, n)  m == MaxDeviceLen(r)
<1>1. CanForward(r, n)
    BY DEF Forward
<1>2. /\ Victims(new) # {} /\ r \in ReqType /\ r.phase # "new" /\ r.output >= 1
      /\ new \in Nat /\ end < m /\ end \in Nat /\ PageSize * Pages(m - 1) <= m
      /\ Need(r) \in Nat /\ Pages(m - 1) - Pages(end) \in Nat
      /\ Pages(m - 1) - Pages(end) + new = Need(r)
    BY <1>1, ForwardFinds
<1>3. Paid(req) /\ dead = "no"
    BY PaidIs DEF HybridInv, CoverInv
<1>4. PICK S \in Victims(new) :
         /\ dead' = dead
         /\ \E t \in IF end >= r.prompt THEN Sampled ELSE {Opener} :
               req' = [req EXCEPT ![u] = NextReq(u, n, S, t)]
    BY <1>2 DEF Forward, Fresh, NextReq, Grown, Freeze
<1>5. PICK t : req' = [req EXCEPT ![u] = NextReq(u, n, S, t)]
    BY <1>4
<1> DEFINE x == NextReq(u, n, S, t)  f == Fresh(u, n, S)  T == Range(f)
<1>6. /\ x.cached = end /\ x.row = r.row \o f /\ x.prompt = r.prompt /\ x.output = r.output
      /\ x.phase # "new"
    BY <1>2 DEF NextReq, Forwarded, Grown, ReqType
<1>7. f = [i \in 1..new |-> f[i]] /\ DOMAIN f = 1..new
    <2> DEFINE there == {z \in DOMAIN PagesBack(cache, S) : PagesBack(cache, S)[z] > 0}
               v(i) == CHOOSE z \in there : Cardinality({w \in there : w < z}) = i - 1
    <2>1. f = [i \in 1..new |-> v(i)]
        BY DEF Fresh, Lowest
    <2> HIDE DEF v, f, new
    <2> QED BY <2>1
<1> HIDE DEF x, f
<1>8. Budget(x) /\ Need(x) = Pages(m - 1) - Pages(end)
    <2>1. MaxDeviceLen(x) = m
        BY <1>6 DEF MaxDeviceLen
    <2> HIDE DEF m, end, r
    <2> QED BY <1>2, <1>6, <2>1 DEF Budget, Need
<1> HIDE DEF r, end, new, m
<1>9. /\ Range(x.row) \subseteq (Range(r.row) \ {}) \cup T
      /\ IsFiniteSet(T) /\ Cardinality(T) \in Nat /\ Cardinality(T) <= new
    <2>1. r.row \in Seq(Page)
        BY <1>2 DEF ReqType
    <2> DEFINE row == r.row
    <2>2. row \in Seq(Page)
        BY <2>1
    <2> HIDE DEF row
    <2>3. /\ Range(row \o f) \subseteq (Range(row) \ {}) \cup Range(f)
          /\ IsFiniteSet(Range(f)) /\ Cardinality(Range(f)) \in Nat /\ Cardinality(Range(f)) <= new
        BY <1>2, <1>7, <2>2, RowGrows
    <2> QED BY <1>6, <2>3 DEF row
<1> HIDE DEF T
<1>10. Pays(req, u, x, {}, T)
    <2>1. Cardinality({}) = 0
        BY FS_EmptySet
    <2>2. Need(x) \in Nat /\ Need(x) + Cardinality(T) <= Need(r) + Cardinality({})
        BY <1>2, <1>8, <1>9, <2>1
    <2>3. {} \subseteq Range(r.row) /\ \A v \in Req \ {u} : Range(req[v].row) \cap {} = {}
        OBVIOUS
    <2> QED BY <1>8, <1>9, <2>2, <2>3 DEF Pays, r
<1>11. Covered([req EXCEPT ![u] = x])
    BY <1>3, <1>10, PaidStays
<1> QED BY <1>3, <1>4, <1>5, <1>11 DEF CoverInv, x

\* reserved_size as a sum of a function.
Reserve ==
    [u \in Req |-> IF InPrompt(req[u]) THEN MaxDeviceLen(req[u]) - req[u].cached
                   ELSE IF Len(req[u].text) < MaxDeviceLen(req[u])
                        THEN MaxDeviceLen(req[u]) - Len(req[u].text) + PageSize - 1 ELSE 0]

LEMMA ReservedSum == Reserved = SumOver(Reserve, Active)
<1> DEFINE f == Reserve
           one(u) == IF InPrompt(req[u]) THEN MaxDeviceLen(req[u]) - req[u].cached
                     ELSE IF Len(req[u].text) < MaxDeviceLen(req[u])
                          THEN MaxDeviceLen(req[u]) - Len(req[u].text) + PageSize - 1 ELSE 0
           c(s) == CHOOSE x \in s : TRUE
           P(g, s) == IF s = {} THEN 0 ELSE one(c(s)) + g[s \ {c(s)}]
           Q(g) == g = [s \in SUBSET Active |-> P(g, s)]
           k == CHOOSE g : Q(g)
           h == CHOOSE g : IsPartial(f, g, Active)
<1>1. Reserved = k[Active]
    BY DEF Reserved, MapThenSumSet, MapThenFoldSet
<1>2. Active \in SUBSET Req /\ IsFiniteSet(Active)
    <2>1. Active \in SUBSET Req
        BY DEF Active
    <2> QED BY <2>1, PoolAssumption, FS_Subset
<1>3. ASSUME NEW g PROVE Q(g) <=> IsPartial(f, g, Active)
    <2>1. ASSUME NEW s \in SUBSET Active PROVE P(g, s) = Part(f, g, s)
        <3>1. CASE s = {}
            BY <3>1 DEF Part
        <3>2. CASE s # {}
            <4>1. c(s) \in Req
                BY <1>2, <3>2
            <4>2. f[c(s)] = one(c(s))
                BY <4>1 DEF Reserve
            <4> HIDE DEF f, one
            <4> QED BY <3>2, <4>2 DEF Part
        <3> QED BY <3>1, <3>2
    <2>2. [s \in SUBSET Active |-> P(g, s)] = [s \in SUBSET Active |-> Part(f, g, s)]
        <3> HIDE DEF P, f
        <3> QED BY <2>1, Zenon
    <2> HIDE DEF P, f
    <2> QED BY <2>2 DEF IsPartial
<1>4. IsPartial(f, h, Active)
    <2> HIDE DEF f
    <2> QED BY <1>2, PartialExists
<1> HIDE DEF f, P, h
<1>5. Q(h)
    BY <1>3, <1>4
<1> HIDE DEF Q
<1>6. Q(k)
    BY <1>5
<1> HIDE DEF k
<1>7. IsPartial(f, k, Active)
    BY <1>3, <1>6
<1>8. k = h
    BY <1>2, <1>4, <1>7, PartialUnique
<1>9. SumOver(f, Active) = h[Active]
    BY SumUnfold DEF h
<1> QED BY <1>1, <1>8, <1>9 DEF f

\* What is reserved for a request is enough for the pages it needs.
LEMMA ReserveIs ==
    ASSUME NEW u \in Active, req[u] \in ReqType, Lengths(req[u]), Budget(req[u])
    PROVE  /\ Need(req[u]) \in Nat /\ Reserve[u] \in Int
           /\ PageSize * Need(req[u]) <= Reserve[u]
<1> DEFINE r == req[u]  m == MaxDeviceLen(r)  x == r.cached  a == Pages(m - 1)  b == Pages(x)
<1>1. /\ u \in Req /\ r.phase # "new" /\ x \in Nat /\ m \in Nat /\ Len(r.text) \in Nat
      /\ InPrompt(r) \/ Sampling(r)
    <2>1. /\ x \in Nat /\ r.prompt \in Nat /\ r.output \in Nat /\ r.text \in Seq(Token)
          /\ r.phase \in Phases
        BY DEF ReqType
    <2>2. u \in Req /\ r.phase # "new"
        BY DEF Active
    <2>3. m \in Nat /\ Len(r.text) \in Nat
        <3> HIDE DEF r
        <3> QED BY <2>1 DEF MaxDeviceLen
    <2> QED BY <2>1, <2>2, <2>3 DEF Phases, InPrompt, Sampling
<1>2. x < m /\ PageSize * a <= m
    BY <1>1 DEF Budget
<1>3. Need(r) = a - b /\ Need(r) \in Nat
    BY <1>1, NeedIs DEF Need
<1>4. Reserve[u] = IF InPrompt(r) THEN m - x
                   ELSE IF Len(r.text) < m THEN m - Len(r.text) + PageSize - 1 ELSE 0
    BY <1>1 DEF Reserve
<1>5. ~InPrompt(r) => Len(r.text) = x + 1
    BY <1>1 DEF Lengths
<1> HIDE DEF m, r
<1>6. /\ a \in Nat /\ b \in Nat /\ PageSize * a \in Nat /\ PageSize * b \in Nat
      /\ PageSize * (a - b) = PageSize * a - PageSize * b
      /\ x <= PageSize * b /\ PageSize * a <= m + PageSize - 2
    BY <1>1, <1>2, LeftIs
<1> HIDE DEF x, a, b
<1>7. PageSize * Need(r) = PageSize * a - PageSize * b
    BY <1>3, <1>6
<1> DEFINE pa == PageSize * a  pb == PageSize * b  pn == PageSize * Need(r)
<1>8. /\ pn = pa - pb /\ pa \in Nat /\ pb \in Nat /\ x <= pb /\ pa <= m + PageSize - 2 /\ pa <= m
      /\ PageSize \in Nat
    BY <1>2, <1>6, <1>7, PageSizeAssumption
<1> HIDE DEF pa, pb, pn
<1>9. CASE InPrompt(r)
    <2>1. Reserve[u] = m - x
        BY <1>4, <1>9
    <2>2. Reserve[u] \in Int /\ pn <= Reserve[u]
        BY <1>1, <1>8, <2>1
    <2> QED BY <1>3, <2>2 DEF pn, r
<1>10. CASE ~InPrompt(r)
    <2>1. CASE x + 1 < m
        <3>1. Reserve[u] = m - (x + 1) + PageSize - 1
            BY <1>4, <1>5, <1>10, <2>1
        <3>2. Reserve[u] \in Int /\ pn <= Reserve[u]
            BY <1>1, <1>8, <3>1
        <3> QED BY <1>3, <3>2 DEF pn, r
    <2>2. CASE ~(x + 1 < m)
        <3>1. Reserve[u] = 0
            BY <1>4, <1>5, <1>10, <2>2
        <3>2. x = m - 1
            BY <1>1, <1>2, <2>2
        <3>3. Need(r) = 0 /\ PageSize * 0 = 0
            BY <1>3, <1>6, <3>2, PageSizeAssumption DEF a, b
        <3> QED BY <3>1, <3>3 DEF r
    <2> QED BY <2>1, <2>2
<1> QED BY <1>9, <1>10

\* In pages, the others need no more than what is reserved for them.
LEMMA ReservedCovers ==
    ASSUME HybridInv, Covered(req)
    PROVE  /\ SumOver(Needs(req), Active) \in Nat /\ Reserved \in Int
           /\ PageSize * SumOver(Needs(req), Active) \in Nat
           /\ PageSize * SumOver(Needs(req), Active) <= Reserved
           /\ \A v \in Req : Needs(req)[v] \in Nat /\ (v \notin Active => Needs(req)[v] = 0)
           /\ Active \in SUBSET Req /\ IsFiniteSet(Active)
<1>1. AllInv(cache, freePages, freeSlots, kv, state, req)
    BY DEF HybridInv
<1>2. \A v \in Req : req[v] \in ReqType /\ Lengths(req[v]) /\ Budget(req[v])
    BY <1>1, FitsIs DEF Covered
<1>3. Active \in SUBSET Req /\ IsFiniteSet(Active)
    <2>1. Active \in SUBSET Req
        BY DEF Active
    <2> QED BY <2>1, PoolAssumption, FS_Subset
<1> DEFINE f == Needs(req)  g == Reserve  P == PageSize
<1>4. \A v \in Req : f[v] \in Nat /\ f[v] = Need(req[v])
    BY <1>2, NeedIs DEF Needs
<1>5. \A v \in Req : v \notin Active => f[v] = 0
    BY <1>4 DEF Active, Need
<1>6. \A v \in Active : g[v] \in Int /\ P * f[v] <= g[v]
    <2> SUFFICES ASSUME NEW v \in Active PROVE g[v] \in Int /\ P * f[v] <= g[v]
        OBVIOUS
    <2>1. v \in Req /\ f[v] = Need(req[v])
        BY <1>3, <1>4
    <2>2. Reserve[v] \in Int /\ PageSize * Need(req[v]) <= Reserve[v]
        BY <1>2, <2>1, ReserveIs
    <2> QED BY <2>1, <2>2
<1>7. P \in Nat /\ \A v \in Active : f[v] \in Nat
    BY <1>3, <1>4, PageSizeAssumption
<1> HIDE DEF f, g, P
<1>8. P * SumOver(f, Active) <= SumOver(g, Active)
    BY <1>3, <1>6, <1>7, SumScaled
<1>9. SumOver(f, Active) \in Nat /\ SumOver(g, Active) \in Int
    BY <1>3, <1>6, <1>7, SumNat, SumInt
<1>10. P * SumOver(f, Active) \in Nat
    BY <1>7, <1>9
<1> QED BY <1>3, <1>4, <1>5, <1>8, <1>9, <1>10, ReservedSum DEF f, g, P

-----------------------------------------------------------------------------
(***************************************************************************)
(* Admission.                                                              *)
(***************************************************************************)
\* The pages on the way to k are those of its prefixes.
LEMMA MatchedPagesAre ==
    ASSUME NEW h, NEW H, HTree(h, H), NEW k \in Snapshots(h) \cup {<<>>}
    PROVE  /\ \A p \in Range(MatchedPages(h, k)) :
                 \E j \in Keys(h.tree) : IsPrefix(j, k) /\ p = h.tree.pages[j]
           /\ \A j \in Keys(h.tree) : IsPrefix(j, k) => h.tree.pages[j] \in Range(MatchedPages(h, k))
<1> DEFINE d == Len(k) \div PageSize  row == MatchedPages(h, k)
<1>1. k \in Seq(Token) /\ Len(k) % PageSize = 0 /\ (k # <<>> => k \in Keys(h.tree))
    <2>1. CASE k = <<>>
        BY <2>1, EmptyPrefix, PageSizeAssumption
    <2>2. CASE k # <<>>
        BY <2>2, SnapshotsIs, WholeKeyIs
    <2> QED BY <2>1, <2>2
<1>2. DOMAIN row = 1..d /\ \A i \in 1..d : row[i] = h.tree.pages[Upto(k, i * PageSize)]
    BY DEF MatchedPages
<1>3. Keys(h.tree) \subseteq WholeKeys(Token)
    BY DEF HTree, Tree
<1> HIDE DEF row
<1>4. ASSUME NEW i \in 1..d
      PROVE  \E j \in Keys(h.tree) : IsPrefix(j, k) /\ row[i] = h.tree.pages[j]
    <2> DEFINE j == Upto(k, i * PageSize)
    <2>1. j \in WholeKeys(Token) /\ IsPrefix(j, k) /\ i * PageSize \in 1..Len(k)
        BY <1>1, PageKeyIs
    <2>2. k # <<>>
        BY <2>1, EmptyPrefix
    <2>3. j \in Keys(h.tree)
        <3> HIDE DEF j
        <3> QED BY <1>1, <2>1, <2>2 DEF HTree, Tree
    <2> QED BY <1>2, <2>1, <2>3
<1>5. ASSUME NEW j \in Keys(h.tree), IsPrefix(j, k) PROVE h.tree.pages[j] \in Range(row)
    <2> DEFINE i == Len(j) \div PageSize
    <2>1. i \in 1..d /\ i * PageSize = Len(j) /\ j = Upto(k, Len(j))
        BY <1>1, <1>3, <1>5, PageKeyIs
    <2>2. row[i] = h.tree.pages[j]
        BY <1>2, <2>1
    <2> HIDE DEF i, d
    <2> QED BY <1>2, <2>1, <2>2 DEF Range
<1>6. ASSUME NEW p \in Range(row)
      PROVE  \E j \in Keys(h.tree) : IsPrefix(j, k) /\ p = h.tree.pages[j]
    <2>1. PICK i \in 1..d : p = row[i]
        BY <1>2 DEF Range
    <2> QED BY <1>4, <2>1
<1> QED BY <1>5, <1>6 DEF row

\* u, who held nothing, gets the row of k, which the tree m has locked for it.
Locks(h, fp, fs, k, st, q, u, m, t, x) ==
    /\ AllInv(h, fp, fs, k, st, q) /\ u \in Req /\ q[u].phase = "new"
    /\ HTree(m, Owning(Handles(q), u, t)) /\ m.tree.pages = h.tree.pages
    /\ t \in Snapshots(m) \cup {<<>>} /\ x.row = MatchedPages(m, t)

\* What can be evicted from m and what is on the list fp are the pages no row of q has.
Spares(m, fp, q) ==
    /\ Count(fp) \in Nat
    /\ \E n \in Nat : m.tree.evictable = PageSize * n /\ n + Count(fp) = Spare(q)

LEMMA LockedSpare ==
    ASSUME NEW h, NEW fp, NEW fs, NEW k, NEW st, NEW q, NEW u, NEW m, NEW t, NEW x,
           Locks(h, fp, fs, k, st, q, u, m, t, x)
    PROVE  Spares(m, fp, [q EXCEPT ![u] = x])
<1> DEFINE p == [q EXCEPT ![u] = x]  H == Handles(q)  G == Owning(H, u, t)  O == PagesOf(q)
           c == h.tree  X == Pinned(p)  w == m.tree
<1>1. /\ AllInv(h, fp, fs, k, st, q) /\ u \in Req /\ q[u].phase = "new"
      /\ HTree(m, G) /\ w.pages = c.pages /\ t \in Snapshots(m) \cup {<<>>}
      /\ x.row = MatchedPages(m, t)
    BY DEF Locks
<1>2. /\ Pins(c, H, O, Pinned(q)) /\ Tree(c, Token) /\ Pool(Page, fp, c.pages, O)
    BY ONLY <1>1, RowsPin
<1>3. /\ q[u] = NewReq /\ H[u] = <<>> /\ O[u] = {} /\ DOMAIN q = Req /\ DOMAIN H = Req
    <2>1. DOMAIN q = Req /\ DOMAIN H = Req
        BY <1>1 DEF AllInv, Handles
    <2>2. q[u] = NewReq /\ H[u] = <<>> /\ O[u] = {}
        BY ONLY <1>1, IdleReq
    <2> QED BY <2>1, <2>2
<1>4. /\ p[u] = x /\ \A v \in Req \ {u} : p[v] = q[v]
    BY <1>1, <1>3
<1>5. G[u] = t /\ DOMAIN G = Req /\ \A v \in Req \ {u} : G[v] = H[v]
    BY <1>1, <1>3 DEF Owning
<1>6. Range(q[u].row) = {}
    BY <1>3 DEF NewReq, Range
<1>7. X = Pinned(q) \cup Range(x.row)
    <2>1. X = UNION {Range(p[v].row) : v \in Req} /\ Pinned(q) = UNION {Range(q[v].row) : v \in Req}
        BY DEF Pinned
    <2> HIDE DEF p, X
    <2> QED BY <1>1, <1>4, <1>6, <2>1
<1>8. Keys(w) = Keys(c) /\ Keys(c) \subseteq WholeKeys(Token)
    BY <1>1, <1>2 DEF Keys, Tree
<1>9. /\ \A y \in Range(x.row) : \E j \in Keys(w) : IsPrefix(j, t) /\ y = w.pages[j]
      /\ \A j \in Keys(w) : IsPrefix(j, t) => w.pages[j] \in Range(x.row)
    BY <1>1, MatchedPagesAre
<1>10. \A j \in Keys(c) : ~IsPrefix(j, H[u])
    BY <1>3, <1>8, WholeKeyIs, EmptyPrefix
<1> HIDE DEF p, H, G, O, X, c, w
<1>11. UsedKeys(w, G) = UsedKeys(c, H) \cup {j \in Keys(c) : IsPrefix(j, t)}
    <2>1. ASSUME NEW j \in Keys(c)
          PROVE  (\E v \in Req : IsPrefix(j, G[v])) <=> (\E v \in Req : IsPrefix(j, H[v])) \/ IsPrefix(j, t)
        BY <1>1, <1>5, <1>10
    <2>2. \A j : j \in UsedKeys(w, G) <=> j \in Keys(c) /\ \E v \in Req : IsPrefix(j, G[v])
        BY <1>5, <1>8 DEF UsedKeys, Users
    <2>3. \A j : j \in UsedKeys(c, H) <=> j \in Keys(c) /\ \E v \in Req : IsPrefix(j, H[v])
        BY <1>3 DEF UsedKeys, Users
    <2> QED BY <2>1, <2>2, <2>3
<1>12. Pins(w, G, O, X)
    <2>1. ASSUME NEW y \in X
          PROVE  \/ \E v \in Req : y \in O[v]
                 \/ \E j \in UsedKeys(w, G) : y = w.pages[j]
        <3>1. CASE y \in Pinned(q)
            BY <1>1, <1>2, <1>11, <3>1 DEF Pins, c, w
        <3>2. CASE y \in Range(x.row)
            BY <1>8, <1>9, <1>11, <3>2
        <3> QED BY <1>7, <3>1, <3>2
    <2>2. \A v \in Req : O[v] \subseteq X
        BY <1>2, <1>7 DEF Pins
    <2>3. ASSUME NEW j \in UsedKeys(w, G) PROVE w.pages[j] \in X
        <3>1. CASE j \in UsedKeys(c, H)
            BY <1>1, <1>2, <1>7, <3>1 DEF Pins, c, w
        <3>2. CASE j \notin UsedKeys(c, H)
            BY <1>7, <1>8, <1>9, <1>11, <3>2
        <3> QED BY <3>1, <3>2
    <2> QED BY <2>1, <2>2, <2>3 DEF Pins
<1>13. Tree(w, Token) /\ Counts(w, G) /\ Pool(Page, fp, w.pages, O)
    BY <1>1, <1>2 DEF HTree, w, c
<1>14. /\ Count(fp) \in Nat
       /\ \E n \in Nat : w.evictable = PageSize * n /\ n + Count(fp) = Cardinality(Page \ X)
    BY ONLY <1>12, <1>13, SpareOf
<1> QED BY <1>14 DEF w, X, Spare, Spares, p


\* Admission lets a request in when its tokens and what the others have reserved
\* fit into what is available once the prefix it shares is locked.
LEMMA AdmitCover ==
    ASSUME RoomyShapes, HybridInv, CoverInv, NEW u \in Req, Admit(u)
    PROVE  CoverInv'
<1>1. /\ AllInv(cache, freePages, freeSlots, kv, state, req) /\ dead = "no" /\ Covered(req)
      /\ req[u].phase = "new" /\ dead' = dead
    BY DEF HybridInv, CoverInv, Admit
<1>2. PICK shape \in Shapes :
         LET h == Locked(shape)
             k == ResumePoint(cache, MatchIds(shape))
         IN  /\ HasRoom(shape)
             /\ \E slot : \/ req' = req
                          \/ req' = [req EXCEPT ![u] =
                                [NewReq EXCEPT
                                   !.phase = "admitted", !.text = shape.prompt,
                                   !.prompt = Len(shape.prompt), !.output = shape.output,
                                   !.image = shape.image,
                                   !.cached = Len(k), !.host = Len(k),
                                   !.handle = k, !.row = MatchedPages(h, k),
                                   !.live = slot[1], !.track = <<slot[2], slot[3]>>,
                                   !.restore = IF k = <<>> THEN 0 ELSE h.snap[k]]]
    BY ZenonT(90) DEF Admit
<1> DEFINE h == Locked(shape)  t == MatchIds(shape)  k == ResumePoint(cache, t)
           H == Handles(req)  G == Owning(H, u, k)
<1>3. PICK slot : \/ req' = req
                  \/ req' = [req EXCEPT ![u] =
                        [NewReq EXCEPT
                           !.phase = "admitted", !.text = shape.prompt,
                           !.prompt = Len(shape.prompt), !.output = shape.output,
                           !.image = shape.image,
                           !.cached = Len(k), !.host = Len(k),
                           !.handle = k, !.row = MatchedPages(h, k),
                           !.live = slot[1], !.track = <<slot[2], slot[3]>>,
                           !.restore = IF k = <<>> THEN 0 ELSE h.snap[k]]]
    BY <1>2
<1>4. CASE req' = req
    BY <1>1, <1>4 DEF CoverInv
<1>5. CASE req' # req
    <2> DEFINE l == Len(k)  e == Len(shape.prompt)  o == shape.output  m == e + o
               x == [NewReq EXCEPT
                        !.phase = "admitted", !.text = shape.prompt, !.prompt = Len(shape.prompt),
                        !.output = shape.output, !.image = shape.image, !.cached = Len(k),
                        !.host = Len(k), !.handle = k, !.row = MatchedPages(h, k), !.live = slot[1],
                        !.track = <<slot[2], slot[3]>>, !.restore = IF k = <<>> THEN 0 ELSE h.snap[k]]
    <2>1. req' = [req EXCEPT ![u] = x]
        BY <1>3, <1>5
    <2>2. /\ x.phase = "admitted" /\ x.prompt = e /\ x.output = o /\ x.cached = l
          /\ x.row = MatchedPages(h, k)
        BY DEF NewReq
    <2>3. h = LockHybrid(MatchHybrid(cache, t), k)
        BY DEF Locked
    <2>4. e - l + o + Reserved <= h.tree.evictable + Count(freePages) * PageSize
        BY <1>2 DEF HasRoom, Needed, Available
    <2>5. /\ t \in Seq(Token) /\ IsPrefix(t, shape.prompt) /\ Len(t) < e /\ Len(t) \in Nat
          /\ shape.prompt \in Seq(Token) /\ e \in Nat
        BY MatchIdsIs
    <2>6. PageSize * Pages(m - 1) <= m
        BY DEF RoomyShapes
    <2>7. o \in Nat \ {0}
        BY ShapesAssumption
    <2> HIDE DEF h, t, k, H, G, x, o
    <2>8. HTree(cache, H) /\ DOMAIN H = Req /\ DOMAIN req = Req /\ H[u] = <<>>
        <3>1. HTree(cache, H) /\ DOMAIN H = Req /\ DOMAIN req = Req
            BY <1>1 DEF AllInv, H, Handles
        <3>2. H[u] = <<>>
            BY <1>1, IdleReq DEF H
        <3> QED BY <3>1, <3>2
    <2>9. k \in Snapshots(cache) \cup {<<>>} /\ k \in Seq(Token) /\ IsPrefix(k, t)
        BY <2>5, <2>8, ResumePointIs DEF k
    <2>10. HTree(h, G) /\ h.snap = cache.snap /\ h.tree.pages = cache.tree.pages
        <3> DEFINE g == MatchHybrid(cache, t)
        <3>1. HTree(g, H) /\ g.snap = cache.snap /\ g.tree.pages = cache.tree.pages
            BY <2>5, <2>8, MatchHybridIs
        <3>2. h = LockHybrid(g, k)
            BY <2>3
        <3> HIDE DEF g
        <3>3. k \in Snapshots(g) \cup {<<>>}
            BY <2>9, <3>1 DEF Snapshots
        <3>4. LET w == LockHybrid(g, k)
              IN  HTree(w, [H EXCEPT ![u] = k]) /\ w.snap = g.snap /\ w.tree.pages = g.tree.pages
            BY ONLY <2>8, <3>1, <3>3, u \in Req, LockHybridIs
        <3> QED BY <3>1, <3>2, <3>4 DEF G, Owning
    <2>11. k \in Snapshots(h) \cup {<<>>}
        BY <2>9, <2>10 DEF Snapshots
    <2>12. l \in Nat /\ l % PageSize = 0 /\ l < e
        <3>1. CASE k = <<>>
            BY <2>5, <3>1, EmptyPrefix, PageSizeAssumption
        <3>2. CASE k # <<>>
            <4>1. l \in Nat /\ l % PageSize = 0
                BY <2>9, <2>8, <3>2, SnapshotsIs, WholeKeyIs
            <4>2. l <= Len(t)
                BY <2>5, <2>9, PrefixOrder
            <4> QED BY <2>5, <4>1, <4>2
        <3> QED BY <3>1, <3>2
    <2>13. Locks(cache, freePages, freeSlots, kv, state, req, u, h, k, x)
        BY <1>1, <2>2, <2>10, <2>11 DEF Locks, G, H
    <2>14. Spares(h, freePages, [req EXCEPT ![u] = x])
        BY ONLY <2>13, LockedSpare
    <2> DEFINE p == [req EXCEPT ![u] = x]  f == Needs(p)  g == Needs(req)
    <2> PICK n \in Nat : h.tree.evictable = PageSize * n /\ n + Count(freePages) = Spare(p)
        BY <2>14 DEF Spares
    <2>15. p[u] = x /\ DOMAIN p = Req /\ \A v \in Req \ {u} : p[v] = req[v]
        BY <2>8
    <2>16. MaxDeviceLen(x) = m
        BY <2>2 DEF MaxDeviceLen
    <2>17. /\ f[u] = Pages(m - 1) - Pages(l) /\ \A v \in Req \ {u} : f[v] = g[v]
        BY <2>2, <2>15, <2>16 DEF Needs, Need
    <2> HIDE DEF l, e
    <2>18. m \in Nat /\ l < m
        BY <2>5, <2>7, <2>12
    <2>19. \A v \in Req : Budget(p[v])
        <3>1. Budget(x)
            BY <2>2, <2>6, <2>7, <2>12, <2>16, <2>18 DEF Budget
        <3>2. \A v \in Req \ {u} : Budget(req[v])
            BY <1>1 DEF Covered
        <3> HIDE DEF p
        <3> QED BY <2>15, <3>1, <3>2
    <2>20. /\ SumOver(g, Active) \in Nat /\ Reserved \in Int
           /\ PageSize * SumOver(g, Active) \in Nat /\ PageSize * SumOver(g, Active) <= Reserved
           /\ \A v \in Req : g[v] \in Nat /\ (v \notin Active => g[v] = 0)
           /\ Active \in SUBSET Req /\ IsFiniteSet(Active)
        BY <1>1, ReservedCovers
    <2>21. u \notin Active
        BY <1>1 DEF Active
    <2> HIDE DEF m, f, g, p
    <2>22. f[u] \in Nat /\ PageSize * f[u] \in Nat /\ PageSize * f[u] <= m - l
        <3> DEFINE a == Pages(m - 1)  b == Pages(l)
        <3>1. /\ a - b \in Nat /\ PageSize * a \in Nat /\ PageSize * b \in Nat
              /\ PageSize * (a - b) = PageSize * a - PageSize * b
            BY ZenonT(60), <2>12, <2>18, LeftIs
        <3>2. b * PageSize = l /\ b \in Nat
            BY <2>12, WholeIs
        <3> HIDE DEF a, b
        <3>3. PageSize * b = l
            BY <3>2, PageSizeAssumption
        <3>4. PageSize * a <= m
            BY <2>6 DEF a, m
        <3> DEFINE pa == PageSize * a
        <3>5. PageSize * (a - b) = pa - l /\ pa \in Nat /\ pa <= m
            BY <3>1, <3>3, <3>4
        <3> HIDE DEF pa
        <3>6. PageSize * (a - b) \in Int /\ PageSize * (a - b) <= m - l
            BY <2>12, <2>18, <3>5
        <3>7. PageSize * (a - b) \in Nat
            BY <3>1, PageSizeAssumption
        <3> QED BY <2>17, <3>1, <3>6, <3>7 DEF a, b
    <2>23. SumOver(f, Req) = f[u] + SumOver(g, Active)
        <3> DEFINE S == Req \ {u}
        <3>1. \A v \in S : f[v] \in Int /\ f[v] = g[v]
            BY <2>17, <2>20
        <3>2. \A v \in Req : f[v] \in Int
            BY <2>22, <3>1
        <3>3. Active \in SUBSET S /\ (\A v \in Active : g[v] \in Int) /\ (\A v \in S \ Active : g[v] = 0)
            BY <2>20, <2>21
        <3>4. IsFiniteSet(S)
            BY PoolAssumption, FS_RemoveElement
        <3>5. SumOver(f, Req) = f[u] + SumOver(f, S)
            BY <3>2, PoolAssumption, SumRemove
        <3> HIDE DEF S
        <3>6. SumOver(f, S) = SumOver(g, S)
            BY <3>1, <3>4, SumAgree
        <3>7. SumOver(g, S) = SumOver(g, Active)
            BY <3>3, <3>4, SumSupport
        <3> QED BY <3>5, <3>6, <3>7
    <2>24. SumOver(f, Req) <= Spare(p)
        <3> DEFINE a == f[u]  b == SumOver(g, Active)  c == Count(freePages)
                   pa == PageSize * a  pb == PageSize * b  r == Reserved
                   y == e - l + o  z == PageSize * n + c * PageSize
        <3>1. a \in Nat /\ b \in Nat /\ c \in Nat /\ pa \in Nat /\ pb \in Nat /\ r \in Int
            BY <2>14, <2>20, <2>22 DEF Spares
        <3>2. pa <= y /\ pb <= r /\ y \in Int
            <4> HIDE DEF pa, pb, r
            <4>1. pa <= m - l /\ pb <= r
                BY <2>20, <2>22 DEF pa, pb, r
            <4>2. m - l = y /\ y \in Int
                BY <2>5, <2>7, <2>12 DEF m, e
            <4> HIDE DEF y
            <4> QED BY <4>1, <4>2
        <3>3. y + r <= z
            BY <2>4 DEF l, e
        <3>4. z \in Int
            BY <3>1, PageSizeAssumption
        <3> HIDE DEF y, z, r, pa, pb, c
        <3>5. pa + pb <= z
            BY <3>1, <3>2, <3>3, <3>4
        <3> HIDE DEF a, b
        <3>6. pa + pb = PageSize * (a + b) /\ z = PageSize * (n + c)
            BY <3>1, PageSizeAssumption DEF pa, pb, z
        <3> DEFINE v == a + b  w == n + c
        <3>7. v \in Nat /\ w \in Nat /\ PageSize * v <= PageSize * w
            BY <3>1, <3>5, <3>6
        <3> HIDE DEF v, w
        <3>8. v <= w
            BY <3>7, PageSizeAssumption
        <3> QED BY <2>23, <3>8 DEF a, b, c, v, w
    <2>25. Covered(p)
        BY <2>19, <2>24 DEF Covered, f
    <2> QED BY <1>1, <2>1, <2>25 DEF CoverInv, p
<1> QED BY <1>4, <1>5

LEMMA CoverInit ==
    ASSUME Init
    PROVE  CoverInv
<1>1. dead = "no" /\ req = [u \in Req |-> NewReq]
    BY DEF Init
<1>2. \A u \in Req : req[u].phase = "new"
    BY <1>1 DEF NewReq
<1>3. \A u \in Req : Needs(req)[u] = 0
    BY <1>2 DEF Needs, Need
<1>4. SumOver(Needs(req), Req) = 0
    BY <1>3, PoolAssumption, SumZero
<1>5. Spare(req) \in Nat
    <2>1. Page \ Pinned(req) \in SUBSET Page
        OBVIOUS
    <2>2. IsFiniteSet(Page \ Pinned(req))
        BY <2>1, PoolsFinite, FS_Subset
    <2> QED BY <2>2, FS_CardinalityType DEF Spare
<1>6. SumOver(Needs(req), Req) <= Spare(req)
    BY <1>4, <1>5
<1>7. \A u \in Req : Budget(req[u])
    BY <1>2 DEF Budget
<1> QED BY <1>1, <1>6, <1>7 DEF CoverInv, Covered

\* A step keeps the room it found.
LEMMA CoverNext ==
    ASSUME RoomyShapes, HybridInv, CoverInv, [Next]_vars
    PROVE  CoverInv'
<1>1. CASE AdmitRefused \/ Rebuild \/ UNCHANGED vars
    <2>1. UNCHANGED <<req, dead>>
        BY <1>1 DEF AdmitRefused, Rebuild, vars
    <2> QED BY <2>1 DEF CoverInv
<1>2. ASSUME NEW u \in Req, Admit(u) \/ Drain(u) \/ Abort(u) PROVE CoverInv'
    BY <1>2, AdmitCover, DrainCover, AbortCover
<1>3. ASSUME NEW u \in Req, NEW n \in Nat, Forward(u, n) PROVE CoverInv'
    BY <1>3, ForwardCover
<1> QED BY <1>1, <1>2, <1>3 DEF Next

\* A page of one or two tokens leaves no slack.
LEMMA SmallPagesAreRoomy ==
    PageSize \in {1, 2} => RoomyShapes
<1> SUFFICES ASSUME PageSize \in {1, 2}, NEW s \in Shapes
             PROVE  PageSize * Pages((Len(s.prompt) + s.output) - 1) <= Len(s.prompt) + s.output
    BY DEF RoomyShapes
<1> DEFINE m == Len(s.prompt) + s.output
<1>1. m \in Nat /\ 0 < m
    BY ShapesAssumption
<1> HIDE DEF m
<1>2. PageSize * Pages(m - 1) <= m + PageSize - 2 /\ PageSize * Pages(m - 1) \in Nat
    BY <1>1, LeftIs
<1>3. PageSize * Pages(m - 1) <= m
    <2> DEFINE x == PageSize * Pages(m - 1)
    <2> HIDE DEF x
    <2>1. x <= m
        BY <1>1, <1>2 DEF x
    <2> QED BY <2>1 DEF x
<1> QED BY <1>3 DEF m

-----------------------------------------------------------------------------
\* Between two calls of the scheduler the tree is closed under prefixes with its
\* leaves' snapshots live and its counters exact, every page and every state slot is
\* in one place, a row begins with the tree's pages for its handle, and every page and
\* slot holds what its place says (_cache_req_hybrid, hybrid_radix_cache.py).
THEOREM HybridInvariant == Spec => []HybridInv
<1>1. Init => HybridInv
    BY InitIs
<1>2. HybridInv /\ [Next]_vars => HybridInv'
    BY NextStep
<1> QED BY <1>1, <1>2, PTL DEF Spec

\* No page and no state slot is leaked, freed twice or shared: a slot that is donated,
\* deduplicated, replaced, evicted or swept up by a finish is freed exactly once
\* (_cache_req_hybrid, _free_req_slots, ensure_mamba_slots).
THEOREM PoolsAreOwned == Spec => []PoolOwnership
<1>1. HybridInv => PoolOwnership
    BY PageIsOwned, SlotIsOwned DEF PoolOwnership
<1> QED BY <1>1, HybridInvariant, PTL

\* A restore never reads a slot that was evicted and reused, and no state is attached
\* to a prefix other than the one it encodes (the alignment tests of
\* _cache_req_hybrid, _build_track_metadata, snapshot_toolcall_anchor).
THEOREM SnapshotsAreExact == Spec => []SnapshotExact
<1>1. ASSUME HybridInv PROVE SnapshotExact
    <2>1. AllInv(cache, freePages, freeSlots, kv, state, req) /\ TreeWrote(cache, kv, state)
        BY <1>1 DEF HybridInv, AllInv
    <2>2. ASSUME NEW u \in Active, ~InPrompt(req[u]) \/ req[u].phase = "prefill"
          PROVE  state[req[u].live] = Content(u, req[u].cached)
        <3>1. u \in Req /\ req[u].phase \notin {"new", "admitted"}
            BY <2>2 DEF Active, InPrompt
        <3>2. Wrote(u, req[u], kv, state)
            BY <2>1, <3>1, FitsIs
        <3> QED BY <3>1, <3>2 DEF Wrote, Content, Owner
    <2> QED BY <2>1, <2>2 DEF SnapshotExact, TreeWrote
<1> QED BY <1>1, HybridInvariant, PTL

\* What attention reads through a row, also one that a commit pointed over to the
\* tree's pages, is the KV of its own request's tokens (_cache_req_hybrid).
THEOREM HybridRowsReadTheirOwn == Spec => []KVMatches
<1>1. HybridInv => KVMatches
    BY MatchesIs
<1> QED BY <1>1, HybridInvariant, PTL

\* A running request's node is there with its snapshot, every leaf carries one, and
\* the reference counts and the four size counters are those of the handles and the
\* tree (inc_lock, dec_lock, evict_mamba, _cascade_tombstone_leaves).
THEOREM HybridTreeIsExact == Spec => []TreeExact
<1>1. HybridInv => TreeExact
    BY TreeIsExact
<1> QED BY <1>1, HybridInvariant, PTL

\* An admitted request always gets the pages and the slots it needs (the assertions
\* of evict, _allocate and the copy-on-write of a commit), when a page holds one or
\* two tokens, or no request ends its prompt and its output less its last token with
\* more than one token of the last page empty.
THEOREM HybridPoolsAreCovered ==
    ASSUME PageSize \in {1, 2} \/ RoomyShapes
    PROVE  Spec => []PoolsCovered
<1>1. RoomyShapes
    BY SmallPagesAreRoomy
<1>2. Init => CoverInv
    BY CoverInit
<1>3. HybridInv /\ CoverInv /\ [Next]_vars => CoverInv'
    BY <1>1, CoverNext
<1>4. CoverInv => PoolsCovered
    BY DEF CoverInv, PoolsCovered
<1> QED BY <1>2, <1>3, <1>4, HybridInvariant, PTL DEF Spec

=============================================================================
