----------------------------- MODULE HybridRadix -----------------------------
(***************************************************************************)
(* The prefix tree of kvcache/hybrid_radix_cache.py: the tree of           *)
(* RadixCache, whose nodes may also carry a snapshot, the slot that holds  *)
(* the recurrent (GDN) state at the node's end.  A continuation can resume *)
(* only where a snapshot is live, so a match is cut back to one, and       *)
(* snapshots are evicted on their own: a node that loses its snapshot      *)
(* keeps its KV as long as something below it needs it.                    *)
(*                                                                         *)
(* As in RadixCache a node is named by the tokens from the root to its     *)
(* end, and any unlocked candidate may be the least recently used.         *)
(***************************************************************************)
EXTENDS RadixCache

\* HybridRadixCache.__init__; mref and the two counters are the snapshots'.
EmptyHybrid ==
    [tree |-> EmptyRadix, snap |-> [e \in {} |-> 0], mref |-> [e \in {} |-> 0],
     evictable |-> 0, protected |-> 0]

Snapshots(h) == DOMAIN h.snap

\* match_prefix: the deepest live snapshot on the way.
ResumePoint(h, t) ==
    Longest({<<>>} \cup {e \in Snapshots(h) : IsPrefix(e, Walk(h.tree, t))})

\* match_prefix splits where its walk ends, whatever it returns.
MatchHybrid(h, t) == [h EXCEPT !.tree = Match(@, t)]

\* insert: the boundary the tokens t end on, and whether it takes no snapshot.
BoundaryOf(t) == Upto(t, AlignDown(Len(t)))
HasSnapshot(h, t) == BoundaryOf(t) = <<>> \/ BoundaryOf(t) \in Snapshots(h)

(***************************************************************************)
(* insert: the KV of t's whole pages, and slot as the snapshot at their    *)
(* end unless there is one.                                                *)
(***************************************************************************)
Donate(h, t, row, slot) ==
    LET tree == Insert(h.tree, t, row)
    IN  IF HasSnapshot(h, t) THEN [h EXCEPT !.tree = tree]
        ELSE [h EXCEPT !.tree = tree,
                       !.snap = [e \in Snapshots(h) \cup {BoundaryOf(t)} |->
                                    IF e = BoundaryOf(t) THEN slot ELSE @[e]],
                       !.mref = [e \in Snapshots(h) \cup {BoundaryOf(t)} |->
                                    IF e = BoundaryOf(t) THEN 0 ELSE @[e]],
                       !.evictable = @ + 1]

\* inc_lock(node)
LockHybrid(h, k) ==
    LET moved == IF k \in Snapshots(h) /\ h.mref[k] = 0 THEN 1 ELSE 0
    IN  [h EXCEPT !.tree = Lock(@, k),
                  !.mref = [e \in Snapshots(h) |-> IF e = k THEN @[e] + 1 ELSE @[e]],
                  !.evictable = @ - moved,
                  !.protected = @ + moved]

\* dec_lock(node)
UnlockHybrid(h, k) ==
    LET moved == IF k \in Snapshots(h) /\ h.mref[k] = 1 THEN 1 ELSE 0
    IN  [h EXCEPT !.tree = Unlock(@, k),
                  !.mref = [e \in Snapshots(h) |->
                               IF e = k /\ @[e] > 0 THEN @[e] - 1 ELSE @[e]],
                  !.evictable = @ + moved,
                  !.protected = @ - moved]

-----------------------------------------------------------------------------
\* Mutation: only the popped leaves go, their key-only ancestors stay.
Reclaimed_NoCascade(h, S) ==
    {e \in S : \A f \in Nodes(h.tree) :
                  IsPrefix(e, f) => f \in S /\ h.tree.refs[f] = 0}

(***************************************************************************)
(* The nodes that go when the snapshots of S are evicted: those of S that  *)
(* are unlocked leaves by then, and the key-only nodes this leaves without *)
(* children (_cascade_tombstone_leaves).  The order of the pops does not   *)
(* matter: an inner node popped before its children is a tombstone until   *)
(* the last of them takes it along.                                        *)
(***************************************************************************)
Reclaimed(h, S) ==
    {e \in Nodes(h.tree) :
        \A f \in {g \in Nodes(h.tree) : IsPrefix(e, g)} :
            /\ h.tree.refs[f] = 0
            /\ f \in S \/ f \notin Snapshots(h)
            /\ \E s \in S : IsPrefix(f, s)}

\* What is left when they are gone.
WithoutSnapshots(h, S) ==
    LET kept == Snapshots(h) \ S
    IN  [h EXCEPT !.tree = Evict(@, Reclaimed(h, S)),
                  !.snap = [e \in kept |-> @[e]],
                  !.mref = [e \in kept |-> @[e]],
                  !.evictable = @ - Cardinality({e \in S \cap Snapshots(h) : h.mref[e] = 0})]

\* The slots that come back, and the pages.
FreedSlots(h, S) == {h.snap[e] : e \in S \cap Snapshots(h)}
FreedPages(h, S) == {h.tree.pages[k] : k \in EvictedKeys(h.tree, Reclaimed(h, S))}

\* evict_mamba(num): any num unlocked snapshots, inner nodes' too, or all there are.
SnapshotEvictions(h, num) ==
    LET unlocked == {e \in Snapshots(h) : h.mref[e] = 0}
    IN  kSubset(Min({num, Cardinality(unlocked)}), unlocked)

(***************************************************************************)
(* evict_full(size) pops unlocked leaves until size tokens are gone, those *)
(* of the cascades among them: the sets of nodes it may pop.               *)
(***************************************************************************)
LeafEvictions(h, size) ==
    LET tree == h.tree
        leaves == {e \in Nodes(tree) : \A f \in Nodes(tree) : ~IsStrictPrefix(e, f)}
        Gone(S) == Size(tree, Reclaimed(h, S))
    IN  {S \in SUBSET {e \in Snapshots(h) \cup leaves : tree.refs[e] = 0} :
            /\ S \subseteq Reclaimed(h, S)
            /\ Gone(S) >= size
            /\ \E last \in S : /\ S \ {last} \subseteq Reclaimed(h, S \ {last})
                               /\ Gone(S \ {last}) < size}

=============================================================================
