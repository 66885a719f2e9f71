------------------------------ MODULE SWARadix ------------------------------
(***************************************************************************)
(* The prefix tree of kvcache/swa_radix_cache.py, for models with sliding- *)
(* window attention.  It is the tree of RadixCache with a second currency: *)
(* the window KV of a node's tokens lives in a smaller pool and is freed   *)
(* on its own, which leaves the node a tombstone.  A prefix can be resumed *)
(* only where a whole window before it is live.                            *)
(*                                                                         *)
(* A lock pins the KV of the whole path, and the window KV of the nodes at *)
(* its end that cover a window; the last of these carries a mark           *)
(* (swa_uuid) by which the lock's release knows where to stop.  Marks are  *)
(* any numbers no other node or lock uses.                                 *)
(***************************************************************************)
EXTENDS RadixCache, TLC

CONSTANT Window     \* sliding_window_size

\* SWARadixCache.__init__ asserts it.
ASSUME WindowAssumption == Window \in Nat \ {0}

\* sref is swa_ref_count, uuid swa_uuid (0 for None); the counters are the window KV's.
EmptySWA ==
    [tree |-> EmptyRadix, tomb |-> {}, sref |-> [e \in {} |-> 0], uuid |-> [e \in {} |-> 0],
     evictable |-> 0, protected |-> 0]

\* The nodes on the way to k whose window KV is live, and the tokens a set of nodes holds.
LivePath(w, k) == Path(w.tree, k) \ w.tomb
Tokens(w, E) == Size(w.tree, E)
IsLeafNode(w, e) == \A f \in Nodes(w.tree) : ~IsStrictPrefix(e, f)

\* Mutation: the mark stays with the lower half.
SplitMark_Stays(w, k, old, e) == IF e = k THEN 0 ELSE w.uuid[e]

\* split_at: the mark moves to the upper half k of the node old.
SplitMark(w, k, old, e) == IF e = k THEN w.uuid[old] ELSE IF e = old THEN 0 ELSE w.uuid[e]

\* split_at where a walk ended: both halves are what the node was.
SplitSWA(w, k) ==
    IF k = <<>> \/ k \in Nodes(w.tree) THEN w
    ELSE LET old == NodeOf(w.tree, k)
         IN  [w EXCEPT
                !.tree = Split(@, k),
                !.tomb = IF old \in @ THEN @ \cup {k} ELSE @,
                !.sref = [e \in Nodes(w.tree) \cup {k} |-> IF e = k THEN @[old] ELSE @[e]],
                !.uuid = [e \in Nodes(w.tree) \cup {k} |-> SplitMark(w, k, old, e)]]

MatchSWA(w, t) == SplitSWA(w, Walk(w.tree, t))

\* A window of live tokens ends at e, or nothing on the way to it is a tombstone.
Resumable(w, e) ==
    LET tombs == Path(w.tree, e) \cap w.tomb
    IN  tombs = {} \/ Len(e) - Len(Longest(tombs)) >= Window

\* match_prefix: the deepest node on the way that can be resumed at.
ResumeNode(w, t) ==
    LET s == MatchSWA(w, t)
    IN  Longest({<<>>} \cup {e \in Path(s.tree, Walk(w.tree, t)) : Resumable(s, e)})

-----------------------------------------------------------------------------
\* insert: a tombstone is revived by the pages of the request that computed its
\* tokens anew, unless somebody still reads the old ones; only past the lock of
\* that request (after), and where its own window KV was not freed (evicted).
Revives(w, e, after) == e \in w.tomb /\ w.tree.refs[e] = 0 /\ Len(e) > after

RevivedKeys(w, hit, evicted, after) ==
    {k \in PagePrefixes(hit) : Len(k) > evicted /\ Revives(w, NodeOf(w.tree, k), after)}

\* Mutation: the tree's own pages are returned where it was not revived.
Displaced_All(w, hit, evicted, after) ==
    {w.tree.pages[k] : k \in {l \in PagePrefixes(hit) : Len(NodeOf(w.tree, l)) > after}}

\* The pages insert gives back: those a revival displaced, and the request's duplicates.
Displaced(w, hit, evicted, after) ==
    {w.tree.pages[k] : k \in RevivedKeys(w, hit, evicted, after)}

Duplicates(w, hit, row, evicted, after) ==
    {row[Len(k) \div PageSize] :
        k \in {l \in PagePrefixes(hit) : Len(NodeOf(w.tree, l)) > after}
                 \ RevivedKeys(w, hit, evicted, after)}

\* The row's pages taken over on the way, the rest of a node split off below evicted.
Revive(w, t, hit, row, evicted, after) ==
    LET keys == RevivedKeys(w, hit, evicted, after)
        cut == Upto(t, evicted)
        s == IF evicted \in 1..Len(hit) /\ Revives(w, NodeOf(w.tree, cut), after)
             THEN SplitSWA(w, cut) ELSE w
    IN  [s EXCEPT !.tree.pages = [k \in Keys(s.tree) |->
                                     IF k \in keys THEN row[Len(k) \div PageSize] ELSE @[k]],
                  !.tomb = @ \ keys,
                  !.evictable = @ + PageSize * Cardinality(keys)]

\* A new leaf below what is there.
AddChild(w, key, row, dead) ==
    [w EXCEPT !.tree = Insert(@, key, row),
              !.tomb = IF dead THEN @ \cup {key} ELSE @,
              !.sref = @ @@ (key :> 0),
              !.uuid = @ @@ (key :> 0),
              !.evictable = IF dead THEN @ ELSE @ + Len(key) - Len(Walk(w.tree, key))]

\* The tokens of a suffix (from, to] whose window KV the request has freed; a
\* last page stays live.
DeadPart(evicted, from, to) ==
    Min({Max({0, Min({evicted, to}) - from}), Max({0, to - from - PageSize})})

(***************************************************************************)
(* insert of the whole pages of t, held by the pages of row: what is there *)
(* already is revived or left, the suffix becomes a tombstone and a leaf.  *)
(***************************************************************************)
InsertSWA(w, t, row, evicted, after) ==
    LET key == Upto(t, AlignDown(Len(t)))
        hit == Walk(w.tree, key)
        s == Revive(SplitSWA(w, hit), key, hit, row, evicted, after)
        mid == Len(hit) + DeadPart(evicted, Len(hit), Len(key))
        d == IF mid > Len(hit) THEN AddChild(s, Upto(key, mid), row, TRUE) ELSE s
    IN  IF hit = key THEN s ELSE AddChild(d, key, row, FALSE)

-----------------------------------------------------------------------------
\* inc_lock: the live nodes at the end of the path, until they cover a window.
Pinned(w, k) ==
    {e \in LivePath(w, k) :
        Tokens(w, {f \in LivePath(w, k) : IsStrictPrefix(e, f)}) < Window}

\* The node where they do, if the path is that long.
Boundary(w, k) ==
    LET pinned == Pinned(w, k)
    IN  IF Tokens(w, pinned) < Window THEN <<>>
        ELSE CHOOSE e \in pinned : \A f \in pinned : IsPrefix(e, f)

\* The mark inc_lock returns; fresh is one that nobody uses.
MarkOf(w, k, fresh) ==
    LET b == Boundary(w, k)
    IN  IF b = <<>> THEN 0 ELSE IF w.uuid[b] # 0 THEN w.uuid[b] ELSE fresh

LockSWA(w, k, fresh) ==
    LET pinned == Pinned(w, k)
        moved == Tokens(w, {e \in pinned : w.sref[e] = 0})
        b == Boundary(w, k)
    IN  [w EXCEPT !.tree = Lock(@, k),
                  !.sref = [e \in DOMAIN @ |-> IF e \in pinned THEN @[e] + 1 ELSE @[e]],
                  !.uuid = [e \in DOMAIN @ |-> IF e = b THEN MarkOf(w, k, fresh) ELSE @[e]],
                  !.evictable = @ - moved,
                  !.protected = @ + moved]

\* dec_lock(node, uuid): what it unpins.
Unpinned(w, k, uuid) ==
    LET held == {e \in LivePath(w, k) : w.sref[e] > 0}
    IN  {e \in held : uuid # 0 =>
            \A f \in held : w.uuid[f] = uuid => IsPrefix(f, e)}

UnlockSWA(w, k, uuid) ==
    LET unpinned == Unpinned(w, k, uuid)
        moved == Tokens(w, {e \in unpinned : w.sref[e] = 1})
    IN  [w EXCEPT !.tree = Unlock(@, k),
                  !.sref = [e \in DOMAIN @ |-> IF e \in unpinned THEN @[e] - 1 ELSE @[e]],
                  !.evictable = @ + moved,
                  !.protected = @ - moved]

-----------------------------------------------------------------------------
(***************************************************************************)
(* The nodes that go when those of S are popped: the unlocked leaves among *)
(* them, and the tombstones this leaves without children                   *)
(* (_cascade_swa_tombstone_leaves).  An inner node popped by evict_swa     *)
(* before its children is a tombstone by then.                             *)
(***************************************************************************)
Reclaimed(w, S) ==
    LET mayGo == {e \in S \cup w.tomb : w.tree.refs[e] = 0 /\ \E s \in S : IsPrefix(e, s)}
    IN  {e \in mayGo : \A f \in Nodes(w.tree) : IsPrefix(e, f) => f \in mayGo}

\* What is left when the nodes of S are popped: the others of them as tombstones.
Popped(w, S) ==
    LET gone == Reclaimed(w, S)
        left == Nodes(w.tree) \ gone
    IN  [w EXCEPT !.tree = Evict(@, gone),
                  !.tomb = (@ \cup S) \ gone,
                  !.sref = [e \in left |-> @[e]],
                  !.uuid = [e \in left |-> @[e]],
                  !.evictable = @ - Tokens(w, S \ w.tomb)]

\* The pages whose window KV goes, and those that leave the tree.
WindowFreed(w, S) == {w.tree.pages[k] : k \in EvictedKeys(w.tree, S \ w.tomb)}
PagesFreed(w, S) == {w.tree.pages[k] : k \in EvictedKeys(w.tree, Reclaimed(w, S))}

\* evict_full(size): the unlocked leaves it may pop, a parent after its last child
\* (a tombstone goes with that child).
FullEvictions(w, size) ==
    LET Short(gone) == Size(w.tree, gone) < size
        PopsAll(S, gone) == S \subseteq gone
    IN  {S \in SUBSET {e \in Nodes(w.tree) :
                            w.tree.refs[e] = 0 /\ (e \notin w.tomb \/ IsLeafNode(w, e))} :
            /\ PopsAll(S, Reclaimed(w, S)) /\ ~Short(Reclaimed(w, S))
            /\ \E last \in S : LET before == Reclaimed(w, S \ {last})
                               IN  PopsAll(S \ {last}, before) /\ Short(before)}

\* The nodes evict_swa may pop.
Unpopped(w) == {e \in Nodes(w.tree) \ w.tomb : w.sref[e] = 0}

\* evict_swa(size): any of these, inner ones too, until size tokens are freed, or all.
WindowEvictions(w, size) ==
    IF Tokens(w, Unpopped(w)) < size THEN {Unpopped(w)}
    ELSE {S \in SUBSET Unpopped(w) :
            Tokens(w, S) >= size /\ \E last \in S : Tokens(w, S \ {last}) < size}

\* trim_head_swa(t, keep_from): the inner nodes above keep_from that no lock pins.
Trimmable(w, t, keep) ==
    {e \in Path(w.tree, Upto(t, keep)) : e \notin w.tomb /\ w.sref[e] = 0 /\ ~IsLeafNode(w, e)}

Trim(w, t, keep) ==
    LET s == MatchSWA(w, Upto(t, keep))
        head == Trimmable(s, t, keep)
    IN  [s EXCEPT !.tomb = @ \cup head, !.evictable = @ - Tokens(s, head)]

\* The pages it returns.
TrimFreed(w, t, keep) ==
    LET s == MatchSWA(w, Upto(t, keep))
    IN  {s.tree.pages[k] : k \in EvictedKeys(s.tree, Trimmable(s, t, keep))}

=============================================================================
