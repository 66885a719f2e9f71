----------------------------- MODULE RadixCache -----------------------------
(***************************************************************************)
(* The prefix tree of kvcache/radix_cache.py, as a value and the functions *)
(* its methods compute.                                                    *)
(*                                                                         *)
(* The tokens on the way from the root to a page's end name that page, so  *)
(* the tree is a function `pages' from those token sequences (the keys,    *)
(* whole pages long, closed under prefixes) to the pages that hold their   *)
(* KV.  A RadixTreeNode is named by the tokens from the root to its end;   *)
(* its edge holds the keys between its parent's end and its own.  The      *)
(* root is the empty sequence; it is always protected and has no count.    *)
(*                                                                         *)
(* Time stamps are left out: which unlocked leaf evict takes first is any  *)
(* choice here, the heap's least recently used one among them.             *)
(***************************************************************************)
EXTENDS Integers, Sequences, FiniteSets, FiniteSetsExt, SequencesExt

CONSTANT PageSize   \* tokens per page (page_size)

ASSUME PageSizeAssumption == PageSize \in Nat \ {0}

\* div_ceil(n, page_size) and align_down(n, page_size)
Pages(n) == (n + PageSize - 1) \div PageSize
AlignDown(n) == n - (n % PageSize)

\* input_ids[:n]
Upto(t, n) == SubSeq(t, 1, n)

\* The prefixes of t that end on a page boundary, the empty one left out.
PagePrefixes(t) == {Upto(t, n) : n \in {m \in 1..Len(t) : m % PageSize = 0}}

\* RadixPrefixCache.__init__
EmptyRadix ==
    [pages |-> [k \in {} |-> 0], refs |-> [e \in {} |-> 0], evictable |-> 0, protected |-> 0]

Keys(c) == DOMAIN c.pages
Nodes(c) == DOMAIN c.refs

\* The longest of a set of sequences that are prefixes of one another.
Longest(S) == CHOOSE s \in S : \A r \in S : Len(r) <= Len(s)

\* _tree_walk: the part of t that is in the tree.
Walk(c, t) == Longest({<<>>} \cup {k \in PagePrefixes(t) : k \in Keys(c)})

\* The node whose edge holds the key k.
NodeOf(c, k) ==
    CHOOSE e \in Nodes(c) :
        /\ IsPrefix(k, e)
        /\ \A f \in Nodes(c) : IsPrefix(k, f) => Len(e) <= Len(f)

\* RadixTreeNode.length
Parent(c, e) == Longest({<<>>} \cup {f \in Nodes(c) : IsStrictPrefix(f, e)})
NodeLen(c, e) == Len(e) - Len(Parent(c, e))
Size(c, E) == MapThenSumSet(LAMBDA e : NodeLen(c, e), E)

(***************************************************************************)
(* split_at: the walk ended inside a node, which becomes two; the upper    *)
(* one takes the reference count over.                                     *)
(***************************************************************************)
Split(c, k) ==
    IF k = <<>> \/ k \in Nodes(c) THEN c
    ELSE [c EXCEPT !.refs = [e \in Nodes(c) \cup {k} |->
                                IF e = k THEN c.refs[NodeOf(c, k)] ELSE c.refs[e]]]

\* The nodes from the root to k.
Path(c, k) == {e \in Nodes(c) : IsPrefix(e, k)}

\* lock_handle(handle)
Lock(c, k) ==
    LET moved == Size(c, {e \in Path(c, k) : c.refs[e] = 0})
    IN  [c EXCEPT !.refs = [e \in Nodes(c) |->
                               IF e \in Path(c, k) THEN c.refs[e] + 1 ELSE c.refs[e]],
                  !.evictable = @ - moved,
                  !.protected = @ + moved]

\* lock_handle(handle, unlock=True)
Unlock(c, k) ==
    LET moved == Size(c, {e \in Path(c, k) : c.refs[e] = 1})
    IN  [c EXCEPT !.refs = [e \in Nodes(c) |->
                               IF e \in Path(c, k) THEN c.refs[e] - 1 ELSE c.refs[e]],
                  !.evictable = @ + moved,
                  !.protected = @ - moved]

\* match_prefix: the handle is Walk(c, t); a walk that ends inside a node splits it.
Match(c, t) == Split(c, Walk(c, t))

\* Mutation: the tokens already in the tree are counted again.
Added_Whole(key, hit) == Len(key)

\* The length of the new leaf.
Added(key, hit) == Len(key) - Len(hit)

(***************************************************************************)
(* insert_prefix of the whole pages of t, whose pages are those of row: a  *)
(* new leaf, unlocked, for what the walk did not find.                     *)
(***************************************************************************)
Insert(c, t, row) ==
    LET key == Upto(t, AlignDown(Len(t)))
        hit == Walk(c, key)
        s == Split(c, hit)
        new == {k \in PagePrefixes(key) : Len(k) > Len(hit)}
    IN  IF hit = key THEN s
        ELSE [pages |-> [k \in Keys(c) \cup new |->
                            IF k \in new THEN row[Len(k) \div PageSize] ELSE c.pages[k]],
              refs |-> [e \in Nodes(s) \cup {key} |-> IF e = key THEN 0 ELSE s.refs[e]],
              evictable |-> s.evictable + Added(key, hit),
              protected |-> s.protected]

(***************************************************************************)
(* evict(size) pops unlocked leaves, a parent after its last child, until  *)
(* at least size tokens are gone: these are the sets of nodes it may take. *)
(***************************************************************************)
Evictions(c, size) ==
    {E \in SUBSET {e \in Nodes(c) : c.refs[e] = 0} :
        /\ \A e \in E, f \in Nodes(c) : IsPrefix(e, f) => f \in E
        /\ Size(c, E) >= size
        /\ \E last \in E :
              /\ \A e \in E : ~IsStrictPrefix(e, last)
              /\ Size(c, E \ {last}) < size}

EvictedKeys(c, E) == {k \in Keys(c) : NodeOf(c, k) \in E}

Evict(c, E) ==
    [pages |-> [k \in Keys(c) \ EvictedKeys(c, E) |-> c.pages[k]],
     refs |-> [e \in Nodes(c) \ E |-> c.refs[e]],
     evictable |-> c.evictable - Size(c, E),
     protected |-> c.protected]

=============================================================================
