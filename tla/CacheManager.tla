---------------------------- MODULE CacheManager ----------------------------
(***************************************************************************)
(* The KV page manager over the radix prefix cache (scheduler/cache.py,    *)
(* the plain branches of CacheManager): matching and locking a prompt's    *)
(* prefix, allocating pages with eviction, committing a prefill, freeing a *)
(* finished request, rebuilding.                                           *)
(*                                                                         *)
(* The scheduler appears as the order in which it calls the manager for    *)
(* one request: admitted, its prompt forwarded in chunks, the last chunk   *)
(* drained and committed, tokens decoded with at most one forward ahead of *)
(* the drain, released by a stop, its length or an abort.  Requests        *)
(* interleave freely, which includes every batch the scheduler builds.     *)
(* The frees of a drain are put on the free list when the drain ends       *)
(* (lazy_free_region); nothing allocates in between, so here they are put  *)
(* there at once.                                                          *)
(***************************************************************************)
EXTENDS RadixCache

CONSTANTS
    Req,        \* requests; one that is released may stand for a later one
    Page,       \* the pages of the pool
    Token,      \* token ids
    Shapes,     \* what a request asks for: [prompt, output, image]
    NoImage     \* the owner of KV that depends on the tokens alone

ASSUME PoolAssumption == IsFiniteSet(Page) /\ IsFiniteSet(Req)

ASSUME ShapesAssumption ==
    \A s \in Shapes : /\ s.prompt \in Seq(Token) /\ s.prompt # <<>>
                      /\ s.output \in Nat \ {0} /\ s.image \in BOOLEAN

ASSUME NoImageAssumption == NoImage \notin Req

VARIABLES
    radix,      \* prefix_cache, a value of RadixCache
    free,       \* free_slots: how often each page is on the free list
    kv,         \* history: what the KV of a page in use was computed from
    phase,      \* how far the scheduler took each request
    text,       \* prompt and sampled tokens; its length is device_len once sampled
    promptLen, outputLen, image,
    cachedLen, hostLen,   \* cached_len, len(input_ids)
    handle,     \* cache_handle, as the tokens it matched
    row,        \* page_table[table_idx], as pages
    dead        \* an assertion of the allocation failed

NumPages == Cardinality(Page)

reqVars == <<phase, text, promptLen, outputLen, image, cachedLen, hostLen, handle, row>>
vars == <<radix, free, kv, reqVars, dead>>

\* What a page holds: the image's owner, if any, and the tokens up to its end.
Unwritten == <<NoImage, <<>>>>

Init ==
    /\ radix = EmptyRadix
    /\ free = [p \in Page |-> 1]
    /\ kv = [p \in Page |-> Unwritten]
    /\ phase = [u \in Req |-> "new"]
    /\ text = [u \in Req |-> <<>>]
    /\ promptLen = [u \in Req |-> 0] /\ outputLen = [u \in Req |-> 0]
    /\ image = [u \in Req |-> FALSE]
    /\ cachedLen = [u \in Req |-> 0] /\ hostLen = [u \in Req |-> 0]
    /\ handle = [u \in Req |-> <<>>]
    /\ row = [u \in Req |-> <<>>]
    /\ dead = FALSE

-----------------------------------------------------------------------------
Active == {u \in Req : phase[u] # "new"}
InPrompt(u) == phase[u] \in {"admitted", "prefill"}
Sampling(u) == phase[u] \in {"drain", "decode"}
MaxDeviceLen(u) == promptLen[u] + outputLen[u]

\* len(free_slots), available_size
FreeCount == MapThenSumSet(LAMBDA p : free[p], Page)
Available(c) == c.evictable + FreeCount * PageSize

(***************************************************************************)
(* reserved_size: what the requests already admitted may still take, those *)
(* in mid-prompt (_add_one_req; they come first in every pass) and those   *)
(* that decode (inflight_tokens).                                          *)
(***************************************************************************)
Reserved ==
    MapThenSumSet(LAMBDA u :
        IF InPrompt(u) THEN MaxDeviceLen(u) - cachedLen[u]
        ELSE IF Len(text[u]) < MaxDeviceLen(u)
             THEN MaxDeviceLen(u) - Len(text[u]) + PageSize - 1
             ELSE 0, Active)

\* The pages on the way to the end of handle k (get_matched_indices).
MatchedPages(c, k) == [i \in 1..(Len(k) \div PageSize) |-> c.pages[Upto(k, i * PageSize)]]

\* match_req leaves the last token to be computed, and never matches for an image.
MatchIds(shape) ==
    IF shape.image THEN <<>> ELSE Upto(shape.prompt, Len(shape.prompt) - 1)

\* Mutation: the pages the match takes out of the evictable ones are not seen.
Gate_BeforeLock(c, k, estimated) == estimated + Reserved <= Available(c)

\* _try_allocate_one: room before the lock, and after it.
Gate(c, k, estimated) ==
    /\ estimated + Reserved <= Available(c)
    /\ estimated + Reserved <= Available(Lock(c, k))

Estimated(shape, k) == Len(shape.prompt) - Len(k) + shape.output

(***************************************************************************)
(* _try_allocate_one and the row it writes.  A request over the context    *)
(* limit was refused when it arrived.                                      *)
(***************************************************************************)
Admit(u) ==
    /\ ~dead /\ phase[u] = "new"
    /\ \E shape \in Shapes :
          LET k == Walk(radix, MatchIds(shape))
              c == Match(radix, MatchIds(shape))
          IN  /\ Len(shape.prompt) + shape.output <= NumPages * PageSize
              /\ Gate(c, k, Estimated(shape, k))
              /\ radix' = Lock(c, k)
              /\ handle' = [handle EXCEPT ![u] = k]
              /\ row' = [row EXCEPT ![u] = MatchedPages(c, k)]
              /\ cachedLen' = [cachedLen EXCEPT ![u] = Len(k)]
              /\ hostLen' = [hostLen EXCEPT ![u] = Len(k)]
              /\ text' = [text EXCEPT ![u] = shape.prompt]
              /\ promptLen' = [promptLen EXCEPT ![u] = Len(shape.prompt)]
              /\ outputLen' = [outputLen EXCEPT ![u] = shape.output]
              /\ image' = [image EXCEPT ![u] = shape.image]
    /\ phase' = [phase EXCEPT ![u] = "admitted"]
    /\ UNCHANGED <<free, kv, dead>>

\* No room: the lock is taken back, only the split of the walk stays.
AdmitRefused ==
    /\ ~dead
    /\ \E u \in Req, shape \in Shapes :
          LET k == Walk(radix, MatchIds(shape))
              c == Match(radix, MatchIds(shape))
          IN  /\ phase[u] = "new"
              /\ ~Gate(c, k, Estimated(shape, k))
              /\ radix' = c
    /\ UNCHANGED <<free, kv, reqVars, dead>>

-----------------------------------------------------------------------------
\* device_len of u's next forward: the end of a chunk of n tokens, or the last
\* token sampled.
CanForward(u, n) ==
    \/ InPrompt(u) /\ n \in 1..(promptLen[u] - cachedLen[u])
    \/ /\ Sampling(u) /\ n = 1
       /\ Len(text[u]) < MaxDeviceLen(u) /\ Len(text[u]) - hostLen[u] <= 1

NewPages(u, n) == Pages(cachedLen[u] + n) - Pages(cachedLen[u])

\* What _allocate lacks, in tokens.
Short(pages) == (pages - FreeCount) * PageSize

\* The nodes _allocate may evict to have so many pages free.
Victims(pages) == IF pages > FreeCount THEN Evictions(radix, Short(pages)) ELSE {{}}

\* The pages of the evicted nodes come back.
FreedBy(E) == {radix.pages[k] : k \in EvictedKeys(radix, E)}

\* The free list once the pages of S are on it (again).
Return(list, S) == [p \in Page |-> IF p \in S THEN list[p] + 1 ELSE list[p]]

\* n different pages that are on the list: pages are interchangeable, so any.
Allocations(list, n) ==
    {fresh \in [1..n -> {p \in Page : list[p] > 0}] : IsInjective(fresh)}

\* The KV of tokens (cached_len, end] of u is written to its pages.
Owner(u) == IF image[u] THEN u ELSE NoImage
Content(u, i, end) == <<Owner(u), Upto(text[u], Min({i * PageSize, end}))>>

(***************************************************************************)
(* allocate_paged for one request of a batch, and the forward that writes  *)
(* its KV, advances its lengths, and samples when the prompt is through.   *)
(* An assertion of evict or _allocate ends the loop: not enough is         *)
(* evictable, or no leaf is left.                                          *)
(***************************************************************************)
Forward(u, n) ==
    /\ ~dead /\ CanForward(u, n)
    /\ IF Short(NewPages(u, n)) > radix.evictable \/ Victims(NewPages(u, n)) = {}
       THEN dead' = TRUE /\ UNCHANGED <<radix, free, kv, reqVars>>
       ELSE /\ \E E \in Victims(NewPages(u, n)) :
                  LET list == Return(free, FreedBy(E))
                  IN  \E fresh \in Allocations(list, NewPages(u, n)) :
                        /\ radix' = Evict(radix, E)
                        /\ free' = [p \in Page |-> IF p \in Range(fresh) THEN list[p] - 1 ELSE list[p]]
                        /\ row' = [row EXCEPT ![u] = @ \o fresh]
                        /\ kv' = [p \in Page |->
                                    LET at == {i \in 1..Len(row'[u]) :
                                                 row'[u][i] = p /\ i * PageSize > cachedLen[u]}
                                    IN  IF at # {} THEN Content(u, Max(at), cachedLen[u] + n)
                                        ELSE IF p \in FreedBy(E) THEN Unwritten ELSE kv[p]]
            /\ cachedLen' = [cachedLen EXCEPT ![u] = @ + n]
            /\ hostLen' = [hostLen EXCEPT ![u] = IF InPrompt(u) THEN cachedLen[u] + n ELSE @]
            /\ IF cachedLen[u] + n < promptLen[u]
               THEN phase' = [phase EXCEPT ![u] = "prefill"] /\ UNCHANGED text
               ELSE /\ phase' = [phase EXCEPT ![u] = IF InPrompt(u) THEN "drain" ELSE @]
                    /\ \E t \in Token : text' = [text EXCEPT ![u] = Append(@, t)]
            /\ UNCHANGED <<promptLen, outputLen, image, handle, dead>>

-----------------------------------------------------------------------------
\* The pages of u's row that hold tokens (from, to], both on page boundaries.
RowPages(u, from, to) == {row[u][i] : i \in (from \div PageSize + 1)..(to \div PageSize)}

\* Mutation: only whole pages are freed.
PaddedTail_Floor(u, start) == RowPages(u, start, cachedLen[u])

\* _padded_tail: to the end of the last page, filled or not.
PaddedTail(u, start) == RowPages(u, start, Pages(cachedLen[u]) * PageSize)

\* insert_ids: what the host knows of the tokens whose KV is written.
Known(u, host) == Upto(text[u], Min({host, cachedLen[u]}))

FreePages(S) ==
    /\ free' = Return(free, S)
    /\ kv' = [p \in Page |-> IF p \in S THEN Unwritten ELSE kv[p]]

\* The pages whose tokens another request cached since u was matched.
Duplicates(u, hit) == RowPages(u, Len(handle[u]), Len(hit))

\* Mutation: the row keeps the request's own pages.
Repoint_Not(u, c, hit) == row[u]

\* The row of u over the tree's own pages for hit.
Repoint(u, c, hit) ==
    [i \in 1..Len(row[u]) |-> IF i <= Len(hit) \div PageSize
                              THEN MatchedPages(c, hit)[i] ELSE row[u][i]]

\* "unlock until all operations on handle is done"
Released(c, k) == Unlock(c, k)

(***************************************************************************)
(* cache_req(req, finished=True) and the release of the request's slot.    *)
(***************************************************************************)
Release(u, host) ==
    LET ids == Known(u, host)
        hit == Walk(radix, Upto(ids, AlignDown(Len(ids))))
    IN  /\ IF image[u]
           THEN /\ radix' = Released(radix, handle[u])
                /\ FreePages(PaddedTail(u, Len(handle[u])))
           ELSE /\ radix' = Released(Insert(radix, ids, row[u]), handle[u])
                /\ FreePages(Duplicates(u, hit) \cup PaddedTail(u, AlignDown(Len(ids))))
        /\ phase' = [phase EXCEPT ![u] = "new"]
        /\ text' = [text EXCEPT ![u] = <<>>]
        /\ promptLen' = [promptLen EXCEPT ![u] = 0]
        /\ outputLen' = [outputLen EXCEPT ![u] = 0]
        /\ image' = [image EXCEPT ![u] = FALSE]
        /\ cachedLen' = [cachedLen EXCEPT ![u] = 0]
        /\ hostLen' = [hostLen EXCEPT ![u] = 0]
        /\ handle' = [handle EXCEPT ![u] = <<>>]
        /\ row' = [row EXCEPT ![u] = <<>>]
        /\ UNCHANGED dead

(***************************************************************************)
(* cache_req(req, finished=False): what the request computed is shared,    *)
(* what others shared before it is freed and its row re-pointed.           *)
(***************************************************************************)
Commit(u, host) ==
    LET ids == Known(u, host)
        key == Upto(ids, AlignDown(Len(ids)))
        hit == Walk(radix, key)
        c == Insert(radix, ids, row[u])
    IN  IF image[u]
        THEN /\ radix' = Released(radix, handle[u])
             /\ UNCHANGED <<free, kv, handle, row>>
        ELSE /\ radix' = Lock(Released(c, handle[u]), key)
             /\ FreePages(Duplicates(u, hit))
             /\ handle' = [handle EXCEPT ![u] = key]
             /\ row' = [row EXCEPT ![u] = Repoint(u, c, hit)]

\* A sampled token is drained: the request ends, or commits its prompt, or goes on.
Drain(u) ==
    /\ ~dead /\ Sampling(u) /\ hostLen[u] < Len(text[u])
    /\ \E stop \in BOOLEAN :
          IF stop \/ hostLen[u] + 1 >= MaxDeviceLen(u)
          THEN Release(u, hostLen[u] + 1)
          ELSE /\ hostLen' = [hostLen EXCEPT ![u] = @ + 1]
               /\ IF phase[u] = "drain"
                  THEN Commit(u, hostLen[u] + 1)
                  ELSE UNCHANGED <<radix, free, kv, handle, row>>
               /\ phase' = [phase EXCEPT ![u] = "decode"]
               /\ UNCHANGED <<text, promptLen, outputLen, image, cachedLen, dead>>

\* An abort, at once or when its last forward is drained.
Abort(u) ==
    /\ ~dead /\ phase[u] \in {"prefill", "drain", "decode"}
    /\ Sampling(u) => Len(text[u]) - hostLen[u] <= 1
    /\ Release(u, hostLen[u])

\* rebuild, with nothing active.
Rebuild ==
    /\ ~dead /\ Active = {}
    /\ radix' = EmptyRadix
    /\ free' = [p \in Page |-> 1]
    /\ kv' = [p \in Page |-> Unwritten]
    /\ UNCHANGED <<reqVars, dead>>

Next ==
    \/ AdmitRefused \/ Rebuild
    \/ \E u \in Req : Admit(u) \/ Drain(u) \/ Abort(u)
    \/ \E u \in Req, n \in 1..(NumPages * PageSize) : Forward(u, n)

Spec == Init /\ [][Next]_vars

-----------------------------------------------------------------------------
(***************************************************************************)
(* Properties.                                                             *)
(***************************************************************************)
\* The positions of u's row that u allocated and has not shared.
OwnPositions(u) == (Len(handle[u]) \div PageSize + 1)..Len(row[u])

\* Every page is in exactly one place: once on the free list, under one key of
\* the tree, or at one position of one request's own part of its row.  Nothing is
\* leaked, freed twice or handed to two requests, whatever is deduplicated,
\* evicted, aborted or finished in between (check_integrity sees this only when
\* the scheduler is idle, and only as a sum).
PageOwnership ==
    \A p \in Page :
        free[p] + Cardinality({k \in Keys(radix) : radix.pages[k] = p})
                + Cardinality({at \in UNION {{u} \X OwnPositions(u) : u \in Active} :
                                 row[at[1]][at[2]] = p}) = 1

\* What attention reads through a request's row is the KV of that request's own
\* tokens, and of its own image: a page is never reused under a row that still
\* points at it (cache.py:335), and images never share (cache.py:102).
KVMatches ==
    /\ \A u \in Active : \A i \in 1..Len(row[u]) :
          kv[row[u][i]] = Content(u, i, cachedLen[u])
    /\ \A k \in Keys(radix) : kv[radix.pages[k]] = <<NoImage, k>>

\* A node's reference count is the number of requests whose handle runs through
\* it, and the counters that admission and eviction trust are the sizes of the
\* unlocked and of the locked part of the tree: both are kept by increments,
\* across splits of locked nodes, commits that move a handle, and aborts
\* (lock_handle, evictable_size, protected_size).
CountersExact ==
    LET unlocked == {k \in Keys(radix) : radix.refs[NodeOf(radix, k)] = 0}
    IN  /\ \A e \in Nodes(radix) :
              radix.refs[e] = Cardinality({u \in Active : IsPrefix(e, handle[u])})
        /\ radix.evictable = PageSize * Cardinality(unlocked)
        /\ radix.protected = PageSize * Cardinality(Keys(radix) \ unlocked)

\* An admitted request always gets the pages it needs, though the prefix it
\* shares, the eviction it causes and the pages the others need come out of the
\* same pool (the assertions of evict and _allocate).
AllocationCovered == ~dead

=============================================================================
