---------------------------- MODULE HybridManager ----------------------------
(***************************************************************************)
(* The hybrid branches of CacheManager (scheduler/cache.py): KV pages and  *)
(* recurrent-state slots, two currencies of one prefix tree.               *)
(*                                                                         *)
(* A running request owns a live slot, which its forwards advance, and two *)
(* track slots: a prefill freezes the state at a chunk boundary into one   *)
(* of them, a decode step freezes it at the tool-call anchor.  The frozen  *)
(* slot is donated to the tree, never copied, when the prompt is committed *)
(* or the request ends; a finished request also donates its live slot.     *)
(* Slots and pages come back by eviction.                                  *)
(*                                                                         *)
(* The scheduler is the order of its calls for one request, with at most   *)
(* one forward ahead of the drain, as in CacheManager; a forward's effects *)
(* on the device are ordered by its stream and happen here at its launch.  *)
(* Which free page or slot is handed out makes no difference: the lowest.  *)
(***************************************************************************)
EXTENDS HybridRadix, FreeList

CONSTANTS
    Req,            \* running requests (table slots); a released one may stand for a later one
    NumPages,       \* pages of the KV pool
    SnapshotSlots,  \* slots beyond the running requests' own (n_cache)
    Chunk,          \* CHUNK_SIZE, the grain of the states a prefill can freeze
    Token, Opener,  \* token ids; the tool-call opener (toolcall_anchor_id)
    Sampled,        \* the tokens the model samples
    Shapes,         \* what a request asks for: [prompt, output, image]
    NoImage         \* the owner of what depends on the tokens alone

ASSUME PoolAssumption == IsFiniteSet(Req) /\ NumPages \in Nat /\ SnapshotSlots \in Nat

ASSUME TokenAssumption == Sampled \subseteq Token /\ Sampled # {}

\* HybridRadixCache.__init__ asserts it.
ASSUME ChunkAssumption == Chunk \in Nat \ {0} /\ Chunk % PageSize = 0

ASSUME ShapesAssumption ==
    \A s \in Shapes : /\ s.prompt \in Seq(Token) /\ s.prompt # <<>>
                      /\ s.output \in Nat \ {0} /\ s.image \in BOOLEAN

\* Mutation: no slot is counted for the snapshot a request keeps locked.
SlotsPerReq_Three == 3

\* _linear_pool_min_slots: live, two track slots, one snapshot locked through decode.
SlotsPerReq == 4

Page == 1..NumPages
Slot == 1..(SlotsPerReq * Cardinality(Req) + SnapshotSlots)

VARIABLES
    cache,      \* prefix_cache, a value of HybridRadix
    freePages, freeSlots,   \* how often each is on its free list
    kv,         \* history: what the KV of a page in use was computed from
    state,      \* what the state in a slot was computed from
    req,        \* the requests
    dead        \* "no", or the pool that could not serve an allocation

vars == <<cache, freePages, freeSlots, kv, state, req, dead>>

\* Req's fields as the scheduler sets them; track is mamba_ping_pong, next the
\* track slot to write, frozen mamba_last_track_seqlen, restore mamba_restore_src.
NewReq ==
    [phase |-> "new", text |-> <<>>, prompt |-> 0, output |-> 0, image |-> FALSE,
     cached |-> 0, host |-> 0, handle |-> <<>>, row |-> <<>>,
     live |-> 0, track |-> <<0, 0>>, next |-> 1, frozen |-> 0, anchor |-> 0, restore |-> 0]

\* What a page or a slot holds: its owner, if any, and the tokens it stands for.
Unwritten == <<NoImage, <<>>>>

Init ==
    /\ cache = EmptyHybrid
    /\ freePages = [p \in Page |-> 1] /\ freeSlots = [s \in Slot |-> 1]
    /\ kv = [p \in Page |-> Unwritten]
    /\ state = [s \in Slot |-> Unwritten]
    /\ req = [u \in Req |-> NewReq]
    /\ dead = "no"

-----------------------------------------------------------------------------
Active == {u \in Req : req[u].phase # "new"}
InPrompt(r) == r.phase \in {"admitted", "prefill"}
Sampling(r) == r.phase \in {"drain", "decode"}
MaxDeviceLen(r) == r.prompt + r.output
Aligned(n) == AlignDown(n) = n

\* What is freed holds nothing.
Erase(content, S) == [x \in DOMAIN content |-> IF x \in S THEN Unwritten ELSE content[x]]

Content(u, n) == <<IF req[u].image THEN u ELSE NoImage, Upto(req[u].text, n)>>

\* available_size
Available(h) == h.tree.evictable + Count(freePages) * PageSize

\* reserved_size, as in CacheManager
Reserved ==
    MapThenSumSet(LAMBDA u :
        IF InPrompt(req[u]) THEN MaxDeviceLen(req[u]) - req[u].cached
        ELSE IF Len(req[u].text) < MaxDeviceLen(req[u])
             THEN MaxDeviceLen(req[u]) - Len(req[u].text) + PageSize - 1
             ELSE 0, Active)

\* The pages on the way to k, and those of a row for the tokens (from, to].
MatchedPages(h, k) == [i \in 1..(Len(k) \div PageSize) |-> h.tree.pages[Upto(k, i * PageSize)]]
RowPages(row, from, to) == {row[i] : i \in (from \div PageSize + 1)..Pages(to)}

\* ensure_mamba_slots(n): the snapshots it may evict.
Evictable(h, n) ==
    IF Count(freeSlots) < n THEN SnapshotEvictions(h, n - Count(freeSlots)) ELSE {{}}

\* The three free lists and contents after the snapshots of S are gone from h.
SlotsBack(h, S) == Put(freeSlots, FreedSlots(h, S))
PagesBack(h, S) == Put(freePages, FreedPages(h, S))

-----------------------------------------------------------------------------
MatchIds(shape) ==
    IF shape.image THEN <<>> ELSE Upto(shape.prompt, Len(shape.prompt) - 1)

\* What is matched and locked, and whether there is room for the pages.
Locked(shape) ==
    LockHybrid(MatchHybrid(cache, MatchIds(shape)), ResumePoint(cache, MatchIds(shape)))

Needed(shape) ==
    Len(shape.prompt) - Len(ResumePoint(cache, MatchIds(shape))) + shape.output + Reserved

HasRoom(shape) ==
    Needed(shape) <= Available(cache) /\ Needed(shape) <= Available(Locked(shape))

(***************************************************************************)
(* _try_allocate_one: the KV gate, the lock, then three slots, evicting    *)
(* snapshots for them; without them the lock is taken back, but what was   *)
(* evicted stays evicted.                                                  *)
(***************************************************************************)
Admit(u) ==
    /\ dead = "no" /\ req[u].phase = "new"
    /\ \E shape \in Shapes :
          LET h == Locked(shape)
              k == ResumePoint(cache, MatchIds(shape))
          IN  /\ MaxDeviceLen([prompt |-> Len(shape.prompt), output |-> shape.output])
                    <= NumPages * PageSize
              /\ HasRoom(shape)
              /\ \E S \in Evictable(h, 3) :
                    LET c == WithoutSnapshots(h, S)
                        list == SlotsBack(h, S)
                        slot == Lowest(list, 3)
                    IN  /\ freePages' = PagesBack(h, S)
                        /\ kv' = Erase(kv, FreedPages(h, S))
                        /\ state' = Erase(state, FreedSlots(h, S))
                        /\ IF Count(list) < 3
                           THEN /\ cache' = UnlockHybrid(c, k)
                                /\ freeSlots' = list
                                /\ UNCHANGED req
                           ELSE /\ cache' = c
                                /\ freeSlots' = Take(list, slot)
                                /\ req' = [req EXCEPT ![u] =
                                      [NewReq EXCEPT
                                         !.phase = "admitted", !.text = shape.prompt,
                                         !.prompt = Len(shape.prompt), !.output = shape.output,
                                         !.image = shape.image,
                                         !.cached = Len(k), !.host = Len(k),
                                         !.handle = k, !.row = MatchedPages(h, k),
                                         !.live = slot[1], !.track = <<slot[2], slot[3]>>,
                                         !.restore = IF k = <<>> THEN 0 ELSE h.snap[k]]]
    /\ UNCHANGED dead

\* No room for the pages: only the split of the walk stays.
AdmitRefused ==
    /\ dead = "no"
    /\ \E u \in Req, shape \in Shapes :
          /\ req[u].phase = "new" /\ ~HasRoom(shape)
          /\ cache' = MatchHybrid(cache, MatchIds(shape))
    /\ UNCHANGED <<freePages, freeSlots, kv, state, req, dead>>

-----------------------------------------------------------------------------
\* A chunk of n prompt tokens, or the last token sampled.
CanForward(r, n) ==
    \/ InPrompt(r) /\ n \in 1..(r.prompt - r.cached)
    \/ Sampling(r) /\ n = 1 /\ Len(r.text) < MaxDeviceLen(r) /\ Len(r.text) - r.host <= 1

NewPages(r, n) == Pages(r.cached + n) - Pages(r.cached)

\* _allocate evicts leaves for what is short.
Victims(n) ==
    IF n > Count(freePages) THEN LeafEvictions(cache, (n - Count(freePages)) * PageSize)
    ELSE {{}}

\* The state a forward starts from: none, the restored snapshot, or the live slot's.
StartState(u) ==
    IF req[u].cached = 0 THEN Content(u, 0)
    ELSE IF req[u].restore # 0 THEN state[req[u].restore] ELSE state[req[u].live]

\* The state after the tokens up to n, if it was that of the tokens before them.
StateAt(u, n) == IF StartState(u) = Content(u, req[u].cached) THEN Content(u, n) ELSE Unwritten

\* _build_track_metadata: the deepest chunk boundary strictly inside n new tokens.
TrackPoint(r, n) ==
    IF InPrompt(r) /\ (n - 1) \div Chunk >= 1 THEN r.cached + ((n - 1) \div Chunk) * Chunk ELSE 0

\* snapshot_toolcall_anchor
AnchorDue(r) ==
    /\ Sampling(r) /\ r.anchor # 0 /\ r.frozen = 0
    /\ r.cached = r.anchor /\ Aligned(r.anchor)

\* The request after a forward to end; t is sampled if that ends the prompt.  A
\* new chunk is a new Req, which keeps the slots but not the mark of the last one.
Forwarded(r, end, row, freeze, t) ==
    [r EXCEPT
        !.cached = end, !.row = row, !.restore = 0,
        !.host = IF InPrompt(r) THEN end ELSE @,
        !.text = IF end >= r.prompt THEN Append(@, t) ELSE @,
        !.phase = IF ~InPrompt(r) THEN @ ELSE IF end >= r.prompt THEN "drain" ELSE "prefill",
        !.frozen = IF InPrompt(r) \/ freeze # 0 THEN freeze ELSE @,
        !.next = IF freeze # 0 THEN 3 - @ ELSE @]

(***************************************************************************)
(* allocate_paged, the anchor freeze or the restore, and the forward of u: *)
(* its KV is written, its live state advances and, in a prefill, a track   *)
(* slot gets the state at the boundary.  It dies if not enough pages can   *)
(* be evicted (the assertion of _allocate).                                *)
(***************************************************************************)
Forward(u, n) ==
    LET r == req[u]
        end == r.cached + n
        freeze == IF InPrompt(r) THEN TrackPoint(r, n)
                  ELSE IF AnchorDue(r) THEN r.anchor ELSE 0
    IN  /\ dead = "no" /\ CanForward(r, n)
        /\ IF Victims(NewPages(r, n)) = {}
           THEN dead' = "pages" /\ UNCHANGED <<cache, freePages, freeSlots, kv, state, req>>
           ELSE \E S \in Victims(NewPages(r, n)) :
              LET list == PagesBack(cache, S)
                  fresh == Lowest(list, NewPages(r, n))
                  row == r.row \o fresh
              IN  /\ cache' = WithoutSnapshots(cache, S)
                  /\ freePages' = Take(list, fresh)
                  /\ freeSlots' = SlotsBack(cache, S)
                  /\ kv' = [p \in Page |->
                              LET at == {i \in 1..Len(row) : row[i] = p /\ i * PageSize > r.cached}
                              IN  IF at # {} THEN Content(u, Min({Max(at) * PageSize, end}))
                                  ELSE IF p \in FreedPages(cache, S) THEN Unwritten ELSE kv[p]]
                  /\ state' = [s \in Slot |->
                                 IF s = r.live THEN StateAt(u, end)
                                 ELSE IF freeze # 0 /\ s = r.track[r.next] THEN StateAt(u, freeze)
                                 ELSE IF s \in FreedSlots(cache, S) THEN Unwritten ELSE state[s]]
                  /\ \E t \in IF end >= r.prompt THEN Sampled ELSE {Opener} :
                        req' = [req EXCEPT ![u] = Forwarded(r, end, row, freeze, t)]
                  /\ UNCHANGED dead

-----------------------------------------------------------------------------
\* The track slot that was frozen last.
FrozenSlot(r) == r.track[3 - r.next]

\* The two pools after pages P, then pages Q, and slots S were freed.
FreeBoth(P, Q, S) ==
    /\ freePages' = Put(Put(freePages, P), Q) /\ kv' = Erase(kv, P \cup Q)
    /\ freeSlots' = Put(freeSlots, S) /\ state' = Erase(state, S)

\* Mutation: an unaligned state is donated to the boundary below it.
FinishDonates_Unaligned(r) == AlignDown(r.cached) > 0

\* The live state is that of a page boundary.
FinishDonates(r) == Aligned(r.cached) /\ r.cached > 0

\* A frozen state still waits to be donated.
PendingFreeze(r) == r.frozen # 0 /\ r.frozen <= r.cached /\ Aligned(r.frozen)

\* Mutation: both track slots are freed, the donated one too.
TrackSlotsFreed_Both(r, taken) == Range(r.track)

\* The track slots a finished request frees: not the one the tree has taken.
TrackSlotsFreed(r, taken) == IF taken THEN {r.track[r.next]} ELSE Range(r.track)

(***************************************************************************)
(* _cache_req_hybrid(finished=True): a pending freeze is donated first,    *)
(* then the live slot; the pages others cached meanwhile are freed, and    *)
(* what is left of the slots.                                              *)
(***************************************************************************)
Release(u, host) ==
    LET r == req[u]
        ids == Upto(r.text, Min({host, r.cached}))
        early == Upto(ids, r.frozen)
        h1 == IF PendingFreeze(r) THEN Donate(cache, early, r.row, FrozenSlot(r)) ELSE cache
        taken1 == PendingFreeze(r) /\ ~HasSnapshot(cache, early)
        free1 == IF PendingFreeze(r)
                 THEN RowPages(r.row, Len(r.handle), Len(Walk(cache.tree, early))) ELSE {}
        upto == IF PendingFreeze(r) THEN Max({Len(r.handle), r.frozen}) ELSE Len(r.handle)
        h2 == IF FinishDonates(r) THEN Donate(h1, ids, r.row, r.live) ELSE h1
        taken2 == FinishDonates(r) /\ ~HasSnapshot(h1, ids)
        free2 == IF FinishDonates(r)
                 THEN RowPages(r.row, upto, Len(Walk(h1.tree, ids)))
                 ELSE RowPages(r.row, upto, r.cached)
    IN  /\ IF r.image
           THEN /\ cache' = UnlockHybrid(cache, r.handle)
                /\ FreeBoth({}, RowPages(r.row, Len(r.handle), r.cached), Range(r.track) \cup {r.live})
           ELSE /\ cache' = UnlockHybrid(h2, r.handle)
                /\ FreeBoth(free1, free2,
                            TrackSlotsFreed(r, taken1) \cup (IF taken2 THEN {} ELSE {r.live}))
        /\ req' = [req EXCEPT ![u] = NewReq]
        /\ UNCHANGED dead

\* Mutation: the committed snapshot is not locked before its slot is replaced.
Secured_Late(h, k) == h

\* The committed snapshot is locked first: making room for the replacement of
\* its slot could take it, and its pages, away again.
Secured(h, k) == LockHybrid(h, k)

\* The row over the tree's own pages, for the span others cached meanwhile.
Repoint(r, h, k, hit) ==
    [i \in 1..Len(r.row) |-> IF i > Len(r.handle) \div PageSize /\ i <= Len(hit) \div PageSize
                             THEN MatchedPages(h, k)[i] ELSE r.row[i]]

(***************************************************************************)
(* _cache_req_hybrid(finished=False): the frozen state is donated, the     *)
(* request moves its lock to it and, if the tree took the slot, gets a new *)
(* one, for which other snapshots may be evicted.  r is the request after  *)
(* its token was appended.                                                 *)
(***************************************************************************)
Commit(u, r) ==
    LET ids == Upto(r.text, r.frozen)
        hit == Walk(cache.tree, ids)
        taken == ~HasSnapshot(cache, ids)
        h1 == UnlockHybrid(Donate(cache, ids, r.row, FrozenSlot(r)), r.handle)
        k == ResumePoint(h1, ids)
        h2 == Secured(MatchHybrid(h1, ids), k)
        dups == RowPages(r.row, Len(r.handle), Len(hit))
        moved == [r EXCEPT !.handle = k, !.frozen = 0, !.row = Repoint(r, h2, k, hit)]
    IN  IF r.image \/ r.frozen = 0 \/ ~Aligned(r.frozen)
        THEN /\ cache' = IF r.image THEN UnlockHybrid(cache, r.handle) ELSE cache
             /\ req' = [req EXCEPT ![u] = [r EXCEPT !.frozen = IF r.image THEN @ ELSE 0]]
             /\ UNCHANGED <<freePages, freeSlots, kv, state, dead>>
        ELSE IF ~taken
        THEN /\ cache' = h2 /\ FreeBoth({}, dups, {})
             /\ req' = [req EXCEPT ![u] = moved]
             /\ UNCHANGED dead
        ELSE \E S \in Evictable(h2, 1) :
                LET list == SlotsBack(h2, S)
                    new == Lowest(list, 1)[1]
                    gone == FreedPages(h2, S) \cup dups
                IN  IF Count(list) = 0
                    THEN dead' = "slots" /\ UNCHANGED <<cache, freePages, freeSlots, kv, state, req>>
                    ELSE /\ cache' = WithoutSnapshots(h2, S)
                         /\ freePages' = Put(Put(freePages, dups), FreedPages(h2, S))
                         /\ kv' = Erase(kv, gone)
                         /\ freeSlots' = Take(list, <<new>>)
                         /\ state' = Erase(state, FreedSlots(h2, S))
                         /\ req' = [req EXCEPT ![u] = [moved EXCEPT !.track[3 - r.next] = new]]
                         /\ UNCHANGED dead

(***************************************************************************)
(* A sampled token is drained: the request ends, or goes on, its anchor    *)
(* set by the opener and its prompt committed after the prefill.           *)
(***************************************************************************)
Drain(u) ==
    LET r == req[u]
        t == r.text[r.host + 1]
        drained == [r EXCEPT !.host = @ + 1, !.phase = "decode",
                             !.anchor = IF t = Opener /\ @ = 0 THEN r.host + 1 ELSE @]
    IN  /\ dead = "no" /\ Sampling(r) /\ r.host < Len(r.text)
        /\ \E stop \in BOOLEAN :
              IF stop \/ r.host + 1 >= MaxDeviceLen(r) THEN Release(u, r.host + 1)
              ELSE IF r.phase = "drain" THEN Commit(u, drained)
              ELSE /\ req' = [req EXCEPT ![u] = drained]
                   /\ UNCHANGED <<cache, freePages, freeSlots, kv, state, dead>>

\* An abort, at once or when its last forward is drained; an earlier forward's
\* token was drained before the scheduler read the abort.
Abort(u) ==
    /\ dead = "no" /\ req[u].phase \in {"prefill", "drain", "decode"}
    /\ Len(req[u].text) - req[u].host <= 1
    /\ Release(u, req[u].host)

\* rebuild, with nothing active; the slots of the discarded tree are reclaimed.
Rebuild ==
    /\ dead = "no" /\ Active = {}
    /\ cache' = EmptyHybrid
    /\ freePages' = [p \in Page |-> 1] /\ freeSlots' = [s \in Slot |-> 1]
    /\ kv' = [p \in Page |-> Unwritten]
    /\ state' = [s \in Slot |-> Unwritten]
    /\ UNCHANGED <<req, dead>>

Next ==
    \/ AdmitRefused \/ Rebuild
    \/ \E u \in Req : Admit(u) \/ Drain(u) \/ Abort(u)
    \/ \E u \in Req, n \in 1..(NumPages * PageSize) : Forward(u, n)

Spec == Init /\ [][Next]_vars

-----------------------------------------------------------------------------
(***************************************************************************)
(* Properties.                                                             *)
(***************************************************************************)
OwnPositions(r) == (Len(r.handle) \div PageSize + 1)..Len(r.row)

\* Every page and every state slot is in exactly one place: once on its free
\* list, in the tree, or with one running request.  A slot changes hands when
\* it is donated, deduplicated, replaced, evicted, or swept up by a finish that
\* also donates, and each of these frees what it does not hand over exactly once
\* (_cache_req_hybrid, _free_req_slots; check_integrity only bounds the sum).
PoolOwnership ==
    /\ \A p \in Page :
          freePages[p] + Cardinality({k \in Keys(cache.tree) : cache.tree.pages[k] = p})
             + Cardinality({at \in UNION {{u} \X OwnPositions(req[u]) : u \in Active} :
                              req[at[1]].row[at[2]] = p}) = 1
    /\ \A s \in Slot :
          freeSlots[s] + Cardinality({e \in Snapshots(cache) : cache.snap[e] = s})
             + Cardinality({u \in Active : req[u].live = s})
             + Cardinality({at \in Active \X {1, 2} : req[at[1]].track[at[2]] = s}) = 1

\* A snapshot in the tree is the state after exactly the tokens on the way to
\* its node, and a live slot that of exactly what its request has computed:
\* no restore reads a slot that was evicted and reused, and no state is attached
\* to a shorter prefix than it encodes (the alignment tests of _cache_req_hybrid).
SnapshotExact ==
    /\ \A e \in Snapshots(cache) : state[cache.snap[e]] = <<NoImage, e>>
    /\ \A u \in Active : ~InPrompt(req[u]) \/ req[u].phase = "prefill" =>
          state[req[u].live] = Content(u, req[u].cached)

\* What a row or the tree names holds the KV of those very tokens, also after a
\* commit re-pointed the row and evictions reused pages.
KVMatches ==
    /\ \A u \in Active : \A i \in 1..Len(req[u].row) :
          kv[req[u].row[i]] = Content(u, Min({i * PageSize, req[u].cached}))
    /\ \A k \in Keys(cache.tree) : kv[cache.tree.pages[k]] = <<NoImage, k>>

\* The node a running request holds is still there with its snapshot, every leaf
\* carries a live snapshot (what _cascade_tombstone_leaves is for: key-only
\* leaves would hold pages that no snapshot eviction can find), and the reference
\* counts and the four size counters are those of the handles and the tree.
TreeExact ==
    LET tree == cache.tree
        unlocked == {k \in Keys(tree) : tree.refs[NodeOf(tree, k)] = 0}
        idle == {e \in Snapshots(cache) : cache.mref[e] = 0}
    IN  /\ \A u \in Active : req[u].handle = <<>> \/ req[u].handle \in Snapshots(cache)
        /\ Snapshots(cache) \subseteq Nodes(tree)
        /\ \A e \in Nodes(tree) :
              (\A f \in Nodes(tree) : ~IsStrictPrefix(e, f)) => e \in Snapshots(cache)
        /\ \A e \in Nodes(tree) :
              tree.refs[e] = Cardinality({u \in Active : IsPrefix(e, req[u].handle)})
        /\ \A e \in Snapshots(cache) :
              cache.mref[e] = Cardinality({u \in Active : req[u].handle = e})
        /\ tree.evictable = PageSize * Cardinality(unlocked)
        /\ tree.protected = PageSize * Cardinality(Keys(tree) \ unlocked)
        /\ cache.evictable = Cardinality(idle)
        /\ cache.protected = Cardinality(Snapshots(cache) \ idle)

\* No pool fails an admitted request.  A commit takes its new slot while it
\* locks the snapshot it gave away: the floor of _linear_pool_min_slots is enough
\* for every running request at once.  And pages are there, though a hybrid match
\* is cut back to a snapshot and allocates over again what the tree already holds.
PoolsCovered == dead = "no"

=============================================================================
