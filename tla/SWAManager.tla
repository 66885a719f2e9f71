----------------------------- MODULE SWAManager -----------------------------
(***************************************************************************)
(* The sliding-window branches of CacheManager (scheduler/cache.py) and of *)
(* admission (scheduler/prefill.py), over SWARadix: pages of the full KV   *)
(* pool, and slots of the smaller window pool, which the map `swa' of      *)
(* HybridSWAKVCache hangs on pages.  Window slots come back as tokens      *)
(* slide out of a request's window, and by eviction from the tree.         *)
(*                                                                         *)
(* The scheduler is the order of its calls.  A batch is chosen and         *)
(* prepared as a whole, then its requests take their memory and run, one   *)
(* by one; between two batches tokens are drained and requests aborted,    *)
(* with at most one forward ahead of the drain.  A forward's effects on    *)
(* the device are ordered by its stream and happen here at its launch.     *)
(*                                                                         *)
(* A page of the model has one window slot, which stands for those of its  *)
(* PageSize tokens: they are always taken and freed together.              *)
(*                                                                         *)
(* Left out: the window KV kept longer for a tool-call anchor, which only  *)
(* lowers how much maybe_free_swa_out_of_window frees; the shadow pools of *)
(* DeepSeek V4, which ride on the same slots.                              *)
(***************************************************************************)
EXTENDS SWARadix, FreeList

CONSTANTS
    Req,            \* the requests, each run once
    NumPages,       \* pages of the full KV pool
    NumSlots,       \* slots of the window pool
    RetainGap,      \* _SWA_RETAIN_GAP
    Interval,       \* _SWA_EVICTION_INTERVAL
    Token, Sampled, \* token ids, and those the model samples
    Chunks,         \* prompt tokens a forward may have left in its token budget
    Shapes,         \* what a request asks for: [prompt, output, image]
    NoImage         \* the owner of what depends on the tokens alone

ASSUME PoolAssumption == IsFiniteSet(Req) /\ NumPages \in Nat /\ NumSlots \in Nat

ASSUME CadenceAssumption == RetainGap \in Nat /\ Interval \in Nat \ {0}

ASSUME TokenAssumption == Sampled \subseteq Token /\ Sampled # {}

ASSUME ShapesAssumption ==
    /\ Chunks \subseteq Nat \ {0}
    /\ \A s \in Shapes : /\ s.prompt \in Seq(Token) /\ s.prompt # <<>>
                         /\ s.output \in Nat \ {0} /\ s.image \in BOOLEAN

Page == 1..NumPages
Slot == 1..NumSlots

VARIABLES
    cache,      \* prefix_cache, a value of SWARadix
    pools,      \* the free lists of pages and of slots, and full_to_swa_index_mapping
    kv, wkv,    \* history: what the KV in a page or slot in use was computed from
    req,        \* the requests
    todo,       \* the batch's requests not yet forwarded, and where each forward ends
    batch,      \* "idle", "filling" while requests are added, "full", "running"
    iter,       \* _forward_iter, modulo Interval
    dead,       \* "no", or what could not be served
    stale       \* history: a commit's match ended before what it had inserted

vars == <<cache, pools, kv, wkv, req, todo, batch, iter, dead, stale>>

\* Req's fields as the scheduler sets them; uuid is the handle's swa_uuid, evicted
\* swa_evicted_seqlen, decoded says that decode_batch_idx is positive.
NewReq ==
    [phase |-> "new", text |-> <<>>, prompt |-> 0, output |-> 0, image |-> FALSE,
     cached |-> 0, host |-> 0, handle |-> <<>>, uuid |-> 0, row |-> <<>>,
     evicted |-> 0, decoded |-> FALSE]

\* What a page or a slot holds: its owner, if any, and the tokens it stands for.
Unwritten == <<NoImage, <<>>>>

\* Slot 0 is the sentinel: no live window KV.
EmptyPools ==
    [pages |-> [p \in Page |-> 1], slots |-> [s \in Slot |-> 1], swa |-> [p \in Page |-> 0]]

Init ==
    /\ cache = EmptySWA
    /\ pools = EmptyPools
    /\ kv = [p \in Page |-> Unwritten] /\ wkv = [s \in Slot |-> Unwritten]
    /\ req = [u \in Req |-> NewReq]
    /\ todo = [u \in {} |-> 0] /\ batch = "idle" /\ iter = 0
    /\ dead = "no" /\ stale = FALSE

-----------------------------------------------------------------------------
Active == {u \in Req : req[u].phase \notin {"new", "done"}}
InPrompt(r) == r.phase \in {"admitted", "prefill"}
Sampling(r) == r.phase \in {"drain", "decode"}
MaxDeviceLen(r) == r.prompt + r.output
CanDecode(r) == Sampling(r) /\ Len(r.text) < MaxDeviceLen(r)

Content(u, n) == <<IF req[u].image THEN u ELSE NoImage, Upto(req[u].text, n)>>

\* available_size, swa_available_size
Available(w) == w.tree.evictable + Count(pools.pages) * PageSize
WindowAvailable(w) == w.evictable + Count(pools.slots) * PageSize

\* reserved_size, as in CacheManager
Reserved ==
    MapThenSumSet(LAMBDA u :
        IF InPrompt(req[u]) THEN MaxDeviceLen(req[u]) - req[u].cached
        ELSE IF CanDecode(req[u]) THEN MaxDeviceLen(req[u]) - Len(req[u].text) + PageSize - 1
             ELSE 0, Active)

\* reserved_swa: the whole pages of the requests already in the batch.
ReservedSwa ==
    MapThenSumSet(LAMBDA u : (Pages(todo[u]) - Pages(req[u].cached)) * PageSize, DOMAIN todo)

\* The pages on the way to k, and those of a row for the tokens (from, to].
MatchedPages(w, k) == [i \in 1..(Len(k) \div PageSize) |-> w.tree.pages[Upto(k, i * PageSize)]]
RowPages(row, from, to) == {row[i] : i \in (from \div PageSize + 1)..Pages(to)}

\* free_swa: the slots of these pages, but for those at the sentinel.
FreeWindow(mem, P) ==
    [mem EXCEPT !.slots = Put(@, {mem.swa[p] : p \in P} \ {0}),
                !.swa = [p \in Page |-> IF p \in P THEN 0 ELSE @[p]]]

\* _free_swa, then _free
FreeBoth(mem, P) == [FreeWindow(mem, P) EXCEPT !.pages = Put(@, P)]

\* The pools become mem; what is free holds nothing.
Settle(mem, content, window) ==
    /\ pools' = mem
    /\ kv' = [p \in Page |-> IF mem.pages[p] > 0 THEN Unwritten ELSE content[p]]
    /\ wkv' = [s \in Slot |-> IF mem.slots[s] > 0 THEN Unwritten ELSE window[s]]

-----------------------------------------------------------------------------
MatchIds(shape) ==
    IF shape.image THEN <<>> ELSE Upto(shape.prompt, Len(shape.prompt) - 1)

\* A mark that no node and no handle has.
FreshMark ==
    LET used == {cache.uuid[e] : e \in DOMAIN cache.uuid} \cup {req[u].uuid : u \in Req}
    IN  CHOOSE n \in 1..(Cardinality(used) + 1) :
            n \notin used /\ \A i \in 1..(n - 1) : i \in used

(***************************************************************************)
(* _try_allocate_one(shape) up to its tests: the match, and what the tree  *)
(* is before and after the lock.                                           *)
(***************************************************************************)
Offer(shape) ==
    LET matched == MatchSWA(cache, MatchIds(shape))
        handle == ResumeNode(cache, MatchIds(shape))
    IN  [shape |-> shape, handle |-> handle, matched |-> matched,
         mark |-> MarkOf(matched, handle, FreshMark),
         locked |-> LockSWA(matched, handle, FreshMark)]

Offers == {Offer(shape) : shape \in Shapes}

\* Its two tests of the KV pool, and that of the window pool.
ExtendLen(o) == Len(o.shape.prompt) - Len(o.handle)
FitsBefore(o) == ExtendLen(o) + o.shape.output + Reserved <= Available(cache)
FitsLocked(o) == ExtendLen(o) + o.shape.output + Reserved <= Available(o.locked)
FitsWindow(o) ==
    WindowAvailable(o.locked) - ReservedSwa >= Pages(Min({ExtendLen(o), Window}) + 1) * PageSize
Fits(o) == FitsBefore(o) /\ FitsLocked(o) /\ FitsWindow(o)

\* The out-of-window frontier before the next forward of r, if it has moved.
Frontier(r) == AlignDown(r.cached - Window - PageSize)
FreeFrom(r) == Max({r.evicted, Len(r.handle)})

(***************************************************************************)
(* _add_one_req: where a chunk of r may end, whatever the token budget.    *)
(* The window pool caps it, this request's own out-of-window slots         *)
(* counted; a chunk that leaves a rest ends on a page.                     *)
(***************************************************************************)
ChunkEnds(r, w) ==
    LET budget == WindowAvailable(w) + Max({0, Frontier(r) - FreeFrom(r)}) - ReservedSwa
        cap == Max({(Pages(r.cached) + Max({budget, 0}) \div PageSize) * PageSize, r.cached})
        ends == {Min({r.cached + n, r.prompt, cap}) : n \in Chunks}
    IN  {IF e \in {r.cached, r.prompt} THEN e ELSE AlignDown(e) :
            e \in {x \in ends : x \in {r.cached, r.prompt} \/ AlignDown(x) > r.cached}}

\* A batch can be scheduled: the one before the last is drained.
CanSchedule ==
    /\ dead = "no" /\ batch \in {"idle", "filling"}
    /\ batch = "idle" => \A u \in Active : Len(req[u].text) - req[u].host <= 1

\* A chunk without tokens fails Req's assertion on its lengths.
AddToBatch(u, r, e) ==
    IF e = r.cached
    THEN dead' = "chunk" /\ UNCHANGED <<todo, batch>>
    ELSE todo' = todo @@ (u :> e) /\ batch' = "filling" /\ UNCHANGED dead

\* try_add_one: the next chunk of a prompt in progress.
Continue(u) ==
    /\ CanSchedule
    /\ req[u].phase = "prefill" /\ u \notin DOMAIN todo
    /\ \E e \in ChunkEnds(req[u], cache) : AddToBatch(u, req[u], e)
    /\ UNCHANGED <<cache, pools, kv, wkv, req, iter, stale>>

\* What is in progress comes first.
PromptsInBatch == \A u \in Req : req[u].phase = "prefill" => u \in DOMAIN todo

Admitted(o) ==
    [NewReq EXCEPT
       !.phase = "admitted", !.text = o.shape.prompt, !.prompt = Len(o.shape.prompt),
       !.output = o.shape.output, !.image = o.shape.image,
       !.cached = Len(o.handle), !.host = Len(o.handle), !.handle = o.handle, !.uuid = o.mark,
       !.row = MatchedPages(o.matched, o.handle)]

\* try_add_one: a new request and its first chunk.
Admit(u) ==
    /\ CanSchedule /\ PromptsInBatch /\ req[u].phase = "new"
    /\ \E o \in Offers :
          /\ Len(o.shape.prompt) + o.shape.output <= NumPages * PageSize
          /\ Fits(o)
          /\ cache' = o.locked
          /\ req' = [req EXCEPT ![u] = Admitted(o)]
          /\ \E e \in ChunkEnds(Admitted(o), o.locked) : AddToBatch(u, Admitted(o), e)
    /\ UNCHANGED <<pools, kv, wkv, iter, stale>>

\* A request that does not fit ends the batch. It leaves the split of the walk and,
\* if it was locked and unlocked again, a mark.
AdmitRefused ==
    /\ CanSchedule /\ PromptsInBatch /\ \E u \in Req : req[u].phase = "new"
    /\ \E o \in Offers :
          /\ ~Fits(o) \/ ChunkEnds(Admitted(o), o.locked) = {}
          /\ cache' = IF FitsBefore(o) THEN UnlockSWA(o.locked, o.handle, o.mark) ELSE o.matched
    /\ batch' = IF batch = "filling" THEN "full" ELSE batch
    /\ UNCHANGED <<pools, kv, wkv, req, todo, iter, dead, stale>>

-----------------------------------------------------------------------------
\* Mutation: a request's frees start below what the tree lent it.
OutOfWindow_Unfloored(r) ==
    IF Frontier(r) > r.evicted THEN {r.row[i] : i \in 1..(Frontier(r) \div PageSize)} ELSE {}

\* free_swa_out_of_window_extend, maybe_free_swa_out_of_window: the pages whose
\* slots are freed, only the request's own.
OutOfWindow(r) ==
    IF Frontier(r) > FreeFrom(r) THEN RowPages(r.row, FreeFrom(r), Frontier(r)) ELSE {}

\* Every prefill frees; a decode batch on the cadence, and no request's first.
FreesNow(r) == InPrompt(r) \/ (iter' = 0 /\ r.decoded)

\* _allocate: the tree w and the pools mem after what it may evict for n pages.
PageRoom(w, mem, n) ==
    IF n <= Count(mem.pages) THEN {[cache |-> w, pools |-> mem]}
    ELSE {[cache |-> Popped(w, S), pools |-> FreeBoth(mem, PagesFreed(w, S))] :
            S \in FullEvictions(w, (n - Count(mem.pages)) * PageSize)}

\* ensure_swa_slots: the same for n slots.
SlotRoom(w, mem, n) ==
    IF n <= Count(mem.slots) THEN {[cache |-> w, pools |-> mem]}
    ELSE {[cache |-> Popped(w, S),
           pools |-> [FreeWindow(mem, WindowFreed(w, S))
                        EXCEPT !.pages = Put(@, PagesFreed(w, S))]] :
            S \in WindowEvictions(w, (n - Count(mem.slots)) * PageSize)}

Prepared(r) ==
    [r EXCEPT !.evicted = IF FreesNow(r) /\ OutOfWindow(r) # {} THEN Frontier(r) ELSE @,
              !.decoded = ~InPrompt(r)]

Fail(why) == dead' = why /\ UNCHANGED <<cache, pools, kv, wkv, req, todo, batch>>

(***************************************************************************)
(* _prepare_batch, for forwards up to ends: what is out of the requests'   *)
(* windows is freed, then room is made for the batch's pages and slots.    *)
(* Without enough of them an assertion, or the exception of alloc_swa,     *)
(* ends the loop.                                                          *)
(***************************************************************************)
Prepare(ends) ==
    LET reqs == DOMAIN ends
        n == MapThenSumSet(LAMBDA u : Pages(ends[u]) - Pages(req[u].cached), reqs)
        out == UNION {OutOfWindow(req[u]) : u \in {v \in reqs : FreesNow(req[v])}}
        rooms == UNION {SlotRoom(a.cache, a.pools, n) :
                           a \in PageRoom(cache, FreeWindow(pools, out), n)}
    IN  /\ iter' = (iter + 1) % Interval
        /\ IF rooms = {} THEN Fail("pages")
           ELSE \E r \in rooms :
                  IF n > Count(r.pools.slots) THEN Fail("window")
                  ELSE /\ cache' = r.cache /\ Settle(r.pools, kv, wkv)
                       /\ req' = [u \in Req |-> IF u \in reqs THEN Prepared(req[u]) ELSE req[u]]
                       /\ todo' = ends /\ batch' = "running" /\ UNCHANGED dead
        /\ UNCHANGED stale

\* A prefill batch: the requests added to it.
StartPrefill == dead = "no" /\ batch \in {"filling", "full"} /\ Prepare(todo)

\* A decode batch: all that can decode, when no prompt in progress can go on.
StartDecode ==
    /\ CanSchedule /\ batch = "idle"
    /\ \A u \in Req : req[u].phase = "prefill" => ChunkEnds(req[u], cache) = {}
    /\ \E u \in Req : CanDecode(req[u])
    /\ Prepare([u \in {v \in Req : CanDecode(req[v])} |-> req[u].cached + 1])

\* The pools once the pages and slots of these sequences are taken, slot i for page i.
Taken(mem, pages, slots) ==
    [pages |-> Take(mem.pages, pages),
     slots |-> Take(mem.slots, slots),
     swa |-> [p \in Page |-> IF p \in Range(pages)
                            THEN slots[CHOOSE i \in DOMAIN pages : pages[i] = p] ELSE mem.swa[p]]]

\* The request after its forward; t is sampled if that ends the prompt.
Forwarded(r, end, row, t) ==
    [r EXCEPT
        !.cached = end, !.row = row,
        !.host = IF InPrompt(r) THEN end ELSE @,
        !.text = IF end >= r.prompt THEN Append(@, t) ELSE @,
        !.phase = IF ~InPrompt(r) THEN @ ELSE IF end >= r.prompt THEN "drain" ELSE "prefill"]

\* What a forward of u from cached to end writes: the pages, and their slots.
Written(u, row, end, p, old) ==
    LET at == {i \in 1..Len(row) : row[i] = p /\ i * PageSize > req[u].cached}
    IN  IF at = {} THEN old ELSE Content(u, Min({Max(at) * PageSize, end}))

WrittenSlot(u, row, end, swa, s) ==
    LET p == {q \in Range(row) : swa[q] = s}
    IN  IF p = {} THEN wkv[s] ELSE Written(u, row, end, CHOOSE q \in p : TRUE, wkv[s])

\* The forward of u: pages and slots for its tokens, and their KV written there.
Forward(u) ==
    LET r == req[u]
        end == todo[u]
        n == Pages(end) - Pages(r.cached)
        fresh == Lowest(pools.pages, n)
        row == r.row \o fresh
        after == Taken(pools, fresh, Lowest(pools.slots, n))
    IN  /\ dead = "no" /\ batch = "running" /\ u \in DOMAIN todo
        /\ Settle(after, [p \in Page |-> Written(u, row, end, p, kv[p])],
                         [s \in Slot |-> WrittenSlot(u, row, end, after.swa, s)])
        /\ \E t \in IF end >= r.prompt THEN Sampled ELSE {NoImage} :
              req' = [req EXCEPT ![u] = Forwarded(r, end, row, t)]
        /\ todo' = [v \in DOMAIN todo \ {u} |-> todo[v]]
        /\ batch' = IF DOMAIN todo = {u} THEN "idle" ELSE batch
        /\ UNCHANGED <<cache, iter, dead, stale>>

-----------------------------------------------------------------------------
Unlocked(w, r) == UnlockSWA(w, r.handle, r.uuid)

\* Both pools after an insert of ids, held by r.
Reconciled(r, ids) ==
    FreeBoth(FreeBoth(pools, Displaced(MatchSWA(cache, ids), Walk(cache.tree, ids),
                                       r.evicted, Len(r.handle))),
             Duplicates(MatchSWA(cache, ids), Walk(cache.tree, ids),
                        r.row, r.evicted, Len(r.handle)))

\* A window before n, the retained gap included.
KeepFrom(n) == AlignDown(Max({n - Window - RetainGap, 0}))

(***************************************************************************)
(* _cache_req_swa(finished=True): insert, unlock, free the rest in both    *)
(* pools, and the window KV of the prompt but for its end.                 *)
(***************************************************************************)
Release(u, host) ==
    LET r == req[u]
        whole == AlignDown(r.cached)
        ids == Upto(r.text, AlignDown(Min({host, whole})))
        w1 == Unlocked(InsertSWA(cache, ids, r.row, r.evicted, Len(r.handle)), r)
        m1 == FreeBoth(Reconciled(r, ids), RowPages(r.row, whole, r.cached))
        prompt == AlignDown(Min({r.prompt, r.cached}))
        keep == KeepFrom(prompt)
        w2 == IF keep > 0 THEN Trim(w1, r.text, keep) ELSE w1
        m2 == IF keep > 0 THEN FreeWindow(m1, TrimFreed(w1, r.text, keep)) ELSE m1
    IN  /\ IF r.image
           THEN /\ cache' = Unlocked(cache, r)
                /\ Settle(FreeBoth(pools, RowPages(r.row, Len(r.handle), r.cached)), kv, wkv)
           ELSE /\ cache' = MatchSWA(w2, Upto(r.text, prompt))
                /\ Settle(m2, kv, wkv)
        /\ req' = [req EXCEPT ![u] = [NewReq EXCEPT !.phase = "done"]]
        /\ UNCHANGED <<todo, batch, iter, dead, stale>>

\* The row over the tree's own pages, as far as the match goes.
Repoint(w, row, k) ==
    [i \in 1..Len(row) |-> IF i * PageSize <= Len(k) THEN MatchedPages(w, k)[i] ELSE row[i]]

(***************************************************************************)
(* _cache_req_swa(finished=False): insert, move the lock to the match of   *)
(* what was inserted, split so that it pins the last window only.          *)
(***************************************************************************)
Commit(u, r) ==
    LET ids == Upto(r.text, AlignDown(Min({r.host, r.cached})))
        w1 == Unlocked(InsertSWA(cache, ids, r.row, r.evicted, Len(r.handle)), r)
        w2 == MatchSWA(MatchSWA(w1, Upto(ids, KeepFrom(Len(ids)))), ids)
        k == ResumeNode(w2, ids)
    IN  /\ IF r.image
           THEN /\ cache' = Unlocked(cache, r) /\ req' = [req EXCEPT ![u] = r]
                /\ UNCHANGED <<pools, kv, wkv, stale>>
           ELSE /\ cache' = LockSWA(w2, k, FreshMark)
                /\ Settle(Reconciled(r, ids), kv, wkv)
                /\ req' = [req EXCEPT ![u] =
                      [r EXCEPT !.handle = k, !.uuid = MarkOf(w2, k, FreshMark),
                                !.row = Repoint(w2, r.row, k)]]
                /\ stale' = (stale \/ Len(k) < Len(ids))
        /\ UNCHANGED <<todo, batch, iter, dead>>

(***************************************************************************)
(* A sampled token is drained: the request ends, or goes on, its prompt    *)
(* committed after the prefill.                                            *)
(***************************************************************************)
Drain(u) ==
    LET r == req[u]
        drained == [r EXCEPT !.host = @ + 1, !.phase = "decode"]
    IN  /\ dead = "no" /\ batch = "idle" /\ Sampling(r) /\ r.host < Len(r.text)
        /\ \E stop \in BOOLEAN :
              IF stop \/ r.host + 1 >= MaxDeviceLen(r) THEN Release(u, r.host + 1)
              ELSE IF r.phase = "drain" THEN Commit(u, drained)
              ELSE /\ req' = [req EXCEPT ![u] = drained]
                   /\ UNCHANGED <<cache, pools, kv, wkv, todo, batch, iter, dead, stale>>

\* An abort, at once or when its last forward is drained.
Abort(u) ==
    /\ dead = "no" /\ batch = "idle" /\ req[u].phase \in {"prefill", "drain", "decode"}
    /\ Len(req[u].text) - req[u].host <= 1
    /\ Release(u, req[u].host)

\* rebuild, with nothing active; the pool starts over too.
Rebuild ==
    /\ dead = "no" /\ Active = {}
    /\ cache' = EmptySWA /\ Settle(EmptyPools, kv, wkv)
    /\ UNCHANGED <<req, todo, batch, iter, dead, stale>>

Next ==
    \/ AdmitRefused \/ StartPrefill \/ StartDecode \/ Rebuild
    \/ \E u \in Req : Continue(u) \/ Admit(u) \/ Forward(u) \/ Drain(u) \/ Abort(u)

Spec == Init /\ [][Next]_vars

-----------------------------------------------------------------------------
(***************************************************************************)
(* Properties.                                                             *)
(***************************************************************************)
OwnPositions(r) == (Len(r.handle) \div PageSize + 1)..Len(r.row)

\* What a commit finds again in the tree is live: "the reconcile revived the in-window
\* tombstones, so the re-matched slots are live" (scheduler/cache.py:518-519).  So no
\* page in the row of a running request is on the free list.
RowsLive == \A u \in Active : \A i \in DOMAIN req[u].row : pools.pages[req[u].row[i]] = 0

\* Every page is in one place: once on its free list, in the tree, or with one
\* running request; every window slot once on its list or on one page, and no free
\* page has one.  Pages and slots change hands when an insert revives a tombstone
\* with a request's pages, drops duplicates or is cut by what the request freed, and
\* the two lists are kept by different calls (_free, free_swa; check_integrity
\* compares only sums, and only at rest).  It holds until a commit's match falls short
\* of its insert, which RowsLive is about.
PoolOwnership ==
    stale \/
    /\ \A p \in Page :
          /\ pools.pages[p] + Cardinality({k \in Keys(cache.tree) : cache.tree.pages[k] = p})
                + Cardinality({at \in UNION {{u} \X OwnPositions(req[u]) : u \in Active} :
                                 req[at[1]].row[at[2]] = p}) = 1
          /\ pools.pages[p] > 0 => pools.swa[p] = 0
    /\ \A s \in Slot : pools.slots[s] + Cardinality({p \in Page : pools.swa[p] = s}) = 1

\* What the next forward of a request reads is the KV of its own tokens: in the
\* full layers all its row, in the window layers the last tokens, whose slots
\* must be live and not reused, though the tree may be short of slots all along.
\* And whoever matches the tree will find the same there (until, again, a commit's
\* match falls short).
ReadsExact ==
    stale \/
    /\ \A u \in Active : \A i \in 1..Len(req[u].row) :
          LET p == req[u].row[i]
              here == Content(u, Min({i * PageSize, req[u].cached}))
          IN  /\ kv[p] = here
              /\ i * PageSize >= req[u].cached - Window + 2 =>
                    pools.swa[p] # 0 /\ wkv[pools.swa[p]] = here
    /\ \A k \in Keys(cache.tree) :
          LET p == cache.tree.pages[k]
          IN  /\ kv[p] = <<NoImage, k>>
              /\ IF NodeOf(cache.tree, k) \in cache.tomb THEN pools.swa[p] = 0
                 ELSE pools.swa[p] # 0 /\ wkv[pools.swa[p]] = <<NoImage, k>>

\* The nodes whose window KV the lock of r pins.
PinnedBy(r) ==
    {e \in LivePath(cache, r.handle) :
        r.uuid # 0 => \A f \in Path(cache.tree, r.handle) :
                         cache.uuid[f] = r.uuid => IsPrefix(f, e)}

\* Both reference counts of every node are those of the locks held, though nodes are
\* split under a lock and a release walks up to a mark; the four counters are the
\* sizes they stand for; and a request's node is in the tree.
LocksExact ==
    LET tree == cache.tree
        live == Nodes(tree) \ cache.tomb
        unlocked == {e \in Nodes(tree) : tree.refs[e] = 0}
        unpinned == {e \in live : cache.sref[e] = 0}
    IN  /\ \A u \in Active : req[u].handle \in Nodes(tree) \cup {<<>>}
        /\ \A e \in Nodes(tree) :
              /\ tree.refs[e] = Cardinality({u \in Active : IsPrefix(e, req[u].handle)})
              /\ cache.sref[e] = Cardinality({u \in Active : e \in PinnedBy(req[u])})
        /\ tree.evictable = Size(tree, unlocked)
        /\ tree.protected = Size(tree, Nodes(tree) \ unlocked)
        /\ cache.evictable = Size(tree, unpinned)
        /\ cache.protected = Size(tree, live \ unpinned)

=============================================================================
