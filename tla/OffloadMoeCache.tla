--------------------------- MODULE OffloadMoeCache ---------------------------
(***************************************************************************)
(* The expert cache of moe/offload_cache.py as layers/moe.py drives it.    *)
(* The weights of the experts stay in host memory; a pool of GPU slots     *)
(* caches them.  A decode loads the experts it routes to into the slots of *)
(* the least recently used; a prefill streams whole layers through two     *)
(* buffers which borrow the first 2 * NumExperts slots, one layer ahead of *)
(* the layer that computes.                                                *)
(*                                                                         *)
(* The host only enqueues.  The GPU runs two streams, each in order; what  *)
(* orders them against each other is events alone.  A task that waits for  *)
(* an event carries the number of its records that were enqueued and not   *)
(* yet run when the wait was (the last record then made is what a wait is  *)
(* for; an event never recorded is not waited for).                        *)
(*                                                                         *)
(* A copy or a GEMM is one step: what may overlap in time may here happen  *)
(* in either order.                                                        *)
(***************************************************************************)
EXTENDS Integers, Sequences, FiniteSets, FiniteSetsExt

CONSTANTS
    NumLayers, NumExperts,  \* MoE layers, experts of one layer
    Variants,       \* [movement, unpinned, cpu, short, sizes]: how prefill moves the
                    \* experts, the layers whose banks are not pinned, those that decode on
                    \* the CPU, whether short chunks load on demand, and the sizes (in slots)
                    \* the engine may give the pool
    TopK,           \* experts a decode step routes to in one layer, at most
    FetchCap        \* hybrid_max_fetch; at least TopK without a CPU partner

Layer == 0..(NumLayers - 1)
Expert == 0..(NumExperts - 1)
Buffer == {0, 1}
None == -1

ASSUME GeometryAssumption ==
    /\ NumLayers \in Nat \ {0} /\ NumExperts \in Nat \ {0} /\ TopK \in 1..NumExperts
    /\ FetchCap \in Nat

\* "whole": no overlap; "full": whole layers, overlapped; "split": resident rows
\* are copied on the device (hit-D2D); "sparse": only the routed rows.
Movement == {"whole", "full", "split", "sparse"}

ASSUME VariantsAssumption ==
    \A v \in Variants :
        /\ v.movement \in Movement /\ v.short \in BOOLEAN
        /\ v.unpinned \subseteq v.cpu /\ v.cpu \subseteq Layer  \* set_bank_sources
        /\ \A n \in v.sizes : n \in Nat /\ n >= NumExperts  \* validate_rebuild

VARIABLES
    variant,    \* the deployment, one of Variants
    size,       \* cache_size
    overlap,    \* prefill_overlap
    pass,       \* the forward pass the host is enqueueing
    cache,      \* the host's side: the two buffers' bookkeeping and the streams
    slotFor,    \* slot_for_id
    idOf,       \* id_of_slot
    bytes,      \* whose weights the slots hold
    route,      \* the slots the last load rewrote its routes to
    snap        \* _prefill_slot_snapshot

vars == <<variant, size, overlap, pass, cache, slotFor, idOf, bytes, route, snap>>
device == <<slotFor, idOf, bytes, route, snap>>

Slot == 0..(size - 1)
BufferOf(l) == l % 2
Base(b) == b * NumExperts
NoId == <<None, None>>

Nothing == <<"nothing", 0>>
Begin == <<"begin", 0>>
Ready(b) == <<"ready", b>>
Release(b) == <<"release", b>>

NewCache ==
    [holds |-> [b \in Buffer |-> None], released |-> [b \in Buffer |-> TRUE],
     failed |-> FALSE, stream |-> [s \in {"compute", "copy"} |-> <<>>]]

Idle == [kind |-> "idle", layer |-> 0, begun |-> FALSE]

\* An empty pool; prefill overlap needs both buffers.
EmptyMap == [l \in Layer |-> [e \in Expert |-> None]]

Init ==
    /\ variant \in Variants /\ size \in variant.sizes
    /\ overlap = (variant.movement # "whole")
    /\ overlap => size >= 2 * NumExperts
    /\ pass = Idle /\ cache = NewCache
    /\ slotFor = EmptyMap /\ snap = EmptyMap
    /\ idOf = [s \in Slot |-> NoId] /\ bytes = [s \in Slot |-> NoId]
    /\ route = [e \in {} |-> None]

-----------------------------------------------------------------------------
(***************************************************************************)
(* Enqueueing.                                                             *)
(***************************************************************************)
Task(do, l) ==
    [do |-> do, layer |-> l, rows |-> Expert, base |-> 0,
     awaits |-> Nothing, ahead |-> 0, records |-> Nothing]

Other(s) == IF s = "copy" THEN "compute" ELSE "copy"

\* Records of event e in a stream that did not run yet.
Pending(tasks, e) ==
    IF e = Nothing THEN 0 ELSE Cardinality({i \in DOMAIN tasks : tasks[i].records = e})

Send(c, s, task) ==
    [c EXCEPT !.stream[s] =
        Append(@, [task EXCEPT !.ahead = Pending(c.stream[Other(s)], task.awaits)])]

Pinned(l) == l \notin variant.unpinned
Splits == variant.movement = "split" /\ size > 2 * NumExperts

\* Mutation: the copy stream is not fenced behind the compute stream.
Begun_Unfenced(c) ==
    LET c1 == [c EXCEPT !.holds = NewCache.holds, !.released = NewCache.released]
    IN  IF Splits THEN Send(c1, "copy", Task("snapshot", 0)) ELSE c1

\* begin_prefill: the copy stream runs behind everything enqueued so far.
Begun(c) ==
    LET c1 == [c EXCEPT !.holds = NewCache.holds, !.released = NewCache.released]
        c2 == Send(c1, "compute", [Task("mark", 0) EXCEPT !.records = Begin])
        c3 == Send(c2, "copy", [Task("mark", 0) EXCEPT !.awaits = Begin])
    IN  IF Splits THEN Send(c3, "copy", Task("snapshot", 0)) ELSE c3

\* What prefetch_prefill_layer enqueues to bring the rows of layer l into its
\* buffer, once the layer before it has let it go.
Filled(c, l, rows) ==
    LET split == Splits /\ Pinned(l)
        c1 == IF split THEN Send(c, "compute", [Task("gather", l) EXCEPT !.base = Base(BufferOf(l))])
              ELSE c
    IN  Send(c1, "copy",
             [Task(IF split THEN "misses" ELSE "fill", l) EXCEPT
                 !.rows = rows, !.base = Base(BufferOf(l)),
                 !.awaits = Release(BufferOf(l)), !.records = Ready(BufferOf(l))])

(***************************************************************************)
(* prefetch_prefill_layer: nothing to do past the last layer or for the    *)
(* layer the buffer holds; it asserts that the one it held was released.   *)
(***************************************************************************)
Prefetch(c, l, rows) ==
    LET b == BufferOf(l)
    IN  IF c.failed \/ l >= NumLayers \/ c.holds[b] = l THEN c
        ELSE IF c.holds[b] # None /\ ~c.released[b] THEN [c EXCEPT !.failed = TRUE]
        ELSE [Filled(c, l, rows) EXCEPT !.holds[b] = l, !.released[b] = FALSE]

\* Mutation: the release is left to the next prefill.
Computed_Kept(c, l, rows) ==
    LET b == BufferOf(l)
    IN  IF c.failed THEN c
        ELSE Send(c, "compute", [Task("dense", l) EXCEPT
                        !.rows = rows, !.base = Base(b),
                        !.awaits = Ready(b), !.records = Release(b)])

\* wait_prefill_layer, the GEMMs and release_prefill_layer.
Computed(c, l, rows) ==
    LET b == BufferOf(l)
    IN  IF c.failed THEN c
        ELSE [Send(c, "compute", [Task("dense", l) EXCEPT
                        !.rows = rows, !.base = Base(b),
                        !.awaits = Ready(b), !.records = Release(b)])
              EXCEPT !.released[b] = TRUE]

\* _prefill_routed with overlap: the next layer is prefetched before this one
\* computes, or after, when a bank may need the pinned bounce.
Streamed(c, l, rows) ==
    LET eager == variant.unpinned = {} /\ variant.movement # "sparse"
        late == variant.unpinned # {} /\ variant.movement # "sparse"
        c1 == Prefetch(c, l, rows)
        c2 == IF eager THEN Prefetch(c1, l + 1, Expert) ELSE c1
        c3 == Computed(c2, l, rows)
    IN  IF late THEN Prefetch(c3, l + 1, Expert) ELSE c3

\* materialize_layer, copy_missing and the GEMMs over the first slots.
Materialized(c, l) == Send(Send(c, "compute", Task("materialize", l)), "compute", Task("dense", l))

\* ensure_experts, copy_missing and the GEMMs over the slots of the routes.
OnDemand(c, l) == Send(Send(c, "compute", Task("load", l)), "compute", Task("gemm", l))

-----------------------------------------------------------------------------
(***************************************************************************)
(* The host: a forward pass, layer by layer.  With overlap scheduling one  *)
(* pass may be enqueued while the one before it runs.                      *)
(***************************************************************************)
Running(c) == Cardinality({i \in DOMAIN c.stream["compute"] : c.stream["compute"][i].do = "done"})

Launch ==
    /\ pass.kind = "idle" /\ ~cache.failed /\ Running(cache) <= 1
    /\ \E kind \in {"decode", "prefill"} \cup (IF variant.short THEN {"short"} ELSE {}) :
          pass' = [Idle EXCEPT !.kind = kind]
    /\ UNCHANGED <<variant, size, overlap, cache, device>>

\* This layer is prefilled whole, by _prefill_routed of OffloadMoELayer.
Streams ==
    /\ pass.layer < NumLayers /\ ~cache.failed
    /\ \/ pass.kind = "prefill"
       \/ pass.kind = "short" /\ ~Pinned(pass.layer)

NextLayer(c) ==
    /\ cache' = c
    /\ pass' = [pass EXCEPT !.layer = @ + 1]
    /\ UNCHANGED <<variant, size, overlap, device>>

BeginPrefill ==
    /\ Streams /\ overlap /\ pass.layer = 0 /\ ~pass.begun
    /\ cache' = Begun(cache) /\ pass' = [pass EXCEPT !.begun = TRUE]
    /\ UNCHANGED <<variant, size, overlap, device>>

\* The host waits for the snapshot, and in sparse mode for its routes.
StreamLayer ==
    /\ Streams /\ overlap /\ (pass.layer = 0 => pass.begun)
    /\ Splits /\ pass.layer = 0 => cache.stream["copy"] = <<>>
    /\ variant.movement = "sparse" => cache.stream["compute"] = <<>>
    /\ \E rows \in IF variant.movement = "sparse" THEN SUBSET Expert \ {{}} ELSE {Expert} :
          NextLayer(Streamed(cache, pass.layer, rows))

WholeLayer == Streams /\ ~overlap /\ NextLayer(Materialized(cache, pass.layer))

\* _decode_routed, or the short chunks of DSV4OffloadMoELayer.
LoadLayer ==
    /\ pass.layer < NumLayers
    /\ \/ pass.kind = "decode" /\ pass.layer \notin variant.cpu
       \/ pass.kind = "short" /\ Pinned(pass.layer)
    /\ NextLayer(OnDemand(cache, pass.layer))

\* The other layers decode on the CPU.
CpuLayer ==
    /\ pass.layer < NumLayers /\ pass.kind = "decode" /\ pass.layer \in variant.cpu
    /\ NextLayer(cache)

Finish ==
    /\ pass.kind # "idle" /\ pass.layer = NumLayers /\ ~cache.failed
    /\ pass' = Idle /\ cache' = Send(cache, "compute", Task("done", 0))
    /\ UNCHANGED <<variant, size, overlap, device>>

\* rebuild(n), with nothing running; too small a pool ends the overlap for good.
Rebuild ==
    /\ pass.kind = "idle" /\ ~cache.failed
    /\ cache.stream = NewCache.stream
    /\ \E n \in variant.sizes :
          /\ variant.movement = "sparse" => n >= 2 * NumExperts
          /\ size' = n
          /\ overlap' = (overlap /\ n >= 2 * NumExperts)
          /\ idOf' = [s \in 0..(n - 1) |-> NoId] /\ bytes' = [s \in 0..(n - 1) |-> NoId]
    /\ slotFor' = EmptyMap
    /\ cache' = NewCache
    /\ UNCHANGED <<variant, pass, route, snap>>

-----------------------------------------------------------------------------
(***************************************************************************)
(* The device.                                                             *)
(***************************************************************************)
Runnable(s) == cache.stream[s] # <<>> /\ Head(cache.stream[s]).ahead = 0

\* The streams after the head of s has run and recorded its event.
Ran(s) ==
    LET done == Head(cache.stream[s]).records
        Seen(task) == IF task.awaits = done /\ task.ahead > 0 THEN [task EXCEPT !.ahead = @ - 1] ELSE task
        rest == cache.stream[Other(s)]
    IN  [cache EXCEPT !.stream = [q \in {s, Other(s)} |->
            IF q = s THEN Tail(cache.stream[s]) ELSE [i \in DOMAIN rest |-> Seen(rest[i])]]]

\* Run the head of stream s, a task of one of these kinds.
Runs(s, kinds) ==
    /\ Runnable(s) /\ Head(cache.stream[s]).do \in kinds
    /\ cache' = Ran(s)
    /\ UNCHANGED <<variant, size, overlap, pass>>

\* The maps once the slots of S are taken from whoever had them and the slots of
\* place (row |-> slot) given to the rows of layer l.
Remapped(l, S, place) ==
    [k \in Layer |-> [e \in Expert |->
        IF k = l /\ e \in DOMAIN place THEN place[e]
        ELSE IF slotFor[k][e] \in S THEN None ELSE slotFor[k][e]]]

Renamed(l, S, place) ==
    [s \in Slot |-> IF \E e \in DOMAIN place : place[e] = s
                    THEN <<l, CHOOSE e \in DOMAIN place : place[e] = s>>
                    ELSE IF s \in S THEN NoId ELSE idOf[s]]

Written(l, place) ==
    [s \in Slot |-> IF \E e \in DOMAIN place : place[e] = s
                    THEN <<l, CHOOSE e \in DOMAIN place : place[e] = s>> ELSE bytes[s]]

\* Slots taken for n rows: the unused ones, lowest first, then any the step does
\* not use (it has just touched its own, so the least recently used is another).
Victims(n, used) ==
    LET empty == {s \in Slot : idOf[s] = NoId}
        lowest == {s \in empty : Cardinality({t \in empty : t < s}) < n}
    IN  {lowest \cup more : more \in kSubset(n - Cardinality(lowest), Slot \ (empty \cup used))}

(***************************************************************************)
(* ensure_experts (or its hybrid form, which fetches no more than FetchCap *)
(* of the missing) and copy_missing.                                       *)
(***************************************************************************)
Load ==
    LET l == Head(cache.stream["compute"]).layer
    IN  /\ Runs("compute", {"load"})
        /\ \E n \in 1..TopK : \E rows \in kSubset(n, Expert) :
              LET hits == {e \in rows : slotFor[l][e] # None}
                  missing == rows \ hits
                  num == Min({FetchCap, Cardinality(missing)})
              IN  \E fetched \in kSubset(num, missing),
                     S \in Victims(num, {slotFor[l][e] : e \in hits}) :
                     \E place \in [fetched -> S] :
                        /\ \A s \in S : \E e \in fetched : place[e] = s
                        /\ slotFor' = Remapped(l, S, place)
                        /\ idOf' = Renamed(l, S, place)
                        /\ bytes' = Written(l, place)
                        /\ route' = [e \in hits \cup fetched |->
                                        IF e \in fetched THEN place[e] ELSE slotFor[l][e]]
        /\ UNCHANGED snap

\* The materialize kernel and copy_missing: the layer's experts in the first slots.
Materialize ==
    LET l == Head(cache.stream["compute"]).layer
        place == [e \in Expert |-> e]
        S == Expert \cup {s \in Slot : idOf[s][1] = l}
    IN  /\ Runs("compute", {"materialize"})
        /\ slotFor' = Remapped(l, S, place)
        /\ idOf' = Renamed(l, S, place)
        /\ bytes' = Written(l, place)
        /\ UNCHANGED <<route, snap>>

\* Rows of layer l the split takes from the pool: those above the buffers.
Resident(map, l) == {e \in Expert : map[l][e] >= 2 * NumExperts}

\* prefill_hit_compact and the gather: reads the live map.
Gather ==
    LET task == Head(cache.stream["compute"])
    IN  /\ Runs("compute", {"gather"})
        /\ bytes' = [s \in Slot |->
                        IF s - task.base \in Resident(slotFor, task.layer)
                        THEN bytes[slotFor[task.layer][s - task.base]] ELSE bytes[s]]
        /\ UNCHANGED <<slotFor, idOf, route, snap>>

\* Mutation: the ids that had the slots still name them.
Disowned_Not(S) == slotFor' = slotFor /\ idOf' = [s \in Slot |-> IF s \in S THEN NoId ELSE idOf[s]]

\* _invalidate_prefill_buffer
Disowned(S) ==
    /\ slotFor' = Remapped(None, S, [e \in {} |-> None])
    /\ idOf' = [s \in Slot |-> IF s \in S THEN NoId ELSE idOf[s]]

\* The copy of a layer into its buffer: all the rows asked for, or the misses of
\* the split, by the snapshot.
Fill ==
    LET task == Head(cache.stream["copy"])
        S == {task.base + e : e \in Expert}
        rows == IF task.do = "misses" THEN Expert \ Resident(snap, task.layer) ELSE task.rows
    IN  /\ Runs("copy", {"fill", "misses"})
        /\ Disowned(S)
        /\ bytes' = Written(task.layer, [e \in rows |-> task.base + e])
        /\ UNCHANGED <<route, snap>>

Snapshot ==
    /\ Runs("copy", {"snapshot"})
    /\ snap' = slotFor
    /\ UNCHANGED <<slotFor, idOf, bytes, route>>

\* A task that changes no weights: the GEMMs, the events.
Compute == Runs("compute", {"dense", "gemm", "mark", "done"}) /\ UNCHANGED device
Fence == Runs("copy", {"mark"}) /\ UNCHANGED device

Next ==
    \/ Launch \/ BeginPrefill \/ StreamLayer \/ WholeLayer \/ LoadLayer \/ CpuLayer
    \/ Finish \/ Rebuild
    \/ Load \/ Materialize \/ Gather \/ Fill \/ Snapshot \/ Compute \/ Fence

Spec == Init /\ [][Next]_vars

-----------------------------------------------------------------------------
(***************************************************************************)
(* Properties.                                                             *)
(***************************************************************************)
\* No GEMM ever reads another expert's weights: when its turn comes, every row
\* it reads holds its own layer's expert, whatever the copy stream does at the
\* same time.  (begin_prefill's comment: without the fence the first prefetch
\* would stomp bytes a running GEMM is reading; the ready and release events.)
RightWeights ==
    LET task == Head(cache.stream["compute"])
    IN  Runnable("compute") =>
          /\ task.do = "dense" => \A e \in task.rows : bytes[task.base + e] = <<task.layer, e>>
          /\ task.do = "gemm" => \A e \in DOMAIN route : bytes[route[e]] = <<task.layer, e>>

\* The two maps are inverse, whichever stream updated them last, and a slot that
\* is named for an expert holds its weights; a slot the buffers borrow may be
\* written ahead of the copy stream's disowning it (the gather of the split), but
\* is put right before the copy stream is done.
MapExact ==
    /\ \A l \in Layer, e \in Expert : slotFor[l][e] # None => idOf[slotFor[l][e]] = <<l, e>>
    /\ \A s \in Slot : idOf[s] # NoId =>
          /\ slotFor[idOf[s][1]][idOf[s][2]] = s
          /\ s >= 2 * NumExperts \/ cache.stream["copy"] = <<>> => bytes[s] = idOf[s]

\* The assertion of prefetch_prefill_layer never fails ("Prefill overlap buffer
\* is being reused before release"), in whatever order passes of different kinds
\* follow each other.
BufferReleased == ~cache.failed

=============================================================================
