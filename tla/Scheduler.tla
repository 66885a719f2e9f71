----------------------------- MODULE Scheduler -----------------------------
(***************************************************************************)
(* The continuous-batching scheduler of freetoken: one thread that loops   *)
(* over receive, admit, allocate, launch, drain and flush                  *)
(* (scheduler/scheduler.py, prefill.py, decode.py, table.py, io.py), with  *)
(* the naive prefix cache (kvcache/naive_cache.py), under which pages are  *)
(* never shared and every page belongs to one request or to the free list. *)
(*                                                                         *)
(* With Overlap the batch launched by one iteration is drained by the next *)
(* (overlap_loop); without it, by the same one (normal_loop).  A request's *)
(* device-side lengths therefore run ahead of its host-side token buffer,  *)
(* and messages are processed while a forward is in flight.                *)
(*                                                                         *)
(* The loop is one thread, so its steps only interleave with the arrival   *)
(* of messages.  UserMsg and AbortBackendMsg of one uid may come through   *)
(* different tokenizer processes, so they are received in any order.  The  *)
(* batch is treated one request at a time where the code has a for loop.   *)
(***************************************************************************)
EXTENDS Integers, Sequences, FiniteSets, FiniteSetsExt, SequencesExt

CONSTANTS
    Uid,              \* request identifiers
    Shapes,           \* what a UserMsg asks for: [input: tokens, output: max_tokens]
    NumPages,         \* KV pages at start (engine.num_pages)
    PageSize,         \* tokens per page (config.page_size)
    MaxRunningReq,    \* rows of the page table (config.max_running_req)
    PrefillBudget,    \* tokens a prefill batch may hold (prefill_budget)
    MaxSeqLen,        \* configured context limit (config.max_seq_len)
    Overlap,          \* overlap_loop or normal_loop (DISABLE_OVERLAP_SCHEDULING)
    MaxAborts,        \* bound: abort messages received per uid
    MaxRebuilds,      \* bound: rebuild messages received
    RebuildPages,     \* page counts a rebuild may ask for
    RebuildOutcomes   \* how a rebuild may end: subset of Outcomes

Outcomes == {"ok", "rejected", "failed"}

(***************************************************************************)
(* max_tokens is at least 1 (api_server.py:829, generation.py:182); an     *)
(* empty prompt never reaches the scheduler.  The tombstone dictionary     *)
(* evicts its oldest entry beyond 65,536 (scheduler.py:681): with no more  *)
(* uids than that it never does, and a set stands for it.                  *)
(***************************************************************************)
ASSUME ShapesAssumption ==
    Shapes \subseteq [input: Nat \ {0}, output: Nat \ {0}]

ASSUME SizesAssumption ==
    /\ NumPages \in Nat \ {0}
    /\ PageSize \in Nat \ {0}
    /\ MaxRunningReq \in Nat \ {0}
    /\ PrefillBudget \in Nat \ {0}
    /\ MaxSeqLen \in Nat \ {0}
    /\ MaxAborts \in Nat
    /\ MaxRebuilds \in Nat
    /\ RebuildPages \subseteq Nat \ {0}

ASSUME ModesAssumption ==
    /\ Overlap \in BOOLEAN
    /\ RebuildOutcomes \subseteq Outcomes

ASSUME UidAssumption == IsFiniteSet(Uid) /\ Cardinality(Uid) <= 65536

VARIABLES
    pc,           \* where the loop is
    \* ---- requests waiting (PrefillManager) and running (DecodeManager)
    pending,      \* pending_list, as uids
    chunked,      \* uids whose PendingReq.chunked_req is set
    running,      \* running_reqs
    \* ---- the Req of each uid
    inputLen, outputLen,            \* prompt length, max_tokens
    cachedLen, deviceLen, hostLen,  \* cached_len, device_len, len(input_ids)
    aborted,      \* uids whose Req.aborted is set
    seated,       \* uids whose Req.table_idx is a slot (not -1)
    rowPages,     \* pages written to the request's page-table row
    \* ---- pools
    freeSlots, freePages, numPages,
    \* ---- the pass being built and the batches
    tokenBudget, reservedSize, chunkedList, prompts, unallocated,
    batch,        \* the batch of this iteration (ongoing_data)
    lastData,     \* launched, not yet drained (_last_data)
    todo,         \* requests of the drained batch still to process
    finished, newFinished,          \* finished_reqs, new_finished_reqs
    \* ---- messages
    received,     \* uids whose UserMsg was received
    abortsSeen,   \* abort messages received, per uid
    tombstones,   \* _abort_tombstones
    acks,         \* _pending_abort_acks
    admits, tokens, ended,          \* what was published for each uid
    \* ---- runtime cache rebuild
    rebuild,      \* _pending_rebuild: 0 or the requested page count
    rebuildsSeen, rebuildsAnswered,
    engineUp      \* FALSE once a rebuild and its rollback both failed

queueVars == <<pending, chunked, running>>
lenVars == <<inputLen, outputLen, cachedLen, deviceLen, hostLen>>
poolVars == <<seated, rowPages, freeSlots, freePages>>
passVars == <<tokenBudget, reservedSize, chunkedList, prompts, unallocated>>
batchVars == <<batch, lastData, todo, finished, newFinished>>
msgVars == <<received, abortsSeen, tombstones>>
replyVars == <<acks, admits, tokens, ended>>
rebuildVars == <<numPages, rebuild, rebuildsSeen, rebuildsAnswered, engineUp>>
vars == <<pc, queueVars, lenVars, aborted, poolVars, passVars, batchVars,
          msgVars, replyVars, rebuildVars>>

NoBatch == [reqs |-> {}, chunks |-> {}]

Init ==
    /\ pc = "idle"
    /\ pending = <<>> /\ chunked = {} /\ running = {}
    /\ inputLen = [u \in Uid |-> 0] /\ outputLen = [u \in Uid |-> 0]
    /\ cachedLen = [u \in Uid |-> 0] /\ deviceLen = [u \in Uid |-> 0]
    /\ hostLen = [u \in Uid |-> 0]
    /\ aborted = {} /\ seated = {} /\ rowPages = [u \in Uid |-> 0]
    /\ freeSlots = MaxRunningReq /\ freePages = NumPages /\ numPages = NumPages
    /\ tokenBudget = 0 /\ reservedSize = 0 /\ chunkedList = <<>>
    /\ prompts = {} /\ unallocated = {}
    /\ batch = NoBatch /\ lastData = NoBatch /\ todo = {}
    /\ finished = {} /\ newFinished = {}
    /\ received = {} /\ abortsSeen = [u \in Uid |-> 0]
    /\ tombstones = {} /\ acks = {}
    /\ admits = [u \in Uid |-> 0] /\ tokens = [u \in Uid |-> 0]
    /\ ended = [u \in Uid |-> {}]
    /\ rebuild = 0 /\ rebuildsSeen = 0 /\ rebuildsAnswered = 0
    /\ engineUp = TRUE

-----------------------------------------------------------------------------
(***************************************************************************)
(* Quantities the code computes.                                           *)
(***************************************************************************)

\* div_ceil(n, page_size)
Pages(n) == (n + PageSize - 1) \div PageSize

\* engine.max_seq_len = min(config.max_seq_len, num_pages * page_size)
SeqLimit == Min({MaxSeqLen, numPages * PageSize})

\* CacheManager.available_size; a naive cache has nothing to evict.
AvailableSize == freePages * PageSize

MaxDeviceLen(u) == inputLen[u] + outputLen[u]

\* Mutation: a pass starts with nothing reserved.
InflightTokens_Zero == 0

\* DecodeManager.inflight_tokens: what the running requests may still need,
\* a partly filled page each included.
InflightTokens ==
    MapThenSumSet(LAMBDA u : MaxDeviceLen(u) - deviceLen[u] + PageSize - 1, running)

\* PrefillManager.runnable \/ DecodeManager.runnable
Runnable == pending # <<>> \/ running # {}

\* The batch this iteration drains: the previous one under overlap, its own
\* otherwise.
Draining == IF Overlap THEN lastData ELSE batch

\* Mutation: every aborted request is freed at once.
InFlight_Never(u) == FALSE

\* "req_to_free in self._last_data[0].batch.reqs": its forward is in flight.
InFlight(u) == u \in lastData.reqs

\* Mutation: the padding of the last page is forgotten.
PaddedTail_Floor(u) == cachedLen[u] \div PageSize

\* The pages a finishing request returns, [0, page_ceil(cached_len)).
PaddedTail(u) == Pages(cachedLen[u])

\* Mutation: table_idx is not reset to -1.
Free_KeepsIndex(u) ==
    IF u \in seated
    THEN /\ freeSlots' = freeSlots + 1
         /\ freePages' = freePages + PaddedTail(u)
         /\ rowPages' = [rowPages EXCEPT ![u] = 0]
         /\ UNCHANGED seated
    ELSE UNCHANGED poolVars

(***************************************************************************)
(* _free_req_resources: a freed request (table_idx = -1) is left alone.    *)
(***************************************************************************)
Free(u) ==
    IF u \in seated
    THEN /\ seated' = seated \ {u}
         /\ freeSlots' = freeSlots + 1
         /\ freePages' = freePages + PaddedTail(u)
         /\ rowPages' = [rowPages EXCEPT ![u] = 0]
    ELSE UNCHANGED poolVars

-----------------------------------------------------------------------------
(***************************************************************************)
(* Receiving: overlap_loop takes what has arrived and processes it.  In    *)
(* "idle" the loop blocks for a first message (run_when_idle), in "poll"   *)
(* it may stop receiving at any time.                                      *)
(***************************************************************************)
Listening == pc \in {"idle", "poll"}

\* Mutation: no tombstone is consulted.
Tombstoned_Never(u) == FALSE

\* "msg.uid in tombstones": the abort of this request came first.
Tombstoned(u) == u \in tombstones

\* A UserMsg whose abort was acknowledged already: consume the tombstone, drop.
DropUser(u) ==
    /\ Listening /\ u \notin received
    /\ Tombstoned(u)
    /\ pc' = "poll"
    /\ received' = received \cup {u}
    /\ tombstones' = tombstones \ {u}
    /\ UNCHANGED <<queueVars, lenVars, aborted, poolVars, passVars, batchVars,
                   abortsSeen, replyVars, rebuildVars>>

\* A UserMsg over the context limit, or with images the model cannot take.
RejectUser(u) ==
    /\ Listening /\ u \notin received
    /\ ~Tombstoned(u)
    /\ \E shape \in Shapes, unsupported \in BOOLEAN :
          unsupported \/ shape.input + shape.output > SeqLimit
    /\ pc' = "poll"
    /\ received' = received \cup {u}
    /\ ended' = [ended EXCEPT ![u] = @ \cup {"error"}]
    /\ UNCHANGED <<queueVars, lenVars, aborted, poolVars, passVars, batchVars,
                   abortsSeen, tombstones, acks, admits, tokens, rebuildVars>>

\* PrefillManager.add_one_req
AcceptUser(u) ==
    /\ Listening /\ u \notin received
    /\ ~Tombstoned(u)
    /\ \E shape \in Shapes :
          /\ shape.input + shape.output <= SeqLimit
          /\ inputLen' = [inputLen EXCEPT ![u] = shape.input]
          /\ outputLen' = [outputLen EXCEPT ![u] = shape.output]
    /\ pc' = "poll"
    /\ received' = received \cup {u}
    /\ pending' = Append(pending, u)
    /\ UNCHANGED <<chunked, running, cachedLen, deviceLen, hostLen, aborted,
                   poolVars, passVars, batchVars, abortsSeen, tombstones,
                   replyVars, rebuildVars>>

\* The Req an abort takes out of the managers: the chunk in progress of a
\* pending request, or a running request.
AbortTakes(u) == u \in chunked \cup running

(***************************************************************************)
(* An AbortBackendMsg: leave a tombstone, take the request out of its      *)
(* manager, and free it, or only mark it while its forward is in flight.   *)
(* The acknowledgement waits for the end of the iteration.                 *)
(***************************************************************************)
Abort(u) ==
    /\ Listening /\ abortsSeen[u] < MaxAborts
    /\ pc' = "poll"
    /\ abortsSeen' = [abortsSeen EXCEPT ![u] = @ + 1]
    /\ tombstones' = tombstones \cup {u}
    /\ pending' = RemoveFirst(pending, u)
    /\ chunked' = chunked \ {u}
    /\ running' = running \ {u}
    /\ IF AbortTakes(u) /\ InFlight(u)
       THEN aborted' = aborted \cup {u} /\ UNCHANGED poolVars
       ELSE IF AbortTakes(u)
       THEN Free(u) /\ UNCHANGED aborted
       ELSE UNCHANGED <<aborted, poolVars>>
    /\ acks' = acks \cup {u}
    /\ UNCHANGED <<lenVars, passVars, batchVars, received, admits, tokens, ended,
                   rebuildVars>>

(***************************************************************************)
(* A CacheRebuildBackendMsg is queued when nothing is pending or running,  *)
(* and answered "busy" (or "unsupported") otherwise.  The frontend has one *)
(* rebuild outstanding at a time (maintenance_state, api_server.py:519).   *)
(***************************************************************************)
ReceiveRebuild ==
    /\ Listening
    /\ rebuildsSeen < MaxRebuilds /\ rebuildsSeen = rebuildsAnswered
    /\ pc' = "poll"
    /\ rebuildsSeen' = rebuildsSeen + 1
    /\ \/ ~Runnable /\ rebuild' \in RebuildPages /\ UNCHANGED rebuildsAnswered
       \/ rebuildsAnswered' = rebuildsAnswered + 1 /\ UNCHANGED rebuild
    /\ UNCHANGED <<queueVars, lenVars, aborted, poolVars, passVars, batchVars,
                   msgVars, replyVars, numPages, engineUp>>

-----------------------------------------------------------------------------
(***************************************************************************)
(* Scheduling: a pass over pending_list (PrefillManager.schedule_next_batch *)
(* with a PrefillAdder), else every running request decodes.               *)
(***************************************************************************)

\* Mutation: finished_reqs gates a rebuild too.
RebuildReady_Finished == rebuild # 0 /\ lastData.reqs = {} /\ ~Runnable /\ finished = {}

\* Mutation: the batch in flight does not hold a rebuild back.
RebuildReady_Undrained == rebuild # 0 /\ ~Runnable

\* "fully idle (the safe point)": the condition of _execute_pending_rebuild
RebuildReady == rebuild # 0 /\ lastData.reqs = {} /\ ~Runnable

BeginPass ==
    /\ tokenBudget' = PrefillBudget
    /\ reservedSize' = InflightTokens
    /\ UNCHANGED <<chunkedList, prompts, unallocated>>

Schedule ==
    /\ pc = "poll" /\ ~RebuildReady
    /\ pc' = "admit"
    /\ BeginPass
    /\ UNCHANGED <<queueVars, lenVars, aborted, poolVars, batchVars, msgVars,
                   replyVars, rebuildVars>>

(***************************************************************************)
(* _execute_pending_rebuild, in the iteration that then schedules.  A      *)
(* rebuild that is applied re-creates both free lists; one that is refused *)
(* or rolled back leaves everything; one whose rollback fails too leaves   *)
(* an engine without pools.                                                *)
(***************************************************************************)
ExecuteRebuild ==
    /\ pc = "poll" /\ RebuildReady
    /\ pc' = "admit"
    /\ rebuild' = 0
    /\ rebuildsAnswered' = rebuildsAnswered + 1
    /\ \E outcome \in RebuildOutcomes :
          /\ engineUp' = (engineUp /\ outcome # "failed")
          /\ IF outcome = "ok"
             THEN /\ numPages' = rebuild
                  /\ freePages' = rebuild
                  /\ freeSlots' = MaxRunningReq
             ELSE UNCHANGED <<numPages, freePages, freeSlots>>
    /\ BeginPass
    /\ UNCHANGED <<queueVars, lenVars, aborted, seated, rowPages, batchVars,
                   msgVars, replyVars, rebuildsSeen>>

\* PrefillAdder.try_add_one: a continuation keeps its reservation; a new
\* request needs a table slot and room for its prompt and its whole output.
Fits(u) ==
    /\ tokenBudget > 0
    /\ \/ u \in chunked
       \/ /\ freeSlots > 0
          /\ MaxDeviceLen(u) + reservedSize <= AvailableSize

\* "if not is_continuation": the first chunk reports the prompt.
ReportsPrompt(u) == u \notin chunked

(***************************************************************************)
(* PrefillAdder._add_one_req for the head of pending_list: the next chunk  *)
(* of its prompt, as a ChunkedReq while more remains.                      *)
(***************************************************************************)
AdmitOne ==
    /\ pc = "admit" /\ pending # <<>>
    /\ LET u == Head(pending)
           start == IF u \in chunked THEN cachedLen[u] ELSE 0
           remain == inputLen[u] - start
           size == Min({tokenBudget, remain})
           partial == size < remain
       IN  /\ Fits(u)
           /\ cachedLen' = [cachedLen EXCEPT ![u] = start]
           /\ deviceLen' = [deviceLen EXCEPT ![u] = start + size]
           /\ hostLen' = [hostLen EXCEPT ![u] = start + size]
           /\ tokenBudget' = tokenBudget - size
           /\ reservedSize' = reservedSize + remain + outputLen[u]
           /\ chunked' = IF partial THEN chunked \cup {u} ELSE chunked \ {u}
           /\ chunkedList' = IF partial THEN Append(chunkedList, u) ELSE chunkedList
           /\ batch' = [reqs |-> batch.reqs \cup {u},
                        chunks |-> IF partial THEN batch.chunks \cup {u} ELSE batch.chunks]
           /\ unallocated' = unallocated \cup {u}
           /\ IF u \in chunked
              THEN UNCHANGED <<seated, freeSlots>>
              ELSE seated' = seated \cup {u} /\ freeSlots' = freeSlots - 1
           /\ prompts' = IF ReportsPrompt(u) THEN prompts \cup {u} ELSE prompts
    /\ pending' = Tail(pending)
    /\ UNCHANGED <<pc, running, inputLen, outputLen, aborted, rowPages, freePages,
                   lastData, todo, finished, newFinished, msgVars, replyVars,
                   rebuildVars>>

\* The first request that does not fit ends the pass.
PassOver == ~(pending # <<>> /\ Fits(Head(pending)))

\* Mutation: continuations are dropped.
Requeued_Not == pending

\* "chunked_list + self.pending_list[len(reqs):]"
Requeued == chunkedList \o pending

\* The pass put requests in the batch: the continuations go back to the front.
PrefillBatch ==
    /\ pc = "admit" /\ PassOver /\ batch.reqs # {}
    /\ pc' = "alloc"
    /\ pending' = Requeued
    /\ chunkedList' = <<>>
    /\ UNCHANGED <<chunked, running, lenVars, aborted, poolVars, tokenBudget,
                   reservedSize, prompts, unallocated, batchVars, msgVars, replyVars,
                   rebuildVars>>

\* No prefill: every running request decodes one token.
DecodeBatch ==
    /\ pc = "admit" /\ PassOver /\ batch.reqs = {}
    /\ pc' = "alloc"
    /\ batch' = [reqs |-> running, chunks |-> {}]
    /\ unallocated' = running
    /\ UNCHANGED <<queueVars, lenVars, aborted, poolVars, tokenBudget, reservedSize,
                   chunkedList, prompts, lastData, todo, finished, newFinished,
                   msgVars, replyVars, rebuildVars>>

\* The pages allocate_paged takes for u: from page_ceil(cached_len) up to
\* page_ceil(device_len).
NewPages(u) == Pages(deviceLen[u]) - Pages(cachedLen[u])

AllocatePages(u) ==
    /\ freePages' = freePages - NewPages(u)
    /\ rowPages' = [rowPages EXCEPT ![u] = @ + NewPages(u)]
    /\ unallocated' = unallocated \ {u}
    /\ UNCHANGED <<pc, queueVars, lenVars, aborted, seated, freeSlots, tokenBudget,
                   reservedSize, chunkedList, prompts, batchVars, msgVars, replyVars,
                   rebuildVars>>

\* "Eviction did not free enough space.": the loop dies.
AllocateShort ==
    /\ pc' = "dead"
    /\ UNCHANGED <<queueVars, lenVars, aborted, poolVars, passVars, batchVars,
                   msgVars, replyVars, rebuildVars>>

(***************************************************************************)
(* CacheManager.allocate_paged and _allocate, one request at a time.  The  *)
(* code takes the batch's pages in one slice and asserts that there are    *)
(* enough; the request at which they run out stands for that assertion.    *)
(***************************************************************************)
Allocate(u) ==
    /\ pc = "alloc" /\ u \in unallocated
    /\ IF NewPages(u) <= freePages THEN AllocatePages(u) ELSE AllocateShort

(***************************************************************************)
(* _report_prompt_admissions, then _forward: the engine advances every     *)
(* request's device lengths at launch (Req.complete_one), and filter_reqs  *)
(* keeps those with output left.  Then the drain begins.                   *)
(***************************************************************************)
CompleteOne ==
    /\ cachedLen' = [u \in Uid |-> IF u \in batch.reqs THEN deviceLen[u] ELSE cachedLen[u]]
    /\ deviceLen' = [u \in Uid |-> IF u \in batch.reqs THEN deviceLen[u] + 1 ELSE deviceLen[u]]

CanDecode(u) == u \notin batch.chunks /\ MaxDeviceLen(u) - deviceLen'[u] > 0

Launch ==
    /\ pc = "alloc" /\ unallocated = {}
    /\ engineUp \/ batch.reqs = {}
    /\ pc' = "drain"
    /\ admits' = [u \in Uid |-> IF u \in prompts THEN admits[u] + 1 ELSE admits[u]]
    /\ prompts' = {}
    /\ CompleteOne
    /\ running' = {u \in running \cup batch.reqs : CanDecode(u)}
    /\ todo' = Draining.reqs
    /\ UNCHANGED <<pending, chunked, inputLen, outputLen, hostLen, aborted, poolVars,
                   tokenBudget, reservedSize, chunkedList, unallocated, batch,
                   lastData, finished, newFinished, msgVars, acks, tokens, ended,
                   rebuildVars>>

\* A forward on pools a failed rebuild tore down raises.
LaunchFails ==
    /\ pc = "alloc" /\ unallocated = {}
    /\ ~engineUp /\ batch.reqs # {}
    /\ pc' = "dead"
    /\ UNCHANGED <<queueVars, lenVars, aborted, poolVars, passVars, batchVars,
                   msgVars, replyVars, rebuildVars>>

-----------------------------------------------------------------------------
(***************************************************************************)
(* Draining: _process_last_data, one request of the batch at a time.       *)
(***************************************************************************)

\* A ChunkedReq is never sampled; an abort while it was in flight frees it here.
DrainChunk(u) ==
    /\ pc = "drain" /\ u \in todo /\ u \in Draining.chunks
    /\ todo' = todo \ {u}
    /\ IF u \in aborted THEN Free(u) ELSE UNCHANGED poolVars
    /\ UNCHANGED <<pc, queueVars, lenVars, aborted, passVars, batch, lastData, finished,
                   newFinished, msgVars, replyVars, rebuildVars>>

\* Aborted while in flight: free now that it is drained, and publish nothing.
DrainAborted(u) ==
    /\ pc = "drain" /\ u \in todo /\ u \notin Draining.chunks
    /\ u \in aborted
    /\ todo' = todo \ {u}
    /\ running' = running \ {u}
    /\ Free(u)
    /\ newFinished' = newFinished \cup {u}
    /\ UNCHANGED <<pc, pending, chunked, lenVars, aborted, passVars, batch, lastData,
                   finished, msgVars, replyVars, rebuildVars>>

\* Mutation: finished_reqs is not consulted.
Ended_Never(u) == FALSE

\* "req in self.finished_reqs": the extra step of a request that ended already.
Ended(u) == u \in finished

DrainEnded(u) ==
    /\ pc = "drain" /\ u \in todo /\ u \notin Draining.chunks
    /\ u \notin aborted /\ Ended(u)
    /\ todo' = todo \ {u}
    /\ UNCHANGED <<pc, queueVars, lenVars, aborted, poolVars, passVars, batch, lastData,
                   finished, newFinished, msgVars, replyVars, rebuildVars>>

\* Mutation: the device length is read (not can_decode).
HitLength_Device(u) == deviceLen[u] >= MaxDeviceLen(u)

\* The token being published fills the output budget (hit_length), counted on
\* the host buffer, which advances only as results drain.
HitLength(u) == hostLen[u] + 1 >= MaxDeviceLen(u)

(***************************************************************************)
(* A sampled token: append it, publish it, and end the request on length,  *)
(* EOS or a stop string (stop).  With the naive cache the finished=False   *)
(* commit of a prefill moves no page.                                      *)
(***************************************************************************)
DrainToken(u) ==
    /\ pc = "drain" /\ u \in todo /\ u \notin Draining.chunks
    /\ u \notin aborted /\ ~Ended(u)
    /\ todo' = todo \ {u}
    /\ hostLen' = [hostLen EXCEPT ![u] = @ + 1]
    /\ tokens' = [tokens EXCEPT ![u] = @ + 1]
    /\ \E stop \in BOOLEAN :
          IF stop \/ HitLength(u)
          THEN /\ ended' = [ended EXCEPT ![u] = @ \cup {IF stop THEN "stop" ELSE "length"}]
               /\ running' = running \ {u}
               /\ newFinished' = newFinished \cup {u}
               /\ Free(u)
          ELSE UNCHANGED <<ended, running, newFinished, poolVars>>
    /\ UNCHANGED <<pc, pending, chunked, inputLen, outputLen, cachedLen, deviceLen,
                   aborted, passVars, batch, lastData, finished, msgVars, acks, admits,
                   rebuildVars>>

(***************************************************************************)
(* The end of an iteration: replace finished_reqs (only when there was a   *)
(* batch to drain), flush the abort acknowledgements, and go around again, *)
(* blocking when there is nothing to do.                                   *)
(***************************************************************************)
EndIteration ==
    /\ pc = "drain" /\ todo = {}
    /\ finished' = IF Draining.reqs = {} THEN finished ELSE newFinished
    /\ newFinished' = {}
    /\ ended' = [u \in Uid |-> IF u \in acks THEN ended[u] \cup {"aborted"} ELSE ended[u]]
    /\ acks' = {}
    /\ lastData' = IF Overlap THEN batch ELSE NoBatch
    /\ batch' = NoBatch
    /\ pc' = IF lastData'.reqs = {} /\ ~Runnable /\ rebuild = 0 THEN "idle" ELSE "poll"
    /\ UNCHANGED <<queueVars, lenVars, aborted, poolVars, passVars, todo, msgVars,
                   admits, tokens, rebuildVars>>

-----------------------------------------------------------------------------
Receive ==
    \/ \E u \in Uid : DropUser(u) \/ RejectUser(u) \/ AcceptUser(u) \/ Abort(u)
    \/ ReceiveRebuild

Loop ==
    \/ Schedule \/ ExecuteRebuild
    \/ AdmitOne \/ PrefillBatch \/ DecodeBatch
    \/ \E u \in Uid : Allocate(u)
    \/ Launch \/ LaunchFails
    \/ \E u \in Uid : DrainChunk(u) \/ DrainAborted(u) \/ DrainEnded(u) \/ DrainToken(u)
    \/ EndIteration

Next == Receive \/ Loop

Spec == Init /\ [][Next]_vars

\* run_forever: the thread keeps looping; nothing makes messages arrive.
FairSpec == Spec /\ WF_vars(Loop)

-----------------------------------------------------------------------------
(***************************************************************************)
(* Properties.                                                             *)
(***************************************************************************)
Batches == [reqs : SUBSET Uid, chunks : SUBSET Uid]
Terminals == {"error", "stop", "length", "aborted"}

\* Every variable has its type.  reservedSize is left out: it is a sum.
TypeOK ==
    /\ pc \in {"idle", "poll", "admit", "alloc", "drain", "dead"}
    /\ pending \in Seq(Uid) /\ chunkedList \in Seq(Uid)
    /\ chunked \in SUBSET Uid /\ running \in SUBSET Uid
    /\ inputLen \in [Uid -> Nat] /\ outputLen \in [Uid -> Nat]
    /\ cachedLen \in [Uid -> Nat] /\ deviceLen \in [Uid -> Nat] /\ hostLen \in [Uid -> Nat]
    /\ aborted \in SUBSET Uid /\ seated \in SUBSET Uid
    /\ rowPages \in [Uid -> Nat]
    /\ freeSlots \in Nat /\ freePages \in Nat /\ numPages \in Nat \ {0}
    /\ tokenBudget \in Nat
    /\ prompts \in SUBSET Uid /\ unallocated \in SUBSET Uid
    /\ batch \in Batches /\ lastData \in Batches
    /\ todo \in SUBSET Uid /\ finished \in SUBSET Uid /\ newFinished \in SUBSET Uid
    /\ received \in SUBSET Uid /\ abortsSeen \in [Uid -> Nat]
    /\ tombstones \in SUBSET Uid /\ acks \in SUBSET Uid
    /\ admits \in [Uid -> Nat] /\ tokens \in [Uid -> Nat]
    /\ ended \in [Uid -> SUBSET Terminals]
    /\ rebuild \in Nat /\ rebuildsSeen \in Nat /\ rebuildsAnswered \in Nat
    /\ engineUp \in BOOLEAN

\* No page is lost or freed twice, whatever ends a request and whenever
\* (_padded_tail frees what allocate_paged took, although the drain that frees
\* runs after the next launch advanced cached_len).
PageConservation == freePages + MapThenSumSet(LAMBDA u : rowPages[u], Uid) = numPages

\* No table slot is lost or freed twice (scheduler.py:746: a double free would
\* hand the same slot to two later requests).
SlotConservation == freeSlots + Cardinality(seated) = MaxRunningReq

\* A request that was admitted never finds the pool empty, neither in prefill
\* nor in any decode step (cache.py:638, "Eviction did not free enough space"):
\* the loop dies of nothing but a rebuild that failed together with its rollback.
AllocationCovered == pc = "dead" => ~engineUp

\* While messages are processed, a request of the in-flight batch keeps its
\* slot and pages unless its terminal reply was already drained
\* (scheduler.py:686: never free resources under an in-flight forward).
InFlightOwned ==
    pc \notin {"drain", "dead"} => lastData.reqs \subseteq seated \cup finished

\* A request publishes at most max_tokens tokens, exactly max_tokens when it
\* ends on length, although the device length runs ahead of the host's
\* (scheduler.py:388: reading can_decode would end one token early).
OutputExact ==
    \A u \in Uid :
        /\ tokens[u] <= outputLen[u]
        /\ "length" \in ended[u] => tokens[u] = outputLen[u]

\* The prompt is reported once, before the first token, however many chunks
\* and passes it took (_report_prompt_admissions).
AdmittedOnce ==
    \A u \in Uid : admits[u] <= 1 /\ (tokens[u] > 0 => admits[u] = 1)

\* Requests in mid-prompt stay ahead of all others: their reservation is
\* counted before anything new is admitted (prefill.py:329).
ContinuationsFirst ==
    \A i, j \in 1..Len(pending) :
        i < j /\ pending[j] \in chunked => pending[i] \in chunked

\* A rebuild runs when no request holds a slot or a page and nothing is in
\* flight (the assertions of rebuild_cache and its check_integrity).
RebuildWhenFree ==
    pc = "poll" /\ RebuildReady => seated = {} /\ freePages = numPages

\* After a request's terminal reply nothing more is published for it but the
\* acknowledgement of an abort that came too late (scheduler.py:377).
TerminalIsLast ==
    [][\A u \in Uid : ended[u] # {} =>
          /\ tokens'[u] = tokens[u] /\ admits'[u] = admits[u]
          /\ ended'[u] \subseteq ended[u] \cup {"aborted"}]_vars

\* The abort acknowledgement is the last thing a uid ever gets: no reply of the
\* batch in flight, no late UserMsg and no later pass comes after it
\* (scheduler.py:131, "a terminal accounting barrier", and 135).
AbortBarrier ==
    [][\A u \in Uid : "aborted" \in ended[u] =>
          /\ tokens'[u] = tokens[u] /\ admits'[u] = admits[u]
          /\ ended'[u] = ended[u]]_vars

\* Every request that was received gets a terminal reply, unless a rebuild and
\* its rollback have both failed (the loop then dies at its next forward).
EveryRequestEnds == \A u \in Uid : u \in received ~> ended[u] # {} \/ ~engineUp

\* Every rebuild request is answered, a queued one once the queue has drained;
\* the same exception.
RebuildAnswered ==
    rebuildsSeen > rebuildsAnswered ~> rebuildsSeen = rebuildsAnswered \/ ~engineUp

-----------------------------------------------------------------------------
(***************************************************************************)
(* The abstract specification.                                             *)
(***************************************************************************)
Stage ==
    [u \in Uid |-> IF u \in seated THEN "held"
                   ELSE IF u \in ToSet(pending) THEN "queued"
                   ELSE IF u \in received THEN "gone" ELSE "new"]

Life == INSTANCE RequestLife
            WITH stage <- Stage, limit <- outputLen,
                 Limits <- {shape.output : shape \in Shapes}

\* The scheduler keeps the promise of RequestLife, under overlap too: a token or
\* a terminal reply only ever comes from a request that holds its slot, the slot
\* goes back with the terminal reply, and an abort is acknowledged when nothing
\* is held (scheduler.py:131, 376, 686).
ImplementsLife == Life!Spec

=============================================================================
