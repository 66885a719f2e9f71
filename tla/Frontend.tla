------------------------------ MODULE Frontend ------------------------------
(***************************************************************************)
(* The HTTP server process of freetoken (server/api_server.py, stats.py,   *)
(* accounting.py, supervisor.py): the maintenance gate, the life of a      *)
(* request id, cache rebuilds with timeouts and late replies, the          *)
(* prepare-stop accounting barrier, and the supervisor thread that watches *)
(* the backend workers.                                                    *)
(*                                                                         *)
(* One event loop runs the handlers; a step ends where a handler awaits.   *)
(* The supervisor is a second thread: it changes gate and fatal between    *)
(* any two steps, and inside a handler where that makes a call between     *)
(* reading the gate and writing it (cache_rebuild, stage "checked").       *)
(* Tokenizer workers and scheduler are the other processes; the scheduler  *)
(* appears as the replies it gives to one request (see Scheduler).         *)
(***************************************************************************)
EXTENDS Integers, Sequences, FiniteSets, FiniteSetsExt

CONSTANTS
    Uid,          \* request ids (uid_counter), each used once
    MaxDeltas,    \* bound: counted replies of a request (its prompt and tokens)
    MaxRebuilds,  \* bound: rebuild requests
    MaxStops,     \* bound: attempts of prepare-stop
    Faults        \* sends that may fail: subset of {"submit", "abort", "rebuild"}

ASSUME BoundsAssumption == 
    /\ MaxDeltas \in Nat \ {0} /\ MaxRebuilds \in Nat /\ MaxStops \in Nat
ASSUME UidAssumption == IsFiniteSet(Uid)
ASSUME FaultsAssumption == Faults \subseteq {"submit", "abort", "rebuild"}

Rebuild == 1..MaxRebuilds
Unsealed == -1

VARIABLES
    gate,        \* maintenance_state
    fatal,       \* fatal_error is set
    mapped,      \* uids in ack_map and event_map
    woken,       \* uids whose event is set: replies wait in ack_map
    client,      \* the handler of each uid
    inflight, aborting, total,      \* StatsTracker: _inflight, _aborting, the totals
    abortTasks,  \* who started an abort_user(uid) that still sleeps
    stop,        \* where prepare_stop_accounting is
    stops,       \* attempts of it so far, up to MaxStops
    sealed,      \* _sealed_accounting: the total, or Unsealed
    stage,       \* the handler of each rebuild request
    futures,     \* rebuild_futures
    watch,       \* where the supervisor thread is
    exiting,     \* uvicorn was told to exit
    flagged,     \* _SHUTTING_DOWN; the event loop has ended
    \* ---- messages
    userMsgs, abortMsgs, rebuildMsgs,
    replies,     \* per uid, in order
    rebuildReplies,                 \* <<id, status>>
    \* ---- the backend
    backendUp,
    life, tombstones, published     \* per uid: admitted?, aborted early?, counted replies

statsVars == <<inflight, aborting, total>>
clientVars == <<mapped, woken, client>>
stopVars == <<abortTasks, stop, stops, sealed>>
rebuildVars == <<stage, futures>>
processVars == <<watch, exiting, flagged>>
msgVars == <<userMsgs, abortMsgs, rebuildMsgs, replies, rebuildReplies>>
backendVars == <<backendUp, life, tombstones, published>>
vars == <<gate, fatal, clientVars, statsVars, stopVars, rebuildVars, processVars,
          msgVars, backendVars>>

Init ==
    /\ gate = "loading" /\ fatal = FALSE
    /\ mapped = {} /\ woken = {} /\ client = [u \in Uid |-> "none"]
    /\ inflight = {} /\ aborting = {} /\ total = 0
    /\ abortTasks = [u \in Uid |-> {}] /\ stop = "none" /\ stops = 0
    /\ sealed = Unsealed
    /\ stage = [i \in Rebuild |-> "none"] /\ futures = {}
    /\ watch = "loading" /\ exiting = FALSE /\ flagged = FALSE
    /\ userMsgs = {} /\ abortMsgs = {} /\ rebuildMsgs = {}
    /\ replies = [u \in Uid |-> <<>>] /\ rebuildReplies = {}
    /\ backendUp = TRUE
    /\ life = [u \in Uid |-> "none"] /\ tombstones = {}
    /\ published = [u \in Uid |-> 0]

\* No handler is between reading the gate and writing it.
LoopFree == ~flagged /\ \A i \in Rebuild : stage[i] # "checked"

-----------------------------------------------------------------------------
(***************************************************************************)
(* A generation request.                                                   *)
(***************************************************************************)

\* new_user: the one check that counts; the adapters' own checks come before it.
NewUser(u) ==
    /\ LoopFree /\ client[u] = "none"
    /\ gate = "serving"
    /\ client' = [client EXCEPT ![u] = "submitting"]
    /\ mapped' = mapped \cup {u}
    /\ inflight' = inflight \cup {u} /\ aborting' = aborting \ {u}
    /\ UNCHANGED <<gate, fatal, woken, total, stopVars, rebuildVars, processVars,
                   msgVars, backendVars>>

\* send_one(TokenizeMsg)
Submit(u) ==
    /\ LoopFree /\ client[u] = "submitting"
    /\ client' = [client EXCEPT ![u] = "waiting"]
    /\ userMsgs' = userMsgs \cup {u}
    /\ UNCHANGED <<gate, fatal, mapped, woken, statsVars, stopVars, rebuildVars,
                   processVars, abortMsgs, rebuildMsgs, replies, rebuildReplies,
                   backendVars>>

\* It raises or is cancelled: the uid stays in flight and in the maps.
SubmitFails(u) ==
    /\ LoopFree /\ client[u] = "submitting" /\ "submit" \in Faults
    /\ client' = [client EXCEPT ![u] = "ended"]
    /\ UNCHANGED <<gate, fatal, mapped, woken, statsVars, stopVars, rebuildVars,
                   processVars, msgVars, backendVars>>

\* Mutation: only what a client still waits for is counted.
Observed_Mapped(u) == u \in mapped

\* "observation must happen first": every reply is counted.
Observed(u) == TRUE

(***************************************************************************)
(* listen: StatsTracker.observe, then hand the reply to a live request.    *)
(***************************************************************************)
Deliver(u) ==
    LET reply == Head(replies[u])
        finished == reply # "delta"
    IN  /\ LoopFree /\ replies[u] # <<>>
        /\ replies' = [replies EXCEPT ![u] = Tail(replies[u])]
        /\ total' = IF Observed(u) /\ reply # "error" THEN total + 1 ELSE total
        /\ inflight' = IF Observed(u) /\ finished THEN inflight \ {u} ELSE inflight
        /\ aborting' = IF Observed(u) /\ finished THEN aborting \ {u} ELSE aborting
        /\ woken' = woken \cup ({u} \cap mapped)
        /\ UNCHANGED <<gate, fatal, mapped, client, stopVars, rebuildVars, processVars,
                       userMsgs, abortMsgs, rebuildMsgs, rebuildReplies, backendVars>>

\* wait_for_ack takes what is there; it ends at the terminal reply, or on a queue
\* abort_user has dropped, and its finally drops both maps.
Wake(u) ==
    /\ LoopFree /\ client[u] = "waiting" /\ u \in woken
    /\ woken' = woken \ {u}
    /\ IF u \in mapped \cap inflight
       THEN UNCHANGED <<mapped, client>>
       ELSE mapped' = mapped \ {u} /\ client' = [client EXCEPT ![u] = "ended"]
    /\ UNCHANGED <<gate, fatal, statsVars, stopVars, rebuildVars, processVars,
                   msgVars, backendVars>>

\* stream_with_cancellation notices that the client left.
Disconnect(u) ==
    /\ LoopFree /\ client[u] = "waiting"
    /\ client' = [client EXCEPT ![u] = "ended"]
    /\ abortTasks' = [abortTasks EXCEPT ![u] = @ \cup {"client"}]
    /\ mapped' \in {mapped, mapped \ {u}}     \* wait_for_ack's finally may run later
    /\ woken' = woken \ {u}
    /\ UNCHANGED <<gate, fatal, statsVars, stop, stops, sealed, rebuildVars, processVars,
                   msgVars, backendVars>>

\* abort_user after its sleep; two aborts of a uid in the queue count as one.
AbortUser(u, who) ==
    /\ LoopFree /\ who \in abortTasks[u]
    /\ abortTasks' = [abortTasks EXCEPT ![u] = @ \ {who}]
    /\ mapped' = mapped \ {u}
    /\ aborting' = aborting \cup ({u} \cap inflight)
    /\ \/ abortMsgs' = abortMsgs \cup {u} /\ UNCHANGED stop
       \/ /\ "abort" \in Faults
          /\ stop' = IF who = "stop" /\ stop = "abort" THEN "none" ELSE stop
          /\ UNCHANGED abortMsgs
    /\ UNCHANGED <<gate, fatal, woken, client, inflight, total, stops, sealed, rebuildVars,
                   processVars, userMsgs, rebuildMsgs, replies, rebuildReplies,
                   backendVars>>

-----------------------------------------------------------------------------
(***************************************************************************)
(* prepare_stop_accounting, one at a time under its lock; once sealed it   *)
(* returns the same totals.                                                *)
(***************************************************************************)
StopBegins ==
    /\ LoopFree /\ stop = "none" /\ sealed = Unsealed
    /\ gate # "rebuilding"
    /\ stops < MaxStops /\ stops' = stops + 1
    /\ gate' = "stopping" /\ stop' = "drain"
    /\ UNCHANGED <<fatal, clientVars, statsVars, abortTasks, sealed, rebuildVars,
                   processVars, msgVars, backendVars>>

\* Mutation: the totals are sealed once the aborts are sent.
SealReady_Sent == stop \in {"drain", "barrier"} /\ inflight \subseteq aborting

\* _wait_for_idle saw no active request, before or after the aborts.
SealReady == stop \in {"drain", "barrier"} /\ inflight = {}

Seal ==
    /\ LoopFree /\ SealReady
    /\ sealed' = total /\ stop' = "none"
    /\ UNCHANGED <<gate, fatal, clientVars, statsVars, abortTasks, stops, rebuildVars,
                   processVars, msgVars, backendVars>>

DrainTimesOut ==
    /\ LoopFree /\ stop = "drain" /\ inflight # {}
    /\ abortTasks' = [u \in Uid |-> abortTasks[u] \cup
                                    (IF u \in inflight THEN {"stop"} ELSE {})]
    /\ stop' = "abort"
    /\ UNCHANGED <<gate, fatal, clientVars, statsVars, stops, sealed, rebuildVars, processVars,
                   msgVars, backendVars>>

AbortsSent ==
    /\ LoopFree /\ stop = "abort" /\ \A u \in Uid : "stop" \notin abortTasks[u]
    /\ stop' = "barrier"
    /\ UNCHANGED <<gate, fatal, clientVars, statsVars, abortTasks, stops, sealed, rebuildVars,
                   processVars, msgVars, backendVars>>

\* "A timeout never reopens admission"
BarrierTimesOut ==
    /\ LoopFree /\ stop = "barrier" /\ inflight # {}
    /\ stop' = "none"
    /\ UNCHANGED <<gate, fatal, clientVars, statsVars, abortTasks, stops, sealed, rebuildVars,
                   processVars, msgVars, backendVars>>

-----------------------------------------------------------------------------
(***************************************************************************)
(* POST /v1/cache/rebuild and dispatch_rebuild.                            *)
(***************************************************************************)

\* cache_rebuild's checks; a closed gate answers 409 or 503 and changes nothing.
RebuildChecked(i) ==
    /\ LoopFree /\ stage[i] = "none" /\ \A j \in 1..(i - 1) : stage[j] # "none"
    /\ gate = "serving"
    /\ stage' = [stage EXCEPT ![i] = "checked"]
    /\ UNCHANGED <<gate, fatal, clientVars, statsVars, stopVars, futures, processVars,
                   msgVars, backendVars>>

RebuildLatched(i) ==
    /\ ~flagged /\ stage[i] = "checked"
    /\ stage' = [stage EXCEPT ![i] = "sending"]
    /\ futures' = futures \cup {i}
    /\ gate' = "rebuilding"
    /\ UNCHANGED <<fatal, clientVars, statsVars, stopVars, processVars, msgVars,
                   backendVars>>

RebuildSent(i) ==
    /\ LoopFree /\ stage[i] = "sending"
    /\ stage' = [stage EXCEPT ![i] = "waiting"]
    /\ rebuildMsgs' = rebuildMsgs \cup {i}
    /\ UNCHANGED <<gate, fatal, clientVars, statsVars, stopVars, futures, processVars,
                   userMsgs, abortMsgs, replies, rebuildReplies, backendVars>>

\* "The enqueue failed": roll the gate back.
RebuildSendFails(i) ==
    /\ LoopFree /\ stage[i] = "sending" /\ "rebuild" \in Faults
    /\ stage' = [stage EXCEPT ![i] = "done"]
    /\ futures' = futures \ {i}
    /\ gate' = "serving"
    /\ UNCHANGED <<fatal, clientVars, statsVars, stopVars, processVars, msgVars,
                   backendVars>>

\* The future is resolved.
RebuildReturns(i) ==
    /\ LoopFree /\ stage[i] = "waiting" /\ i \notin futures
    /\ stage' = [stage EXCEPT ![i] = "done"]
    /\ UNCHANGED <<gate, fatal, clientVars, statsVars, stopVars, futures, processVars,
                   msgVars, backendVars>>

\* Mutation: a timeout opens the gate.
GateAfterTimeout_Open == "serving"

\* "Do NOT reopen the maintenance gate here"
GateAfterTimeout == gate

RebuildTimesOut(i) ==
    /\ LoopFree /\ stage[i] = "waiting" /\ i \in futures
    /\ stage' = [stage EXCEPT ![i] = "done"]
    /\ futures' = futures \ {i}
    /\ gate' = GateAfterTimeout
    /\ UNCHANGED <<fatal, clientVars, statsVars, stopVars, processVars, msgVars,
                   backendVars>>

\* Mutation: a reply nobody waits for is dropped.
GateAfterReply_Awaited(i, status) ==
    IF i \notin futures THEN gate
    ELSE IF fatal \/ status = "failed" THEN "failed" ELSE "serving"

\* A worker's death outranks the reply; a reply counts whether awaited or not.
GateAfterReply(i, status) == IF fatal \/ status = "failed" THEN "failed" ELSE "serving"

\* _resolve_rebuild; no call falls between its check of fatal and its assignment.
ResolveRebuild(i, status) ==
    /\ LoopFree /\ <<i, status>> \in rebuildReplies
    /\ rebuildReplies' = rebuildReplies \ {<<i, status>>}
    /\ futures' = futures \ {i}
    /\ gate' = GateAfterReply(i, status)
    /\ UNCHANGED <<fatal, clientVars, statsVars, stopVars, stage, processVars,
                   userMsgs, abortMsgs, rebuildMsgs, replies, backendVars>>

-----------------------------------------------------------------------------
(***************************************************************************)
(* The supervisor thread.                                                  *)
(***************************************************************************)

\* Mutation: readiness opens the gate whatever happened meanwhile.
ReadyOpens_Always == TRUE

\* "if maintenance_state == loading"
ReadyOpens == gate = "loading"

\* drain_ready returned: _on_ready, a check and an assignment with no call between.
BackendReady ==
    /\ watch = "loading" /\ backendUp
    /\ watch' = "watching"
    /\ gate' = IF ReadyOpens THEN "serving" ELSE gate
    /\ UNCHANGED <<fatal, clientVars, statsVars, stopVars, rebuildVars, exiting, flagged,
                   msgVars, backendVars>>

\* A dead worker is seen: quiet in an orderly stop, else _on_failure.
NoticeDeath ==
    /\ watch \in {"loading", "watching"} /\ ~backendUp
    /\ IF flagged
       THEN watch' = "done" /\ UNCHANGED <<gate, fatal>>
       ELSE watch' = "failing" /\ fatal' = TRUE /\ gate' = "failed"
    /\ UNCHANGED <<clientVars, statsVars, stopVars, rebuildVars, exiting, flagged,
                   msgVars, backendVars>>

\* fail_pending_rebuilds: _resolve_all, run on the event loop.
FailPendingRebuilds ==
    /\ LoopFree /\ watch = "failing"
    /\ watch' = "done"
    /\ futures' = {}
    /\ UNCHANGED <<gate, fatal, clientVars, statsVars, stopVars, stage, exiting, flagged,
                   msgVars, backendVars>>

-----------------------------------------------------------------------------
(***************************************************************************)
(* The end of the process.                                                 *)
(***************************************************************************)

\* SIGTERM or ^C reaches the process group, workers included.
StopSignal ==
    /\ ~exiting
    /\ exiting' = TRUE
    /\ UNCHANGED <<gate, fatal, clientVars, statsVars, stopVars, rebuildVars, watch,
                   flagged, msgVars, backendVars>>

\* _exit_after_backend_death: SIGTERM to this process after a grace period.
ExitTimer == fatal /\ StopSignal

\* uvicorn ends when no response is under way; then lifespan sets the flag and
\* terminates the workers.
Lifespan ==
    /\ LoopFree /\ exiting
    /\ stop = "none"
    /\ \A u \in Uid : client[u] \notin {"submitting", "waiting"}
    /\ \A i \in Rebuild : stage[i] \notin {"sending", "waiting"}
    /\ flagged' = TRUE
    /\ UNCHANGED <<gate, fatal, clientVars, statsVars, stopVars, rebuildVars, watch,
                   exiting, msgVars, backendVars>>

\* A worker dies: any time, or by the signal, or terminated by lifespan.
WorkerDies ==
    /\ backendUp
    /\ backendUp' = FALSE
    /\ UNCHANGED <<gate, fatal, clientVars, statsVars, stopVars, rebuildVars,
                   processVars, msgVars, life, tombstones, published>>

-----------------------------------------------------------------------------
(***************************************************************************)
(* The backend as one request sees it: the tokenizer workers may reorder a *)
(* request and its abort; after an acknowledged abort, or its terminal     *)
(* reply, nothing is sampled for a uid (RequestLife and Scheduler's        *)
(* AbortBarrier).  A dead worker takes the backend with it.                *)
(***************************************************************************)
backendFrame == <<gate, fatal, clientVars, statsVars, stopVars, rebuildVars,
                  processVars, backendUp>>

\* A prompt that can not be encoded, or is rejected by the scheduler.
TokenizeFails(u) ==
    /\ backendUp /\ u \in userMsgs
    /\ userMsgs' = userMsgs \ {u}
    /\ replies' = [replies EXCEPT ![u] = Append(@, "error")]
    /\ UNCHANGED <<backendFrame, abortMsgs, rebuildMsgs, rebuildReplies, life,
                   tombstones, published>>

\* Mutation: no tombstone is consulted.
Dropped_Never(u) == FALSE

Dropped(u) == u \in tombstones

TakeUser(u) ==
    /\ backendUp /\ u \in userMsgs
    /\ userMsgs' = userMsgs \ {u}
    /\ IF Dropped(u)
       THEN tombstones' = tombstones \ {u} /\ UNCHANGED life
       ELSE life' = [life EXCEPT ![u] = "running"] /\ UNCHANGED tombstones
    /\ UNCHANGED <<backendFrame, abortMsgs, rebuildMsgs, replies, rebuildReplies,
                   published>>

\* A prompt admission or a sampled token, the last one with finished.
Publish(u) ==
    /\ backendUp /\ life[u] = "running"
    /\ \E reply \in {"delta", "last"} :
          /\ reply = "delta" => published[u] < MaxDeltas - 1
          /\ replies' = [replies EXCEPT ![u] = Append(@, reply)]
          /\ life' = [life EXCEPT ![u] = IF reply = "last" THEN "ended" ELSE "running"]
    /\ published' = [published EXCEPT ![u] = @ + 1]
    /\ UNCHANGED <<backendFrame, userMsgs, abortMsgs, rebuildMsgs, rebuildReplies,
                   tombstones>>

\* An abort is remembered, ends the request and is acknowledged as the last reply.
TakeAbort(u) ==
    /\ backendUp /\ u \in abortMsgs
    /\ abortMsgs' = abortMsgs \ {u}
    /\ tombstones' = tombstones \cup {u}
    /\ life' = [life EXCEPT ![u] = IF @ = "running" THEN "ended" ELSE @]
    /\ replies' = [replies EXCEPT ![u] = Append(@, "error")]
    /\ UNCHANGED <<backendFrame, userMsgs, rebuildMsgs, rebuildReplies, published>>

\* The rebuild is done (or fails) when nothing runs, or refused: "ok" stands for
\* every answer that leaves a usable cache.
TakeRebuild(i) ==
    /\ backendUp /\ i \in rebuildMsgs
    /\ rebuildMsgs' = rebuildMsgs \ {i}
    /\ \E status \in {"ok", "failed"} :
          /\ status = "failed" => \A u \in Uid : life[u] # "running"
          /\ rebuildReplies' = rebuildReplies \cup {<<i, status>>}
    /\ UNCHANGED <<backendFrame, userMsgs, abortMsgs, replies, life, tombstones,
                   published>>

-----------------------------------------------------------------------------
RequestStep(u) ==
    \/ Submit(u) \/ SubmitFails(u) \/ Deliver(u) \/ Wake(u)
    \/ \E who \in {"client", "stop"} : AbortUser(u, who)

StopStep == Seal \/ DrainTimesOut \/ AbortsSent \/ BarrierTimesOut

RebuildStep(i) ==
    \/ RebuildLatched(i) \/ RebuildSent(i) \/ RebuildSendFails(i)
    \/ RebuildReturns(i) \/ RebuildTimesOut(i)
    \/ \E status \in {"ok", "failed"} : ResolveRebuild(i, status)

BackendStep(u) == TokenizeFails(u) \/ TakeUser(u) \/ Publish(u) \/ TakeAbort(u)

Next ==
    \/ \E u \in Uid : NewUser(u) \/ RequestStep(u) \/ Disconnect(u) \/ BackendStep(u)
    \/ StopBegins \/ StopStep
    \/ \E i \in Rebuild : RebuildChecked(i) \/ RebuildStep(i) \/ TakeRebuild(i)
    \/ BackendReady \/ NoticeDeath \/ FailPendingRebuilds
    \/ StopSignal \/ ExitTimer \/ Lifespan \/ WorkerDies

Spec == Init /\ [][Next]_vars

(***************************************************************************)
(* The event loop, the supervisor thread and the workers keep running; the *)
(* scheduler ends every request it runs (Scheduler: EveryRequestEnds).     *)
(* Nothing makes clients ask or leave, a stop begin, or a worker die.      *)
(***************************************************************************)
Fairness ==
    /\ \A u \in Uid :
          /\ WF_vars(Deliver(u)) /\ WF_vars(Submit(u) \/ SubmitFails(u))
          /\ \A who \in {"client", "stop"} : WF_vars(AbortUser(u, who))
          /\ WF_vars(TokenizeFails(u) \/ TakeUser(u))
          /\ WF_vars(Publish(u)) /\ WF_vars(TakeAbort(u))
    /\ \A i \in Rebuild :
          /\ WF_vars(RebuildStep(i)) /\ WF_vars(TakeRebuild(i))
          /\ WF_vars(\E status \in {"ok", "failed"} : ResolveRebuild(i, status))
    /\ WF_vars(StopStep) /\ WF_vars(NoticeDeath)

FairSpec == Spec /\ Fairness

-----------------------------------------------------------------------------
(***************************************************************************)
(* Properties.                                                             *)
(***************************************************************************)
Published == MapThenSumSet(LAMBDA u : published[u], Uid)

\* The sealed total is all the backend ever publishes: no token is sampled or
\* still on its way when the daemon gets its receipt, whatever clients do and
\* however aborts overtake requests (server/accounting.py:1-8).
SealExact == sealed # Unsealed => sealed = Published

\* Nothing opens the gate once the totals are sealed or a worker has died: no
\* late rebuild reply and no readiness (api_server.py:267, 984). One path does:
\* a rebuild whose dispatch fails rolls the gate back whatever happened meanwhile.
GateShut ==
    [][gate # "serving" /\ gate' = "serving" =>
          \/ sealed = Unsealed /\ ~fatal
          \/ \E i \in Rebuild : RebuildSendFails(i)]_vars

\* The scheduler has at most one rebuild to answer: a second message would
\* replace the first (scheduler.py:728), also after a timed-out request.
OneRebuild == Cardinality(rebuildMsgs) + Cardinality(rebuildReplies) <= 1

\* A rebuild closes the gate for a time only: the reply opens or fails it, also
\* after the request timed out, or the worker's death is noticed.
GateReopens == gate = "rebuilding" ~> gate # "rebuilding" \/ fatal \/ flagged

\* Once prepare-stop has sent its aborts every request comes to its end, so that
\* a retry of a timed-out stop seals; unless a worker or the server ends first.
BarrierDrains == stop = "barrier" ~> inflight = {} \/ ~backendUp \/ flagged

=============================================================================
