--------------------------- MODULE FrontendProofs ---------------------------
(***************************************************************************)
(* The server process, for any finite set of requests and any number of    *)
(* replies, rebuilds, stops and failing sends: the sealed total is all     *)
(* that is ever published, one rebuild is out at a time, and nothing but a *)
(* failed dispatch reopens a gate that was shut.                           *)
(***************************************************************************)
EXTENDS Frontend, FiniteSums

Replies == {"delta", "last", "error"}

TypeInv ==
    /\ gate \in {"loading", "serving", "rebuilding", "stopping", "failed"}
    /\ client \in [Uid -> {"none", "submitting", "waiting", "ended"}]
    /\ inflight \subseteq Uid /\ userMsgs \subseteq Uid /\ abortMsgs \subseteq Uid
    /\ tombstones \subseteq Uid /\ total \in Int
    /\ abortTasks \in [Uid -> SUBSET {"client", "stop"}]
    /\ stop \in {"none", "drain", "abort", "barrier"} /\ stops \in Nat
    /\ sealed \in Int
    /\ stage \in [Rebuild -> {"none", "checked", "sending", "waiting", "done"}]
    /\ rebuildMsgs \subseteq Rebuild /\ rebuildReplies \subseteq Rebuild \X {"ok", "failed"}
    /\ fatal \in BOOLEAN /\ backendUp \in BOOLEAN
    /\ life \in [Uid -> {"none", "running", "ended"}]
    /\ replies \in [Uid -> Seq(Replies)]
    /\ published \in [Uid -> Nat]

-----------------------------------------------------------------------------
(* Requests.                                                               *)

\* Nothing is known of an id that was not given out.
Fresh(u) ==
    /\ u \notin inflight \cup userMsgs \cup abortMsgs /\ life[u] = "none"
    /\ replies[u] = <<>> /\ abortTasks[u] = {}

\* What it says of u is its last word, but for the errors that later aborts answer.
Final(u, k) == k \in 1..Len(replies[u]) /\ replies[u][k] # "delta"

\* The frontend counts it no more, or has its last word on the way.
Over(u) == u \notin inflight \/ \E k \in 1..Len(replies[u]) : Final(u, k)

\* The backend does not run it and never will.
Settled(u) ==
    /\ life[u] # "running"
    /\ u \in userMsgs \/ client[u] = "submitting" => u \in tombstones

Known(u) ==
    /\ client[u] = "none" => Fresh(u)
    /\ client[u] # "none" /\ Over(u) => Settled(u)
    /\ client[u] # "none" /\ u \notin inflight =>
          \A k \in 1..Len(replies[u]) : replies[u][k] = "error"
    /\ \A j, k \in 1..Len(replies[u]) : j < k /\ Final(u, j) => replies[u][k] = "error"
    /\ client[u] = "submitting" => u \notin userMsgs
    /\ client[u] = "submitting" \/ u \in userMsgs => life[u] = "none"

RequestInv == \A u \in Uid : Known(u)

\* The replies that count come first: how many of them there are.
IsCount(n, r) == \A k \in 1..Len(r) : r[k] # "error" <=> k <= n
Count(r) == CHOOSE n \in 0..Len(r) : IsCount(n, r)

Delivered == [u \in Uid |-> published[u] - Count(replies[u])]

\* No reply is lost and none counted twice.
CountInv == total = SumOver(Delivered, Uid)

-----------------------------------------------------------------------------
(* The gate.                                                               *)

\* Rebuild i is between its check of the gate and the reply to its message.
Sent(i) == i \in rebuildMsgs \/ \E status \in {"ok", "failed"} : <<i, status>> \in rebuildReplies
Out(i) == stage[i] \in {"checked", "sending"} \/ Sent(i)

RebuildInv ==
    /\ \A i, j \in Rebuild : Out(i) /\ Out(j) => i = j
    /\ \A i \in Rebuild :
          /\ Sent(i) => stage[i] \in {"waiting", "done"}
          /\ i \in rebuildMsgs => \A status \in {"ok", "failed"} : <<i, status>> \notin rebuildReplies
          /\ ~(<<i, "ok">> \in rebuildReplies /\ <<i, "failed">> \in rebuildReplies)
          /\ Out(i) /\ stage[i] # "checked" => gate # "serving" /\ (gate = "rebuilding" \/ fatal)

\* Where the gate stands once readiness, a death or a stop has moved it.
GateInv ==
    /\ gate = "loading" => ~fatal /\ stops = 0 /\ \A i \in Rebuild : ~Out(i)
    /\ fatal => ~backendUp
    /\ stops > 0 /\ ~fatal => gate = "stopping" /\ \A i \in Rebuild : ~Out(i)
    /\ stop # "none" \/ sealed # Unsealed => stops > 0

SealInv ==
    /\ SealExact
    /\ sealed # Unsealed /\ ~fatal => inflight = {}

IInv == TypeInv /\ RequestInv /\ CountInv /\ RebuildInv /\ GateInv /\ SealInv

-----------------------------------------------------------------------------
(***************************************************************************)
(* Types.                                                                  *)
(***************************************************************************)
\* A reply that is sent, and one that is taken.
LEMMA AppendReply ==
    ASSUME replies \in [Uid -> Seq(Replies)], NEW u \in Uid, NEW reply \in Replies,
           replies' = [replies EXCEPT ![u] = Append(@, reply)]
    PROVE  /\ replies' \in [Uid -> Seq(Replies)]
           /\ \A v \in Uid \ {u} : replies'[v] = replies[v]
           /\ Len(replies'[u]) = Len(replies[u]) + 1 /\ Len(replies[u]) \in Nat
           /\ \A k \in 1..Len(replies[u]) : replies'[u][k] = replies[u][k]
           /\ replies'[u][Len(replies[u]) + 1] = reply
<1>1. replies[u] \in Seq(Replies) /\ Append(replies[u], reply) \in Seq(Replies)
    OBVIOUS
<1>2. replies'[u] = Append(replies[u], reply)
    OBVIOUS
<1>3. /\ Len(Append(replies[u], reply)) = Len(replies[u]) + 1 /\ Len(replies[u]) \in Nat
      /\ \A k \in 1..Len(replies[u]) : Append(replies[u], reply)[k] = replies[u][k]
      /\ Append(replies[u], reply)[Len(replies[u]) + 1] = reply
    BY <1>1
<1> QED BY <1>1, <1>2, <1>3

LEMMA TakeReply ==
    ASSUME replies \in [Uid -> Seq(Replies)], NEW u \in Uid, replies[u] # <<>>,
           replies' = [replies EXCEPT ![u] = Tail(replies[u])]
    PROVE  /\ replies' \in [Uid -> Seq(Replies)]
           /\ \A v \in Uid \ {u} : replies'[v] = replies[v]
           /\ Len(replies[u]) = Len(replies'[u]) + 1 /\ Len(replies'[u]) \in Nat
           /\ \A k \in 1..Len(replies'[u]) : replies'[u][k] = replies[u][k + 1]
           /\ Head(replies[u]) = replies[u][1] /\ Head(replies[u]) \in Replies
<1>1. replies[u] \in Seq(Replies) /\ Tail(replies[u]) \in Seq(Replies)
    OBVIOUS
<1>2. replies'[u] = Tail(replies[u])
    OBVIOUS
<1>3. /\ Len(replies[u]) = Len(Tail(replies[u])) + 1 /\ Len(Tail(replies[u])) \in Nat
      /\ \A k \in 1..Len(Tail(replies[u])) : Tail(replies[u])[k] = replies[u][k + 1]
      /\ Head(replies[u]) = replies[u][1] /\ Head(replies[u]) \in Replies
    BY <1>1
<1> QED BY <1>1, <1>2, <1>3

LEMMA NextType ==
    ASSUME TypeInv, [Next]_vars
    PROVE  TypeInv'
<1> USE DEF TypeInv, clientVars, statsVars, stopVars, rebuildVars, processVars, msgVars,
        backendVars, backendFrame
<1>1. CASE UNCHANGED vars
    BY <1>1 DEF vars
<1>2. CASE \E u \in Uid : NewUser(u) \/ RequestStep(u) \/ Disconnect(u) \/ BackendStep(u)
    <2> PICK u \in Uid : NewUser(u) \/ RequestStep(u) \/ Disconnect(u) \/ BackendStep(u)
        BY <1>2
    <2>1. CASE NewUser(u)
        BY <2>1 DEF NewUser
    <2>2. CASE Submit(u) \/ SubmitFails(u)
        BY ZenonT(60), <2>2 DEF Submit, SubmitFails
    <2>3. CASE Deliver(u)
        <3>1. replies' \in [Uid -> Seq(Replies)]
            BY <2>3, TakeReply DEF Deliver
        <3>2. total' \in Int /\ inflight' \subseteq Uid
            BY <2>3 DEF Deliver
        <3> QED BY <2>3, <3>1, <3>2 DEF Deliver
    <2>4. CASE Wake(u)
        BY <2>4 DEF Wake
    <2>9. CASE Disconnect(u)
        <3>1. client' \in [Uid -> {"none", "submitting", "waiting", "ended"}]
            BY <2>9 DEF Disconnect
        <3>2. abortTasks' \in [Uid -> SUBSET {"client", "stop"}]
            BY <2>9 DEF Disconnect
        <3> QED BY <2>9, <3>1, <3>2 DEF Disconnect
    <2>5. CASE \E who \in {"client", "stop"} : AbortUser(u, who)
        BY <2>5 DEF AbortUser
    <2>6. CASE TokenizeFails(u) \/ TakeAbort(u)
        <3>1. replies' \in [Uid -> Seq(Replies)]
            BY <2>6, AppendReply DEF TokenizeFails, TakeAbort, Replies
        <3> QED BY ZenonT(60), <2>6, <3>1 DEF TokenizeFails, TakeAbort
    <2>7. CASE TakeUser(u)
        BY <2>7 DEF TakeUser
    <2>8. CASE Publish(u)
        <3>1. replies' \in [Uid -> Seq(Replies)]
            BY <2>8, AppendReply DEF Publish, Replies
        <3> QED BY <2>8, <3>1 DEF Publish
    <2> QED BY <2>1, <2>2, <2>3, <2>4, <2>5, <2>6, <2>7, <2>8, <2>9 DEF RequestStep, BackendStep
<1>3. CASE StopBegins \/ StopStep
    BY <1>3 DEF StopBegins, StopStep, Seal, DrainTimesOut, AbortsSent, BarrierTimesOut
<1>4. CASE \E i \in Rebuild : RebuildChecked(i) \/ RebuildStep(i) \/ TakeRebuild(i)
    <2> PICK i \in Rebuild : RebuildChecked(i) \/ RebuildStep(i) \/ TakeRebuild(i)
        BY <1>4
    <2>1. CASE RebuildChecked(i) \/ RebuildLatched(i) \/ RebuildSent(i) \/ RebuildSendFails(i)
        BY ZenonT(60), <2>1 DEF RebuildChecked, RebuildLatched, RebuildSent, RebuildSendFails
    <2>2. CASE RebuildReturns(i) \/ RebuildTimesOut(i)
        BY ZenonT(60), <2>2 DEF RebuildReturns, RebuildTimesOut, GateAfterTimeout
    <2>3. CASE \E status \in {"ok", "failed"} : ResolveRebuild(i, status)
        BY <2>3 DEF ResolveRebuild, GateAfterReply
    <2>4. CASE TakeRebuild(i)
        BY <2>4 DEF TakeRebuild
    <2> QED BY <2>1, <2>2, <2>3, <2>4 DEF RebuildStep
<1>5. CASE \/ BackendReady \/ NoticeDeath \/ FailPendingRebuilds
           \/ StopSignal \/ ExitTimer \/ Lifespan \/ WorkerDies
    BY ZenonT(60), <1>5 DEF BackendReady, NoticeDeath, FailPendingRebuilds, StopSignal, ExitTimer, Lifespan,
                WorkerDies
<1> QED BY <1>1, <1>2, <1>3, <1>4, <1>5 DEF Next

-----------------------------------------------------------------------------
(***************************************************************************)
(* What the frontend and the backend know of a request.                    *)
(***************************************************************************)
\* A step that leaves a request alone leaves what is known of it.
LEMMA KnownStays ==
    ASSUME NEW v \in Uid, Known(v), client'[v] = client[v], replies'[v] = replies[v],
           life'[v] = life[v], abortTasks'[v] = abortTasks[v], v \in inflight' <=> v \in inflight,
           v \in userMsgs' <=> v \in userMsgs, v \in abortMsgs' <=> v \in abortMsgs,
           v \in tombstones => v \in tombstones'
    PROVE  Known(v)'
BY DEF Known, Fresh, Over, Final, Settled

\* An id is given out: nothing was known of it.
LEMMA NewUserKnown ==
    ASSUME TypeInv, RequestInv, NEW u \in Uid, NewUser(u)
    PROVE  RequestInv'
<1> USE DEF NewUser, TypeInv, RequestInv, stopVars, msgVars, backendVars
<1>1. ASSUME NEW v \in Uid, v # u PROVE Known(v)'
    BY <1>1, KnownStays
<1>2. Known(u)'
    <2>1. /\ client[u] = "none" /\ client'[u] = "submitting" /\ u \in inflight'
          /\ replies'[u] = <<>> /\ life'[u] = "none" /\ u \notin userMsgs'
        BY DEF Known, Fresh
    <2>2. Len(replies'[u]) = 0
        BY <2>1
    <2> HIDE DEF NewUser, TypeInv, RequestInv, stopVars, msgVars, backendVars
    <2> QED BY <2>1, <2>2 DEF Known, Fresh, Over, Final, Settled
<1> QED BY <1>1, <1>2

\* The message goes out after the id was counted; an abort that overtook it left a
\* tombstone.
LEMMA SubmitKnown ==
    ASSUME TypeInv, RequestInv, NEW u \in Uid, Submit(u) \/ SubmitFails(u)
    PROVE  RequestInv'
<1> USE DEF Submit, SubmitFails, TypeInv, RequestInv, statsVars, stopVars, msgVars, backendVars
<1>1. ASSUME NEW v \in Uid, v # u PROVE Known(v)'
    BY <1>1, KnownStays
<1>2. Known(u)'
    BY DEF Known, Fresh, Over, Final, Settled
<1> QED BY <1>1, <1>2

\* The end of a handler and the start of an abort change nothing the backend knows.
LEMMA HandlerKnown ==
    ASSUME TypeInv, RequestInv, NEW u \in Uid, Wake(u) \/ Disconnect(u)
    PROVE  RequestInv'
<1> USE DEF Wake, Disconnect, TypeInv, RequestInv, statsVars, stopVars, msgVars, backendVars
<1>1. ASSUME NEW v \in Uid, v # u PROVE Known(v)'
    BY <1>1, KnownStays
<1>2. Known(u)'
    <2>1. /\ client[u] = "waiting" /\ client'[u] \in {"waiting", "ended"}
          /\ UNCHANGED <<inflight, userMsgs, abortMsgs, life, tombstones, replies>>
        OBVIOUS
    <2> HIDE DEF Wake, Disconnect
    <2> QED BY <2>1 DEF Known, Fresh, Over, Final, Settled
<1> QED BY <1>1, <1>2

LEMMA AbortUserKnown ==
    ASSUME TypeInv, RequestInv, NEW u \in Uid, NEW who \in {"client", "stop"}, AbortUser(u, who)
    PROVE  RequestInv'
<1> USE DEF AbortUser, TypeInv, RequestInv, statsVars, stopVars, msgVars, backendVars
<1>1. ASSUME NEW v \in Uid, v # u PROVE Known(v)'
    BY <1>1, KnownStays
<1>2. Known(u)'
    <2>1. /\ client[u] # "none" /\ client' = client
          /\ UNCHANGED <<inflight, userMsgs, life, tombstones, replies>>
        BY DEF Known, Fresh
    <2> HIDE DEF AbortUser
    <2> QED BY <2>1 DEF Known, Fresh, Over, Final, Settled
<1> QED BY <1>1, <1>2

\* The first terminal reply ends the count; what follows it are errors.
LEMMA DeliverKnown ==
    ASSUME TypeInv, RequestInv, NEW u \in Uid, Deliver(u)
    PROVE  RequestInv'
<1>1. /\ replies[u] # <<>> /\ replies' = [replies EXCEPT ![u] = Tail(replies[u])]
      /\ inflight' = IF Head(replies[u]) # "delta" THEN inflight \ {u} ELSE inflight
      /\ UNCHANGED <<client, userMsgs, abortMsgs, life, tombstones, abortTasks>>
    BY DEF Deliver, Observed, stopVars, backendVars
<1>2. ASSUME NEW v \in Uid, v # u PROVE Known(v)'
    BY <1>1, <1>2, TakeReply, KnownStays DEF TypeInv, RequestInv
<1>3. Known(u)'
    <2> DEFINE n == Len(replies'[u])
    <2>1. /\ Len(replies[u]) = n + 1 /\ n \in Nat /\ Head(replies[u]) = replies[u][1]
          /\ \A k \in 1..n : replies'[u][k] = replies[u][k + 1]
        BY <1>1, TakeReply DEF TypeInv
    <2>2. client[u] # "none" /\ Known(u)
        BY <1>1 DEF RequestInv, Known, Fresh
    <2> HIDE DEF n
    <2>3. \A k \in 1..n : k + 1 \in 1..Len(replies[u])
        BY <2>1
    <2>4. 1 \in 1..Len(replies[u])
        BY <2>1
    <2>5. Over(u)' => Over(u)
        BY <1>1, <2>1, <2>3, <2>4 DEF Over, Final, n
    <2>6. u \notin inflight' => \A k \in 1..n : replies'[u][k] = "error"
        <3>1. CASE u \notin inflight
            BY <2>1, <2>2, <2>3, <3>1 DEF Known
        <3>2. CASE u \in inflight /\ u \notin inflight'
            <4>1. Final(u, 1)
                BY <1>1, <2>1, <2>4, <3>2 DEF Final
            <4> QED BY <2>1, <2>2, <2>3, <2>4, <4>1 DEF Known
        <3> QED BY <3>1, <3>2
    <2>7. ASSUME NEW j \in 1..n, NEW k \in 1..n, j < k, replies'[u][j] # "delta"
          PROVE  replies'[u][k] = "error"
        <3>1. replies'[u][j] = replies[u][j + 1] /\ replies'[u][k] = replies[u][k + 1]
            BY ONLY <2>1
        <3>2. j + 1 \in 1..Len(replies[u]) /\ k + 1 \in 1..Len(replies[u])
            BY ONLY <2>3
        <3>3. j + 1 < k + 1
            BY ONLY <2>1, <2>7
        <3> QED BY <2>2, <2>7, <3>1, <3>2, <3>3 DEF Known, Final
    <2> QED BY <1>1, <2>2, <2>5, <2>6, <2>7 DEF Known, Settled, Final, n
<1> QED BY <1>2, <1>3 DEF RequestInv

\* An error that answers a prompt that cannot run, or an abort: it settles the
\* request, whatever was on its way.
LEMMA ErrorKnown ==
    ASSUME TypeInv, RequestInv, NEW u \in Uid, TokenizeFails(u) \/ TakeAbort(u)
    PROVE  RequestInv'
<1>1. /\ replies' = [replies EXCEPT ![u] = Append(@, "error")]
      /\ UNCHANGED <<client, inflight, abortTasks>>
      /\ \A v \in Uid \ {u} : /\ v \in userMsgs' <=> v \in userMsgs
                              /\ v \in abortMsgs' <=> v \in abortMsgs
                              /\ v \in tombstones' <=> v \in tombstones
                              /\ life'[v] = life[v]
    BY DEF TokenizeFails, TakeAbort, backendFrame, clientVars, statsVars, stopVars, TypeInv
<1>2. ASSUME NEW v \in Uid, v # u PROVE Known(v)'
    BY <1>1, <1>2, AppendReply, KnownStays DEF TypeInv, RequestInv, Replies
<1>3. Known(u)'
    <2> DEFINE n == Len(replies[u])
    <2>1. /\ Len(replies'[u]) = n + 1 /\ n \in Nat /\ replies'[u][n + 1] = "error"
          /\ \A k \in 1..n : replies'[u][k] = replies[u][k]
        BY <1>1, AppendReply DEF TypeInv, Replies
    <2>2. client[u] # "none" /\ Known(u)
        BY DEF RequestInv, Known, Fresh, TokenizeFails, TakeAbort
    <2>3. /\ life'[u] # "running"
          /\ u \in userMsgs' \/ client[u] = "submitting" => u \in tombstones'
          /\ client[u] = "submitting" => u \notin userMsgs'
          /\ client[u] = "submitting" \/ u \in userMsgs' => life'[u] = "none"
        BY <2>2 DEF Known, TokenizeFails, TakeAbort, TypeInv
    <2> HIDE DEF n
    <2>4. \A k \in 1..(n + 1) : k \in 1..n \/ k = n + 1
        BY <2>1
    <2>5. u \notin inflight => \A k \in 1..(n + 1) : replies'[u][k] = "error"
        BY <2>1, <2>2, <2>4 DEF Known, n
    <2>6. ASSUME NEW j \in 1..(n + 1), NEW k \in 1..(n + 1), j < k, replies'[u][j] # "delta"
          PROVE  replies'[u][k] = "error"
        <3>1. CASE k = n + 1
            BY <2>1, <3>1
        <3>2. CASE k \in 1..n
            BY SMTT(60), <2>1, <2>2, <2>6, <3>2 DEF Known, Final, n
        <3> QED BY <2>4, <3>1, <3>2
    <2> QED BY <1>1, <2>1, <2>2, <2>3, <2>5, <2>6 DEF Known, Settled, Final
<1> QED BY <1>2, <1>3 DEF RequestInv

\* A prompt that is taken runs, unless an abort overtook it.
LEMMA TakeUserKnown ==
    ASSUME TypeInv, RequestInv, NEW u \in Uid, TakeUser(u)
    PROVE  RequestInv'
<1>1. /\ u \in userMsgs /\ userMsgs' = userMsgs \ {u}
      /\ UNCHANGED <<client, inflight, abortTasks, abortMsgs, replies>>
      /\ \A v \in Uid \ {u} : (v \in tombstones' <=> v \in tombstones) /\ life'[v] = life[v]
    BY DEF TakeUser, backendFrame, clientVars, statsVars, stopVars, TypeInv
<1>2. ASSUME NEW v \in Uid, v # u PROVE Known(v)'
    BY <1>1, <1>2, KnownStays DEF RequestInv
<1>3. Known(u)'
    <2>1. Known(u)
        BY DEF RequestInv
    <2>2. client[u] # "none" /\ client[u] # "submitting"
        BY <1>1, <2>1 DEF Known, Fresh
    <2>3. u \notin tombstones => ~Over(u)
        BY <1>1, <2>1, <2>2 DEF Known, Settled
    <2>4. u \in tombstones => life'[u] = "none"
        BY <1>1, <2>1 DEF Known, TakeUser, Dropped
    <2> QED BY <1>1, <2>1, <2>2, <2>3, <2>4 DEF Known, Over, Final, Settled
<1> QED BY <1>2, <1>3 DEF RequestInv

\* What runs is in flight, and nothing final was said of it.
LEMMA RunningIsOpen ==
    ASSUME TypeInv, RequestInv, NEW u \in Uid, life[u] = "running"
    PROVE  /\ client[u] \notin {"none", "submitting"} /\ u \in inflight /\ u \notin userMsgs
           /\ \A k \in 1..Len(replies[u]) : replies[u][k] = "delta"
BY DEF RequestInv, Known, Fresh, Over, Final, Settled

LEMMA PublishKnown ==
    ASSUME TypeInv, RequestInv, NEW u \in Uid, Publish(u)
    PROVE  RequestInv'
<1>1. PICK reply \in {"delta", "last"} :
         /\ replies' = [replies EXCEPT ![u] = Append(@, reply)]
         /\ life' = [life EXCEPT ![u] = IF reply = "last" THEN "ended" ELSE "running"]
    BY DEF Publish
<1>2. life[u] = "running" /\ UNCHANGED <<client, inflight, abortTasks, userMsgs, abortMsgs, tombstones>>
    BY DEF Publish, backendFrame, clientVars, statsVars, stopVars
<1>3. ASSUME NEW v \in Uid, v # u PROVE Known(v)'
    BY <1>1, <1>2, <1>3, AppendReply, KnownStays DEF TypeInv, RequestInv, Replies
<1>4. Known(u)'
    <2> DEFINE n == Len(replies[u])
    <2>1. /\ Len(replies'[u]) = n + 1 /\ n \in Nat /\ replies'[u][n + 1] = reply
          /\ \A k \in 1..n : replies'[u][k] = replies[u][k]
        BY <1>1, AppendReply DEF TypeInv, Replies
    <2>2. /\ client[u] \notin {"none", "submitting"} /\ u \in inflight /\ u \notin userMsgs
          /\ \A k \in 1..n : replies[u][k] = "delta"
        BY <1>2, RunningIsOpen
    <2>3. life'[u] = IF reply = "last" THEN "ended" ELSE "running"
        BY <1>1 DEF TypeInv
    <2> HIDE DEF n
    <2>4. \A j \in 1..(n + 1) : replies'[u][j] # "delta" => j = n + 1 /\ reply = "last"
        BY <2>1, <2>2
    <2>5. \A j, k \in 1..(n + 1) : ~(j < k /\ replies'[u][j] # "delta")
        BY <2>1, <2>4
    <2> QED BY <1>2, <2>1, <2>2, <2>3, <2>4, <2>5 DEF Known, Over, Settled, Final
<1> QED BY <1>3, <1>4 DEF RequestInv

\* Every step keeps what is known of the requests.
LEMMA NextRequest ==
    ASSUME TypeInv, RequestInv, [Next]_vars
    PROVE  RequestInv'
<1>1. CASE /\ UNCHANGED <<client, inflight, userMsgs, abortMsgs, life, replies, tombstones>>
           /\ \A u \in Uid : abortTasks'[u] = abortTasks[u] \/ u \in inflight
    <2>1. ASSUME NEW u \in Uid PROVE Known(u)'
        BY <1>1 DEF RequestInv, Known, Fresh, Over, Final, Settled
    <2> QED BY <2>1 DEF RequestInv
<1>2. CASE UNCHANGED vars
    BY <1>1, <1>2 DEF vars, clientVars, statsVars, stopVars, msgVars, backendVars
<1>3. CASE \E u \in Uid : NewUser(u) \/ RequestStep(u) \/ Disconnect(u) \/ BackendStep(u)
    BY <1>3, NewUserKnown, SubmitKnown, DeliverKnown, HandlerKnown, AbortUserKnown, ErrorKnown,
       TakeUserKnown, PublishKnown
    DEF RequestStep, BackendStep
<1>4. CASE StopBegins \/ StopStep
    <2>1. UNCHANGED <<client, inflight, userMsgs, abortMsgs, life, replies, tombstones>>
        BY <1>4 DEF StopBegins, StopStep, Seal, DrainTimesOut, AbortsSent, BarrierTimesOut,
                    clientVars, statsVars, msgVars, backendVars
    <2>2. ASSUME NEW u \in Uid PROVE abortTasks'[u] = abortTasks[u] \/ u \in inflight
        <3>1. CASE DrainTimesOut
            BY <3>1 DEF DrainTimesOut
        <3>2. CASE ~DrainTimesOut
            BY <1>4, <3>2 DEF StopBegins, StopStep, Seal, AbortsSent, BarrierTimesOut
        <3> QED BY <3>1, <3>2
    <2> QED BY <1>1, <2>1, <2>2
<1>5. CASE \E i \in Rebuild : RebuildChecked(i) \/ RebuildStep(i) \/ TakeRebuild(i)
    <2>1. UNCHANGED <<client, inflight, userMsgs, abortMsgs, life, replies, tombstones, abortTasks>>
        BY <1>5 DEF RebuildChecked, RebuildStep, RebuildLatched, RebuildSent, RebuildSendFails,
                    RebuildReturns, RebuildTimesOut, ResolveRebuild, TakeRebuild, backendFrame,
                    clientVars, statsVars, stopVars, msgVars, backendVars
    <2> QED BY <1>1, <2>1
<1>6. CASE \/ BackendReady \/ NoticeDeath \/ FailPendingRebuilds
           \/ StopSignal \/ ExitTimer \/ Lifespan \/ WorkerDies
    <2>1. UNCHANGED <<client, inflight, userMsgs, abortMsgs, life, replies, tombstones, abortTasks>>
        BY <1>6 DEF BackendReady, NoticeDeath, FailPendingRebuilds, StopSignal, ExitTimer, Lifespan,
                    WorkerDies, clientVars, statsVars, stopVars, msgVars, backendVars
    <2> QED BY <1>1, <2>1
<1> QED BY <1>2, <1>3, <1>4, <1>5, <1>6 DEF Next

-----------------------------------------------------------------------------
(***************************************************************************)
(* The count.                                                              *)
(***************************************************************************)
\* There is at most one such number.
LEMMA CountIs ==
    ASSUME NEW r \in Seq(Replies), NEW n \in 0..Len(r), IsCount(n, r)
    PROVE  Count(r) = n
<1>1. Len(r) \in Nat
    OBVIOUS
<1>2. ASSUME NEW m \in 0..Len(r), IsCount(m, r)
      PROVE  m = n
    <2>1. CASE m < n
        <3>1. n \in 1..Len(r) BY <1>1, <2>1
        <3> QED BY <1>2, <2>1, <3>1 DEF IsCount
    <2>2. CASE n < m
        <3>1. m \in 1..Len(r) BY <1>1, <2>2
        <3> QED BY <1>2, <2>2, <3>1 DEF IsCount
    <2> QED BY <1>1, <2>1, <2>2
<1> QED BY <1>2 DEF Count

\* And there is one where only errors follow what is final.
LEMMA CountHas ==
    ASSUME NEW r \in Seq(Replies),
           \A j, k \in 1..Len(r) : j < k /\ r[j] # "delta" => r[k] = "error"
    PROVE  Count(r) \in 0..Len(r) /\ Len(r) \in Nat /\ IsCount(Count(r), r)
<1> DEFINE L == Len(r)
           S == {k \in 1..L : r[k] # "delta"}
<1>1. L \in Nat /\ \A k \in 1..L : r[k] \in Replies
    OBVIOUS
<1>2. \E n \in 0..L : IsCount(n, r)
    <2>1. CASE S = {}
        <3>1. L \in 0..L /\ \A k \in 1..L : r[k] = "delta" /\ k <= L
            BY <1>1, <2>1
        <3> QED BY <3>1 DEF IsCount
    <2>2. CASE S # {}
        <3>1. PICK m \in S : \A k \in S : ~(k < m)
            <4> DEFINE R == OpToRel(<, Nat)
            <4>1. S \subseteq Nat
                BY <1>1
            <4>2. IsWellFoundedOn(R, Nat)
                BY NatLessThanWellFounded
            <4>3. \A k, m \in Nat : k < m => <<k, m>> \in R
                BY DEF OpToRel
            <4> HIDE DEF R, S
            <4>4. PICK m \in S : \A k \in S : ~(<<k, m>> \in R)
                BY <2>2, <4>1, <4>2, WFMin
            <4> QED BY <4>1, <4>3, <4>4
        <3>2. m \in 1..L /\ r[m] # "delta" /\ \A k \in 1..L : k < m => r[k] = "delta"
            BY <3>1
        <3> HIDE DEF L, S
        <3>3. CASE r[m] = "error"
            <4>1. m - 1 \in 0..L
                BY <1>1, <3>2
            <4>2. \A k \in 1..L : r[k] # "error" <=> k <= m - 1
                BY <1>1, <3>2, <3>3 DEF L
            <4> QED BY <4>1, <4>2 DEF IsCount, L
        <3>4. CASE r[m] # "error"
            <4>1. m \in 0..L
                BY <1>1, <3>2
            <4>2. \A k \in 1..L : r[k] # "error" <=> k <= m
                BY <1>1, <3>2, <3>4 DEF L
            <4> QED BY <4>1, <4>2 DEF IsCount, L
        <3> QED BY <3>3, <3>4
    <2> QED BY <2>1, <2>2
<1> QED BY <1>1, <1>2 DEF Count

\* A request's replies have their count.
LEMMA KnownCount ==
    ASSUME TypeInv, NEW u \in Uid, Known(u)
    PROVE  /\ replies[u] \in Seq(Replies) /\ Len(replies[u]) \in Nat
           /\ Count(replies[u]) \in 0..Len(replies[u]) /\ IsCount(Count(replies[u]), replies[u])
<1>1. replies[u] \in Seq(Replies)
    BY DEF TypeInv
<1>2. \A j, k \in 1..Len(replies[u]) : j < k /\ replies[u][j] # "delta" => replies[u][k] = "error"
    BY DEF Known, Final
<1> QED BY <1>1, <1>2, CountHas

\* The summands are numbers.
LEMMA DeliveredInt ==
    ASSUME TypeInv, RequestInv
    PROVE  \A u \in Uid : Delivered[u] \in Int /\ Delivered[u] = published[u] - Count(replies[u])
<1> SUFFICES ASSUME NEW u \in Uid
             PROVE  Delivered[u] \in Int /\ Delivered[u] = published[u] - Count(replies[u])
    OBVIOUS
<1>1. Count(replies[u]) \in Int /\ published[u] \in Int
    BY KnownCount DEF RequestInv, TypeInv
<1>2. Delivered[u] = published[u] - Count(replies[u])
    BY DEF Delivered
<1> QED BY <1>1, <1>2

\* A step that moves one request moves the sum as much as the total.
LEMMA CountMoves ==
    ASSUME TypeInv, RequestInv, TypeInv', RequestInv', CountInv, NEW u \in Uid,
           \A v \in Uid \ {u} : published'[v] = published[v] /\ replies'[v] = replies[v],
           total' - total = (published'[u] - Count(replies'[u])) - (published[u] - Count(replies[u]))
    PROVE  CountInv'
<1>1. \A v \in Uid : Delivered[v] \in Int /\ Delivered[v] = published[v] - Count(replies[v])
    BY DeliveredInt
<1>2. ASSUME NEW v \in Uid
      PROVE  Delivered'[v] \in Int /\ Delivered'[v] = published'[v] - Count(replies'[v])
    <2>1. /\ replies'[v] \in Seq(Replies)
          /\ \A j, k \in 1..Len(replies'[v]) :
                j < k /\ replies'[v][j] # "delta" => replies'[v][k] = "error"
        BY DEF RequestInv, Known, Final, TypeInv
    <2>2. Count(replies'[v]) \in Int /\ published'[v] \in Int
        BY <2>1, CountHas DEF TypeInv
    <2>3. Delivered'[v] = published'[v] - Count(replies'[v])
        BY DEF Delivered
    <2> QED BY <2>2, <2>3
<1>3. \A v \in Uid \ {u} : Delivered'[v] = Delivered[v]
    BY <1>1, <1>2
<1>4. SumOver(Delivered', Uid) = SumOver(Delivered, Uid) + Delivered'[u] - Delivered[u]
    BY <1>1, <1>2, <1>3, UidAssumption, SumUpdate
<1>5. SumOver(Delivered, Uid) \in Int
    BY <1>1, UidAssumption, SumInt
<1>6. total' - total = Delivered'[u] - Delivered[u]
    BY <1>1, <1>2
<1>7. total' = SumOver(Delivered', Uid)
    BY <1>1, <1>2, <1>4, <1>5, <1>6 DEF CountInv, TypeInv
<1> QED BY <1>7 DEF CountInv

\* A reply that counts is counted when it is delivered, first in its queue.
LEMMA DeliverCount ==
    ASSUME TypeInv, RequestInv, TypeInv', RequestInv', CountInv, NEW u \in Uid, Deliver(u)
    PROVE  CountInv'
<1>1. /\ replies[u] # <<>> /\ replies' = [replies EXCEPT ![u] = Tail(replies[u])]
      /\ total' = (IF Head(replies[u]) # "error" THEN total + 1 ELSE total) /\ published' = published
    BY DEF Deliver, Observed, backendVars
<1> DEFINE n == Len(replies'[u])  c == Count(replies[u])
           d == IF Head(replies[u]) # "error" THEN c - 1 ELSE c
<1>2. /\ Len(replies[u]) = n + 1 /\ n \in Nat /\ Head(replies[u]) = replies[u][1]
      /\ \A k \in 1..n : replies'[u][k] = replies[u][k + 1]
      /\ \A v \in Uid \ {u} : replies'[v] = replies[v]
    BY <1>1, TakeReply DEF TypeInv
<1>3. c \in 0..(n + 1) /\ \A k \in 1..(n + 1) : replies[u][k] # "error" <=> k <= c
    BY <1>2, KnownCount DEF RequestInv, IsCount
<1>4. Count(replies'[u]) = d
    <2> HIDE DEF n, c
    <2>1. 1 \in 1..(n + 1) /\ (Head(replies[u]) # "error" <=> 1 <= c)
        BY <1>2, <1>3
    <2>2. d \in 0..n
        BY <1>2, <1>3, <2>1
    <2>3. ASSUME NEW k \in 1..n PROVE replies'[u][k] # "error" <=> k <= d
        <3>1. k + 1 \in 1..(n + 1)
            BY <1>2
        <3>2. replies'[u][k] # "error" <=> k + 1 <= c
            BY <1>2, <1>3, <3>1
        <3> QED BY <1>2, <1>3, <2>1, <3>2
    <2> HIDE DEF d
    <2>4. replies'[u] \in Seq(Replies) /\ IsCount(d, replies'[u])
        BY <2>3 DEF TypeInv, IsCount, n
    <2> QED BY <2>2, <2>4, CountIs DEF n
<1>5. total' - total = (published'[u] - Count(replies'[u])) - (published[u] - Count(replies[u]))
    BY <1>1, <1>3, <1>4, <1>2 DEF TypeInv
<1> QED BY <1>1, <1>2, <1>5, CountMoves

\* An error does not count.
LEMMA ErrorCount ==
    ASSUME TypeInv, RequestInv, TypeInv', RequestInv', CountInv, NEW u \in Uid,
           TokenizeFails(u) \/ TakeAbort(u)
    PROVE  CountInv'
<1>1. /\ replies' = [replies EXCEPT ![u] = Append(@, "error")]
      /\ total' = total /\ published' = published
    BY DEF TokenizeFails, TakeAbort, backendFrame, statsVars
<1> DEFINE n == Len(replies[u])  c == Count(replies[u])
<1>2. /\ Len(replies'[u]) = n + 1 /\ n \in Nat /\ replies'[u][n + 1] = "error"
      /\ \A k \in 1..n : replies'[u][k] = replies[u][k]
      /\ \A v \in Uid \ {u} : replies'[v] = replies[v]
    BY <1>1, AppendReply DEF TypeInv, Replies
<1>3. c \in 0..n /\ \A k \in 1..n : replies[u][k] # "error" <=> k <= c
    BY KnownCount DEF RequestInv, IsCount
<1>4. Count(replies'[u]) = c
    <2> HIDE DEF n, c
    <2>1. c \in 0..(n + 1) /\ \A k \in 1..(n + 1) : replies'[u][k] # "error" <=> k <= c
        BY <1>2, <1>3
    <2>2. replies'[u] \in Seq(Replies) /\ IsCount(c, replies'[u])
        BY <1>2, <2>1 DEF TypeInv, IsCount
    <2> QED BY <1>2, <2>1, <2>2, CountIs
<1>5. total' - total = (published'[u] - Count(replies'[u])) - (published[u] - Count(replies[u]))
    BY <1>1, <1>3, <1>4, <1>2 DEF TypeInv
<1> QED BY <1>1, <1>2, <1>5, CountMoves

\* A reply that counts comes after replies that do.
LEMMA PublishCount ==
    ASSUME TypeInv, RequestInv, TypeInv', RequestInv', CountInv, NEW u \in Uid, Publish(u)
    PROVE  CountInv'
<1>1. PICK reply \in {"delta", "last"} : replies' = [replies EXCEPT ![u] = Append(@, reply)]
    BY DEF Publish
<1>2. life[u] = "running" /\ total' = total /\ published' = [published EXCEPT ![u] = @ + 1]
    BY DEF Publish, backendFrame, statsVars
<1> DEFINE n == Len(replies[u])
<1>3. /\ Len(replies'[u]) = n + 1 /\ n \in Nat /\ replies'[u][n + 1] = reply
      /\ \A k \in 1..n : replies'[u][k] = replies[u][k]
      /\ \A v \in Uid \ {u} : replies'[v] = replies[v]
    BY <1>1, AppendReply DEF TypeInv, Replies
<1>4. \A k \in 1..n : replies[u][k] = "delta"
    BY <1>2, RunningIsOpen
<1>5. Count(replies[u]) = n
    <2>1. n \in 0..n /\ IsCount(n, replies[u]) /\ replies[u] \in Seq(Replies)
        BY <1>3, <1>4 DEF IsCount, TypeInv
    <2> QED BY <2>1, CountIs
<1>6. Count(replies'[u]) = n + 1
    <2> HIDE DEF n
    <2>1. n + 1 \in 0..(n + 1) /\ \A k \in 1..(n + 1) : replies'[u][k] # "error" <=> k <= n + 1
        BY <1>3, <1>4
    <2>2. replies'[u] \in Seq(Replies) /\ IsCount(n + 1, replies'[u])
        BY <1>3, <2>1 DEF TypeInv, IsCount
    <2> QED BY <1>3, <2>1, <2>2, CountIs
<1>7. /\ published'[u] = published[u] + 1 /\ published[u] \in Nat
      /\ \A v \in Uid \ {u} : published'[v] = published[v]
    BY <1>2 DEF TypeInv
<1>8. total' - total = (published'[u] - Count(replies'[u])) - (published[u] - Count(replies[u]))
    BY <1>2, <1>3, <1>5, <1>6, <1>7 DEF TypeInv
<1> QED BY <1>3, <1>7, <1>8, CountMoves

\* Every step keeps the count.
LEMMA NextCount ==
    ASSUME TypeInv, RequestInv, TypeInv', RequestInv', CountInv, [Next]_vars
    PROVE  CountInv'
<1>1. CASE UNCHANGED <<total, published, replies>>
    <2>1. Delivered' = Delivered
        BY <1>1 DEF Delivered
    <2> QED BY <1>1, <2>1 DEF CountInv
<1>2. CASE UNCHANGED vars
    BY <1>1, <1>2 DEF vars, statsVars, msgVars, backendVars
<1>3. CASE \E u \in Uid : NewUser(u) \/ RequestStep(u) \/ Disconnect(u) \/ BackendStep(u)
    <2> PICK u \in Uid : NewUser(u) \/ RequestStep(u) \/ Disconnect(u) \/ BackendStep(u)
        BY <1>3
    <2>1. CASE \/ NewUser(u) \/ Submit(u) \/ SubmitFails(u) \/ Wake(u) \/ Disconnect(u) \/ TakeUser(u)
               \/ \E who \in {"client", "stop"} : AbortUser(u, who)
        BY <1>1, <2>1 DEF NewUser, Submit, SubmitFails, Wake, Disconnect, TakeUser, AbortUser,
                          backendFrame, statsVars, msgVars, backendVars
    <2> QED BY <2>1, DeliverCount, ErrorCount, PublishCount DEF RequestStep, BackendStep
<1>4. CASE StopBegins \/ StopStep
    BY <1>1, <1>4 DEF StopBegins, StopStep, Seal, DrainTimesOut, AbortsSent, BarrierTimesOut,
                      statsVars, msgVars, backendVars
<1>5. CASE \E i \in Rebuild : RebuildChecked(i) \/ RebuildStep(i) \/ TakeRebuild(i)
    BY <1>1, <1>5 DEF RebuildChecked, RebuildStep, RebuildLatched, RebuildSent, RebuildSendFails,
                      RebuildReturns, RebuildTimesOut, ResolveRebuild, TakeRebuild, backendFrame,
                      statsVars, msgVars, backendVars
<1>6. CASE \/ BackendReady \/ NoticeDeath \/ FailPendingRebuilds
           \/ StopSignal \/ ExitTimer \/ Lifespan \/ WorkerDies
    BY <1>1, <1>6 DEF BackendReady, NoticeDeath, FailPendingRebuilds, StopSignal, ExitTimer,
                      Lifespan, WorkerDies, statsVars, msgVars, backendVars
<1> QED BY <1>2, <1>3, <1>4, <1>5, <1>6 DEF Next

-----------------------------------------------------------------------------
(***************************************************************************)
(* Rebuilds and the gate.                                                  *)
(***************************************************************************)
rebuildState == <<stage, rebuildMsgs, rebuildReplies>>

\* A step that moves no rebuild.
LEMMA OutStays ==
    ASSUME UNCHANGED rebuildState
    PROVE  \A i \in Rebuild : (Out(i)' <=> Out(i)) /\ (Sent(i)' <=> Sent(i))
BY DEF Out, Sent, rebuildState

\* A step that moves no rebuild, nor what the gate depends on.
LEMMA GateStays ==
    ASSUME RebuildInv, GateInv, UNCHANGED rebuildState, gate' = gate, fatal' = fatal,
           stops' = stops, backendUp' => backendUp,
           stop' # "none" \/ sealed' # Unsealed => stops > 0
    PROVE  RebuildInv' /\ GateInv'
<1>1. \A i \in Rebuild : (Out(i)' <=> Out(i)) /\ (Sent(i)' <=> Sent(i))
    BY OutStays
<1>2. RebuildInv'
    BY <1>1 DEF RebuildInv, rebuildState
<1>3. GateInv'
    BY <1>1 DEF GateInv
<1> QED BY <1>2, <1>3

\* The check reads an open gate: no rebuild is out, not even one that timed out.
LEMMA CheckedGate ==
    ASSUME TypeInv, RebuildInv, GateInv, NEW i \in Rebuild, RebuildChecked(i)
    PROVE  RebuildInv' /\ GateInv'
<1>1. /\ gate = "serving" /\ stage[i] = "none" /\ stage' = [stage EXCEPT ![i] = "checked"]
      /\ \A j \in Rebuild : stage[j] # "checked"
      /\ UNCHANGED <<gate, fatal, stop, stops, sealed, rebuildMsgs, rebuildReplies, backendUp>>
    BY DEF RebuildChecked, LoopFree, stopVars, msgVars, backendVars
<1>2. \A j \in Rebuild : ~Out(j)
    BY <1>1 DEF RebuildInv
<1>3. stage'[i] = "checked" /\ \A j \in Rebuild \ {i} : stage'[j] = stage[j]
    BY <1>1 DEF TypeInv
<1>4. \A j \in Rebuild : ~Sent(j)' /\ (Out(j)' <=> j = i)
    BY <1>1, <1>2, <1>3 DEF Out, Sent
<1>5. RebuildInv'
    BY <1>1, <1>2, <1>3, <1>4 DEF RebuildInv, Sent
<1>6. GateInv'
    BY <1>1, <1>4 DEF GateInv
<1> QED BY <1>5, <1>6

\* The rebuild that holds the gate moves on: it shuts the gate, sends its message,
\* and is answered.
LEMMA HolderGate ==
    ASSUME TypeInv, RebuildInv, GateInv, NEW i \in Rebuild,
           RebuildLatched(i) \/ RebuildSent(i) \/ TakeRebuild(i)
    PROVE  RebuildInv' /\ GateInv'
<1>1. /\ Out(i) /\ Out(i)' /\ \A j \in Rebuild \ {i} : ~Out(j)' /\ ~Sent(j)'
      /\ UNCHANGED <<fatal, stop, stops, sealed, backendUp>>
    <2>1. Out(i)
        BY DEF RebuildLatched, RebuildSent, TakeRebuild, Out, Sent
    <2>2. \A j \in Rebuild \ {i} : ~Out(j)
        BY <2>1 DEF RebuildInv
    <2>3. Out(i)'
        BY DEF RebuildLatched, RebuildSent, TakeRebuild, Out, Sent, TypeInv, msgVars
    <2>4. ASSUME NEW j \in Rebuild \ {i} PROVE ~Out(j)' /\ ~Sent(j)'
        <3>1. CASE RebuildLatched(i)
            BY <2>2, <3>1 DEF RebuildLatched, Out, Sent, TypeInv, msgVars
        <3>2. CASE RebuildSent(i)
            BY <2>2, <3>2 DEF RebuildSent, Out, Sent, TypeInv
        <3>3. CASE TakeRebuild(i)
            BY <2>2, <3>3 DEF TakeRebuild, Out, Sent, TypeInv, backendFrame, rebuildVars
        <3> QED BY <3>1, <3>2, <3>3
    <2>5. UNCHANGED <<fatal, stop, stops, sealed, backendUp>>
        BY DEF RebuildLatched, RebuildSent, TakeRebuild, backendFrame, stopVars, backendVars
    <2> QED BY <2>1, <2>3, <2>4, <2>5
<1>2. /\ Sent(i)' => stage'[i] \in {"waiting", "done"}
      /\ i \in rebuildMsgs' => \A status \in {"ok", "failed"} : <<i, status>> \notin rebuildReplies'
      /\ ~(<<i, "ok">> \in rebuildReplies' /\ <<i, "failed">> \in rebuildReplies')
      /\ gate' # "serving" /\ (gate' = "rebuilding" \/ fatal)
    <2>1. CASE RebuildLatched(i)
        BY <2>1 DEF RebuildLatched, RebuildInv, Sent, Out, TypeInv, msgVars
    <2>2. CASE RebuildSent(i)
        <3>1. ~Sent(i) /\ gate # "serving" /\ (gate = "rebuilding" \/ fatal)
            BY <2>2 DEF RebuildSent, RebuildInv, Out
        <3> QED BY <2>2, <3>1 DEF RebuildSent, Sent, TypeInv
    <2>3. CASE TakeRebuild(i)
        <3>1. i \in rebuildMsgs /\ rebuildMsgs' = rebuildMsgs \ {i} /\ gate' = gate /\ stage' = stage
            BY <2>3 DEF TakeRebuild, backendFrame, rebuildVars
        <3>2. PICK status \in {"ok", "failed"} : rebuildReplies' = rebuildReplies \cup {<<i, status>>}
            BY <2>3 DEF TakeRebuild
        <3>3. /\ stage[i] \in {"waiting", "done"} /\ gate # "serving" /\ (gate = "rebuilding" \/ fatal)
              /\ <<i, "ok">> \notin rebuildReplies /\ <<i, "failed">> \notin rebuildReplies
            BY <1>1, <3>1 DEF RebuildInv, Sent
        <3> QED BY <3>1, <3>2, <3>3
    <2> QED BY <2>1, <2>2, <2>3
<1>3. RebuildInv'
    <2>1. ASSUME NEW j \in Rebuild, j # i
          PROVE  /\ ~Out(j)' /\ ~Sent(j)' /\ j \notin rebuildMsgs'
                 /\ <<j, "ok">> \notin rebuildReplies' /\ <<j, "failed">> \notin rebuildReplies'
        BY <1>1, <2>1 DEF Sent
    <2> QED BY <1>1, <1>2, <2>1 DEF RebuildInv
<1>4. GateInv'
    <2>1. gate' # "loading"
        <3>1. CASE gate' = gate
            BY <1>1, <3>1 DEF GateInv
        <3>2. CASE gate' = "rebuilding"
            BY <3>2
        <3> QED BY <3>1, <3>2 DEF RebuildLatched, RebuildSent, TakeRebuild, backendFrame
    <2> QED BY <1>1, <2>1 DEF GateInv
<1> QED BY <1>3, <1>4

\* The rebuild that held the gate lets go of it: it could not be sent, or its answer
\* arrives, awaited or not.
LEMMA ReleaseGate ==
    ASSUME TypeInv, RebuildInv, GateInv, NEW i \in Rebuild,
           RebuildSendFails(i) \/ \E status \in {"ok", "failed"} : ResolveRebuild(i, status)
    PROVE  RebuildInv' /\ GateInv'
<1>1. /\ Out(i) /\ gate' \in {"serving", "failed"}
      /\ \A j \in Rebuild : ~Out(j)' /\ ~Sent(j)'
      /\ UNCHANGED <<fatal, stop, stops, sealed, backendUp>>
    <2>1. CASE RebuildSendFails(i)
        <3>1. Out(i) /\ ~Sent(i) /\ \A j \in Rebuild \ {i} : ~Out(j)
            BY <2>1 DEF RebuildSendFails, RebuildInv, Out
        <3> QED BY <2>1, <3>1 DEF RebuildSendFails, Out, Sent, TypeInv, stopVars, msgVars, backendVars
    <2>2. CASE \E status \in {"ok", "failed"} : ResolveRebuild(i, status)
        <3> PICK status \in {"ok", "failed"} : ResolveRebuild(i, status)
            BY <2>2
        <3>1. /\ <<i, status>> \in rebuildReplies /\ rebuildReplies' = rebuildReplies \ {<<i, status>>}
              /\ UNCHANGED <<stage, rebuildMsgs, fatal, stop, stops, sealed, backendUp>>
              /\ gate' \in {"serving", "failed"}
            BY DEF ResolveRebuild, GateAfterReply, stopVars, backendVars
        <3>2. Sent(i) /\ Out(i)
            BY <3>1 DEF Sent, Out
        <3>3. /\ stage[i] \in {"waiting", "done"} /\ i \notin rebuildMsgs
              /\ \A other \in {"ok", "failed"} : other # status => <<i, other>> \notin rebuildReplies
              /\ \A j \in Rebuild \ {i} : ~Out(j)
            BY <3>1, <3>2 DEF RebuildInv
        <3>4. ASSUME NEW j \in Rebuild PROVE ~Out(j)' /\ ~Sent(j)'
            <4>1. CASE j = i
                BY <3>1, <3>3, <4>1 DEF Out, Sent
            <4>2. CASE j # i
                BY <3>1, <3>3, <4>2 DEF Out, Sent
            <4> QED BY <4>1, <4>2
        <3> QED BY <3>1, <3>2, <3>4
    <2> QED BY <2>1, <2>2
<1>2. RebuildInv'
    BY <1>1 DEF RebuildInv, Sent
<1>3. GateInv'
    BY <1>1 DEF GateInv
<1> QED BY <1>2, <1>3

\* A request that is answered or gives up leaves the gate to its message.
LEMMA WaiterGate ==
    ASSUME TypeInv, RebuildInv, GateInv, NEW i \in Rebuild, RebuildReturns(i) \/ RebuildTimesOut(i)
    PROVE  RebuildInv' /\ GateInv'
<1>1. /\ stage[i] = "waiting" /\ stage' = [stage EXCEPT ![i] = "done"]
      /\ UNCHANGED <<gate, fatal, stop, stops, sealed, rebuildMsgs, rebuildReplies, backendUp>>
    BY DEF RebuildReturns, RebuildTimesOut, GateAfterTimeout, stopVars, msgVars, backendVars
<1>2. stage'[i] = "done" /\ \A j \in Rebuild \ {i} : stage'[j] = stage[j]
    BY <1>1 DEF TypeInv
<1>3. \A j \in Rebuild : (Out(j)' <=> Out(j)) /\ (Sent(j)' <=> Sent(j))
    BY <1>1, <1>2 DEF Out, Sent
<1>4. RebuildInv'
    BY <1>1, <1>2, <1>3 DEF RebuildInv
<1>5. GateInv'
    BY <1>1, <1>3 DEF GateInv
<1> QED BY <1>4, <1>5

\* Stop, readiness and death: the gate is moved by others than a rebuild.
LEMMA OthersGate ==
    ASSUME TypeInv, RebuildInv, GateInv, StopBegins \/ BackendReady \/ NoticeDeath
    PROVE  RebuildInv' /\ GateInv'
<1>1. UNCHANGED rebuildState
    BY DEF StopBegins, BackendReady, NoticeDeath, rebuildState, rebuildVars, msgVars
<1>2. \A i \in Rebuild : (Out(i)' <=> Out(i)) /\ (Sent(i)' <=> Sent(i))
    BY <1>1, OutStays
<1>3. CASE StopBegins
    <2>1. /\ gate # "rebuilding" /\ \A i \in Rebuild : stage[i] # "checked"
          /\ gate' = "stopping" /\ stops' = stops + 1
          /\ UNCHANGED <<fatal, sealed, backendUp>>
        BY <1>3 DEF StopBegins, LoopFree, backendVars
    <2>2. ~fatal => \A i \in Rebuild : ~Out(i)
        BY <2>1 DEF RebuildInv
    <2>3. RebuildInv'
        BY <1>1, <1>2, <2>1, <2>2 DEF RebuildInv, rebuildState
    <2>4. GateInv'
        BY <1>2, <2>1, <2>2 DEF GateInv, TypeInv
    <2> QED BY <2>3, <2>4
<1>4. CASE BackendReady
    <2>1. CASE gate = "loading"
        <3>1. /\ gate' = "serving" /\ UNCHANGED <<fatal, stop, stops, sealed, backendUp>>
              /\ ~fatal /\ stops = 0 /\ \A i \in Rebuild : ~Out(i)
            BY <1>4, <2>1 DEF BackendReady, ReadyOpens, GateInv, stopVars, backendVars
        <3>2. RebuildInv'
            BY <1>1, <1>2, <3>1 DEF RebuildInv, rebuildState
        <3>3. GateInv'
            BY <1>2, <3>1 DEF GateInv
        <3> QED BY <3>2, <3>3
    <2>2. CASE gate # "loading"
        <3>1. UNCHANGED <<gate, fatal, stop, stops, sealed, backendUp>>
            BY <1>4, <2>2 DEF BackendReady, ReadyOpens, stopVars, backendVars
        <3>2. stop' # "none" \/ sealed' # Unsealed => stops > 0
            BY <3>1 DEF GateInv
        <3> QED BY <1>1, <3>1, <3>2, GateStays
    <2> QED BY <2>1, <2>2
<1>5. CASE NoticeDeath
    <2>1. ~backendUp /\ UNCHANGED <<stop, stops, sealed, backendUp>>
        BY <1>5 DEF NoticeDeath, stopVars, backendVars
    <2>2. CASE UNCHANGED <<gate, fatal>>
        <3>1. stop' # "none" \/ sealed' # Unsealed => stops > 0
            BY <2>1 DEF GateInv
        <3> QED BY <1>1, <2>1, <2>2, <3>1, GateStays
    <2>3. CASE fatal' = TRUE /\ gate' = "failed"
        <3>1. RebuildInv'
            BY <1>1, <1>2, <2>3 DEF RebuildInv, rebuildState
        <3>2. GateInv'
            BY <1>2, <2>1, <2>3 DEF GateInv
        <3> QED BY <3>1, <3>2
    <2> QED BY <1>5, <2>2, <2>3 DEF NoticeDeath
<1> QED BY <1>3, <1>4, <1>5

\* Every step keeps the gate and the rebuilds in order.
LEMMA NextGate ==
    ASSUME TypeInv, RebuildInv, GateInv, [Next]_vars
    PROVE  RebuildInv' /\ GateInv'
<1>1. CASE UNCHANGED vars
    <2>1. UNCHANGED <<stage, rebuildMsgs, rebuildReplies, gate, fatal, stop, stops, sealed, backendUp>>
        BY <1>1 DEF vars, rebuildVars, msgVars, stopVars, backendVars
    <2>2. UNCHANGED rebuildState /\ (stop' # "none" \/ sealed' # Unsealed => stops > 0)
        BY <2>1 DEF GateInv, rebuildState
    <2> QED BY <2>1, <2>2, GateStays
<1>2. CASE \E u \in Uid : NewUser(u) \/ RequestStep(u) \/ Disconnect(u) \/ BackendStep(u)
    <2>1. UNCHANGED <<rebuildState, gate, fatal, stops, sealed, backendUp>>
        BY <1>2 DEF RequestStep, BackendStep, NewUser, Submit, SubmitFails, Deliver, Wake, Disconnect,
                    AbortUser, TokenizeFails, TakeUser, Publish, TakeAbort, backendFrame, rebuildState,
                    rebuildVars, msgVars, stopVars, backendVars
    <2>2. stop' # "none" => stop # "none"
        BY <1>2 DEF RequestStep, BackendStep, NewUser, Submit, SubmitFails, Deliver, Wake, Disconnect,
                    AbortUser, TokenizeFails, TakeUser, Publish, TakeAbort, backendFrame, stopVars
    <2>3. stop' # "none" \/ sealed' # Unsealed => stops > 0
        BY <2>1, <2>2 DEF GateInv
    <2> QED BY <2>1, <2>3, GateStays
<1>3. CASE StopStep
    <2>1. UNCHANGED <<rebuildState, gate, fatal, stops, backendUp>> /\ stop # "none"
        BY <1>3 DEF StopStep, Seal, SealReady, DrainTimesOut, AbortsSent, BarrierTimesOut,
                    rebuildState, rebuildVars, msgVars, backendVars
    <2>2. stop' # "none" \/ sealed' # Unsealed => stops > 0
        BY <2>1 DEF GateInv
    <2> QED BY <2>1, <2>2, GateStays
<1>4. CASE \E i \in Rebuild : RebuildChecked(i) \/ RebuildStep(i) \/ TakeRebuild(i)
    BY <1>4, CheckedGate, HolderGate, ReleaseGate, WaiterGate DEF RebuildStep
<1>5. CASE FailPendingRebuilds \/ StopSignal \/ ExitTimer \/ Lifespan \/ WorkerDies
    <2>1. UNCHANGED <<rebuildState, gate, fatal, stop, stops, sealed>>
        BY <1>5 DEF FailPendingRebuilds, StopSignal, ExitTimer, Lifespan, WorkerDies, rebuildState,
                    rebuildVars, msgVars, stopVars
    <2>2. backendUp' = backendUp \/ backendUp' = FALSE
        BY <1>5 DEF FailPendingRebuilds, StopSignal, ExitTimer, Lifespan, WorkerDies, backendVars
    <2>3. stop' # "none" \/ sealed' # Unsealed => stops > 0
        BY <2>1 DEF GateInv
    <2> QED BY <2>1, <2>2, <2>3, GateStays DEF TypeInv
<1>6. CASE StopBegins \/ BackendReady \/ NoticeDeath
    BY <1>6, OthersGate
<1> QED BY <1>1, <1>2, <1>3, <1>4, <1>5, <1>6 DEF Next

-----------------------------------------------------------------------------
(***************************************************************************)
(* The seal.                                                               *)
(***************************************************************************)
\* It is a sum of the requests' own counts.
LEMMA PublishedIs ==
    /\ Published = SumOver(published, Uid) /\ Published' = SumOver(published', Uid)
    /\ published' = published => Published' = Published
<1>1. Published = SumOver(published, Uid)
    BY DEF Published, SumOver
<1>2. Published' = SumOver(published', Uid)
    BY DEF Published, SumOver, MapThenSumSet, MapThenFoldSet
<1> QED BY <1>1, <1>2

\* With nothing in flight all that was published has been counted.
LEMMA IdleIsCounted ==
    ASSUME TypeInv, RequestInv, CountInv, inflight = {}
    PROVE  total = Published
<1>1. ASSUME NEW u \in Uid
      PROVE  Delivered[u] \in Int /\ Delivered[u] = published[u]
    <2>1. /\ Known(u) /\ replies[u] \in Seq(Replies) /\ Len(replies[u]) \in Nat
          /\ published[u] \in Nat
        BY KnownCount DEF RequestInv, TypeInv
    <2>2. \A k \in 1..Len(replies[u]) : replies[u][k] = "error"
        <3>1. CASE client[u] = "none"
            <4>1. Len(replies[u]) = 0
                BY <2>1, <3>1 DEF Known, Fresh
            <4> QED BY <4>1
        <3>2. CASE client[u] # "none"
            BY <2>1, <3>2 DEF Known
        <3> QED BY <3>1, <3>2
    <2>3. 0 \in 0..Len(replies[u]) /\ IsCount(0, replies[u])
        BY <2>1, <2>2 DEF IsCount
    <2>4. Count(replies[u]) = 0
        BY <2>1, <2>3, CountIs
    <2> QED BY <2>1, <2>4, DeliveredInt
<1>2. SumOver(Delivered, Uid) = SumOver(published, Uid)
    BY <1>1, UidAssumption, SumAgree
<1> QED BY <1>2, PublishedIs DEF CountInv

\* Every step keeps the seal: after it nothing runs and nobody is admitted.
LEMMA NextSeal ==
    ASSUME TypeInv, RequestInv, CountInv, RebuildInv, GateInv, SealInv, [Next]_vars
    PROVE  SealInv'
<1>1. CASE UNCHANGED <<published, sealed>> /\ inflight' \subseteq inflight /\ (fatal => fatal')
    BY <1>1, PublishedIs DEF SealInv, SealExact
<1>2. CASE UNCHANGED vars
    BY <1>1, <1>2 DEF vars, statsVars, stopVars, backendVars
<1>3. CASE \E u \in Uid : NewUser(u) \/ RequestStep(u) \/ Disconnect(u) \/ BackendStep(u)
    <2> PICK u \in Uid : NewUser(u) \/ RequestStep(u) \/ Disconnect(u) \/ BackendStep(u)
        BY <1>3
    <2>1. CASE NewUser(u)
        <3>1. gate = "serving" /\ UNCHANGED <<published, sealed, fatal>>
            BY <2>1 DEF NewUser, stopVars, backendVars
        <3>2. sealed # Unsealed => fatal
            BY <3>1 DEF GateInv
        <3> QED BY <3>1, <3>2, PublishedIs DEF SealInv, SealExact
    <2>2. CASE Publish(u)
        <3>1. /\ backendUp /\ life[u] = "running" /\ UNCHANGED <<sealed, fatal>>
            BY <2>2 DEF Publish, backendFrame, stopVars
        <3>2. ~fatal /\ u \in inflight
            BY <3>1, RunningIsOpen DEF GateInv
        <3>3. sealed' = Unsealed
            BY <3>1, <3>2 DEF SealInv
        <3> QED BY <3>3 DEF SealInv, SealExact
    <2>3. CASE Deliver(u)
        BY <1>1, <2>3 DEF Deliver, stopVars, backendVars
    <2>4. CASE \/ Submit(u) \/ SubmitFails(u) \/ Wake(u) \/ Disconnect(u) \/ TokenizeFails(u)
               \/ TakeUser(u) \/ TakeAbort(u) \/ \E who \in {"client", "stop"} : AbortUser(u, who)
        BY <1>1, <2>4 DEF Submit, SubmitFails, Wake, Disconnect, TokenizeFails, TakeUser, TakeAbort,
                          AbortUser, backendFrame, statsVars, stopVars, backendVars
    <2> QED BY <2>1, <2>2, <2>3, <2>4 DEF RequestStep, BackendStep
<1>4. CASE Seal
    <2>1. inflight = {} /\ sealed' = total /\ UNCHANGED <<published, inflight>>
        BY <1>4 DEF Seal, SealReady, statsVars, backendVars
    <2>2. total = Published
        BY <2>1, IdleIsCounted
    <2> QED BY <2>1, <2>2, PublishedIs DEF SealInv, SealExact
<1>5. CASE StopBegins \/ DrainTimesOut \/ AbortsSent \/ BarrierTimesOut
    BY <1>1, <1>5 DEF StopBegins, DrainTimesOut, AbortsSent, BarrierTimesOut, statsVars, backendVars
<1>6. CASE \E i \in Rebuild : RebuildChecked(i) \/ RebuildStep(i) \/ TakeRebuild(i)
    BY <1>1, <1>6 DEF RebuildChecked, RebuildStep, RebuildLatched, RebuildSent, RebuildSendFails,
                      RebuildReturns, RebuildTimesOut, ResolveRebuild, TakeRebuild, backendFrame,
                      statsVars, stopVars, backendVars
<1>7. CASE \/ BackendReady \/ NoticeDeath \/ FailPendingRebuilds
           \/ StopSignal \/ ExitTimer \/ Lifespan \/ WorkerDies
    BY <1>1, <1>7 DEF BackendReady, NoticeDeath, FailPendingRebuilds, StopSignal, ExitTimer,
                      Lifespan, WorkerDies, statsVars, stopVars, backendVars
<1> QED BY <1>2, <1>3, <1>4, <1>5, <1>6, <1>7 DEF Next, StopStep

-----------------------------------------------------------------------------
(***************************************************************************)
(* The theorems.                                                           *)
(***************************************************************************)
LEMMA InitIInv ==
    ASSUME Init
    PROVE  IInv
<1> USE DEF Init
<1>1. TypeInv
    <2>1. sealed \in Int /\ total \in Int /\ stops \in Nat
        BY DEF Unsealed
    <2>2. replies \in [Uid -> Seq(Replies)]
        OBVIOUS
    <2>3. /\ client \in [Uid -> {"none", "submitting", "waiting", "ended"}]
          /\ abortTasks \in [Uid -> SUBSET {"client", "stop"}]
          /\ stage \in [Rebuild -> {"none", "checked", "sending", "waiting", "done"}]
          /\ life \in [Uid -> {"none", "running", "ended"}]
          /\ published \in [Uid -> Nat]
        OBVIOUS
    <2> QED BY <2>1, <2>2, <2>3 DEF TypeInv
<1>2. RequestInv
    BY DEF RequestInv, Known, Fresh
<1>3. CountInv
    <2>1. ASSUME NEW u \in Uid PROVE Delivered[u] = 0
        <3>1. Count(<<>>) = 0
            <4>1. <<>> \in Seq(Replies) /\ 0 \in 0..Len(<<>>) /\ IsCount(0, <<>>)
                BY DEF IsCount
            <4> QED BY <4>1, CountIs
        <3>2. published[u] = 0 /\ replies[u] = <<>>
            OBVIOUS
        <3> HIDE DEF Init
        <3>3. Delivered[u] = published[u] - Count(replies[u])
            BY DEF Delivered
        <3> QED BY <3>1, <3>2, <3>3
    <2>2. SumOver(Delivered, Uid) = 0
        BY <2>1, UidAssumption, SumZero
    <2> QED BY <2>2 DEF CountInv
<1>4. \A i \in Rebuild : ~Sent(i) /\ ~Out(i)
    BY DEF Sent, Out
<1>5. RebuildInv
    BY <1>4 DEF RebuildInv, Sent
<1>6. GateInv
    BY <1>4 DEF GateInv
<1>7. SealInv
    BY DEF SealInv, SealExact
<1> QED BY <1>1, <1>2, <1>3, <1>5, <1>6, <1>7 DEF IInv

LEMMA NextIInv ==
    ASSUME IInv, [Next]_vars
    PROVE  IInv'
<1> USE DEF IInv
<1>1. TypeInv'
    BY NextType
<1>2. RequestInv'
    BY NextRequest
<1>3. CountInv'
    BY <1>1, <1>2, NextCount
<1>4. RebuildInv' /\ GateInv'
    BY NextGate
<1>5. SealInv'
    BY NextSeal
<1> QED BY <1>1, <1>2, <1>3, <1>4, <1>5

\* Types, what is known of each request, the count of its replies, the holder of the
\* gate, where the gate stands, and the seal, in every state.
THEOREM FrontendInvariant == Spec => []IInv
<1>1. Init => IInv
    BY InitIInv
<1>2. IInv /\ [Next]_vars => IInv'
    BY NextIInv
<1> QED BY <1>1, <1>2, PTL DEF Spec

(***************************************************************************)
(* The receipt of prepare-stop is exact (server/accounting.py:1-8): the    *)
(* total that is sealed is all the backend has published and will publish, *)
(* for any number of requests, replies and retries of the stop, with       *)
(* aborts that overtake requests, clients that leave, and failing sends.   *)
(***************************************************************************)
THEOREM SealIsExact == Spec => []SealExact
<1>1. IInv => SealExact
    BY DEF IInv, SealInv
<1> QED BY <1>1, FrontendInvariant, PTL

(***************************************************************************)
(* The scheduler never has two rebuilds to answer (scheduler.py:728), for  *)
(* any number of rebuild requests that time out, fail to be sent or are    *)
(* answered late.                                                          *)
(***************************************************************************)
THEOREM OneRebuildOut == Spec => []OneRebuild
<1>1. IInv => OneRebuild
    <2> SUFFICES ASSUME IInv PROVE OneRebuild
        OBVIOUS
    <2>1. Cardinality({}) = 0 /\ \A x : Cardinality({x}) = 1
        BY FS_EmptySet, FS_Singleton
    <2>2. /\ rebuildMsgs \subseteq Rebuild
          /\ \A x \in rebuildReplies : \E i \in Rebuild, status \in {"ok", "failed"} : x = <<i, status>>
        BY DEF IInv, TypeInv
    <2>3. CASE \A i \in Rebuild : ~Sent(i)
        <3>1. rebuildMsgs = {} /\ rebuildReplies = {}
            BY <2>3, <2>2 DEF Sent
        <3> QED BY <2>1, <3>1 DEF OneRebuild
    <2>4. CASE \E i \in Rebuild : Sent(i)
        <3> PICK i \in Rebuild : Sent(i)
            BY <2>4
        <3>1. \A j \in Rebuild : Sent(j) => j = i
            BY DEF IInv, RebuildInv, Out
        <3>2. CASE i \in rebuildMsgs
            <4>1. rebuildMsgs = {i} /\ rebuildReplies = {}
                BY <2>2, <3>1, <3>2 DEF IInv, RebuildInv, Sent
            <4> QED BY <2>1, <4>1 DEF OneRebuild
        <3>3. ASSUME NEW status \in {"ok", "failed"}, <<i, status>> \in rebuildReplies
              PROVE  OneRebuild
            <4>1. rebuildMsgs = {}
                BY <3>1, <3>3 DEF IInv, TypeInv, RebuildInv, Sent
            <4>2. rebuildReplies = {<<i, status>>}
                <5>1. ASSUME NEW other \in {"ok", "failed"}, <<i, other>> \in rebuildReplies
                      PROVE  other = status
                    BY <3>3, <5>1 DEF IInv, RebuildInv
                <5>2. ASSUME NEW x \in rebuildReplies PROVE x = <<i, status>>
                    <6>1. PICK j \in Rebuild, other \in {"ok", "failed"} : x = <<j, other>>
                        BY <2>2
                    <6>2. j = i
                        BY <3>1, <6>1 DEF Sent
                    <6> QED BY <5>1, <6>1, <6>2
                <5> QED BY <3>3, <5>2
            <4> QED BY <2>1, <4>1, <4>2 DEF OneRebuild
        <3> QED BY <3>2, <3>3 DEF Sent
    <2> QED BY <2>3, <2>4
<1> QED BY <1>1, FrontendInvariant, PTL

(***************************************************************************)
(* No late rebuild reply and no readiness opens the gate once the totals   *)
(* are sealed or a worker's death is noticed (api_server.py:267, 984); only *)
(* a rebuild whose dispatch fails does.                                    *)
(***************************************************************************)
THEOREM GateStaysShut == Spec => GateShut
<1> DEFINE Opens == gate # "serving" /\ gate' = "serving" =>
                        \/ sealed = Unsealed /\ ~fatal
                        \/ \E i \in Rebuild : RebuildSendFails(i)
<1>1. IInv /\ [Next]_vars => [Opens]_vars
    <2> SUFFICES ASSUME IInv, Next, gate # "serving", gate' = "serving",
                        \A i \in Rebuild : ~RebuildSendFails(i)
                 PROVE  sealed = Unsealed /\ ~fatal
        OBVIOUS
    <2>1. stops > 0 \/ (sealed = Unsealed)
        BY DEF IInv, GateInv
    <2>2. CASE BackendReady
        <3>1. gate = "loading"
            BY <2>2 DEF BackendReady, ReadyOpens
        <3> QED BY <2>1, <3>1 DEF IInv, GateInv
    <2>3. CASE \E i \in Rebuild, status \in {"ok", "failed"} : ResolveRebuild(i, status)
        <3> PICK i \in Rebuild, status \in {"ok", "failed"} : ResolveRebuild(i, status)
            BY <2>3
        <3>1. ~fatal /\ Out(i)
            BY DEF ResolveRebuild, GateAfterReply, Out, Sent
        <3> QED BY <2>1, <3>1 DEF IInv, GateInv
    <2>4. CASE gate' = gate \/ gate' \in {"stopping", "rebuilding", "failed"}
        BY <2>4
    <2>5. CASE \E u \in Uid : NewUser(u) \/ RequestStep(u) \/ Disconnect(u) \/ BackendStep(u)
        BY <2>4, <2>5 DEF RequestStep, BackendStep, NewUser, Submit, SubmitFails, Deliver, Wake,
                          Disconnect, AbortUser, TokenizeFails, TakeUser, Publish, TakeAbort, backendFrame
    <2>6. CASE StopBegins \/ StopStep
        BY <2>4, <2>6 DEF StopBegins, StopStep, Seal, DrainTimesOut, AbortsSent, BarrierTimesOut
    <2>7. CASE \E i \in Rebuild : RebuildChecked(i) \/ RebuildStep(i) \/ TakeRebuild(i)
        BY <2>3, <2>4, <2>7 DEF RebuildStep, RebuildChecked, RebuildLatched, RebuildSent,
                                RebuildReturns, RebuildTimesOut, GateAfterTimeout, TakeRebuild, backendFrame
    <2>8. CASE NoticeDeath \/ FailPendingRebuilds \/ StopSignal \/ ExitTimer \/ Lifespan \/ WorkerDies
        BY <2>4, <2>8 DEF NoticeDeath, FailPendingRebuilds, StopSignal, ExitTimer, Lifespan, WorkerDies
    <2> QED BY <2>2, <2>5, <2>6, <2>7, <2>8 DEF Next
<1>2. Spec => [][Opens]_vars
    BY <1>1, FrontendInvariant, PTL DEF Spec
<1> QED BY <1>2 DEF GateShut

=============================================================================
