-------------------------- MODULE SchedulerProofs --------------------------
(***************************************************************************)
(* Theorems about Scheduler, for every number of requests, pages, slots    *)
(* and aborts.  All of them follow from one inductive invariant, IInv,     *)
(* stated in the named parts below, and those on pages from PageInv.       *)
(***************************************************************************)
EXTENDS Scheduler, FiniteSums, SequenceTheorems

\* In the queue s, no request of C comes after one that is not of C.
Ordered(s, C) == \A i, j \in 1..Len(s) : i < j /\ s[j] \in C => s[i] \in C

(***************************************************************************)
(* The inductive invariant.                                                *)
(***************************************************************************)

\* The requests the prefill manager holds, the pass's continuations included.
Waiting == ToSet(pending) \cup ToSet(chunkedList)

\* The requests of a batch that are sampled: all but the chunks.
Sampled(b) == b.reqs \ b.chunks

\* The batch of this iteration, if it stays in flight when the iteration ends.
Staying == IF Overlap THEN batch.reqs ELSE {}

\* A request is queued once, and is waiting or running, never both; a chunk in
\* progress belongs to a waiting request.
QueueInv ==
    /\ IsInjective(pending) /\ IsInjective(chunkedList)
    /\ ToSet(pending) \cap ToSet(chunkedList) = {}
    /\ pc # "admit" => chunkedList = <<>>
    /\ ToSet(chunkedList) \subseteq chunked
    /\ chunked \subseteq Waiting
    /\ running \cap Waiting = {}
    /\ Waiting \cup running \subseteq received

\* A batch outside the prefill queue: only chunks are queued again.
BatchInv ==
    /\ pc \in {"idle", "poll"} => batch = NoBatch
    /\ pc \in {"idle", "poll", "drain"} => prompts = {} /\ unallocated = {}
    /\ pc # "drain" => todo = {} /\ newFinished = {}
    /\ ~Overlap => lastData = NoBatch
    /\ todo \subseteq Draining.reqs /\ newFinished \subseteq Draining.reqs
    /\ batch.reqs \cup lastData.reqs \subseteq received
    /\ batch.chunks \subseteq batch.reqs /\ lastData.chunks \subseteq lastData.reqs
    /\ prompts \cup unallocated \subseteq batch.reqs
    /\ pc = "admit" => /\ batch.reqs \cap ToSet(pending) = {}
                       /\ ToSet(chunkedList) \subseteq batch.chunks
    /\ Sampled(batch) \cap Waiting = {} /\ Sampled(lastData) \cap Waiting = {}
    /\ batch.chunks \subseteq chunked
    /\ lastData.chunks \subseteq aborted \cup chunked \cup batch.reqs

\* Who has a slot: exactly the requests in mid-prompt or running, and those
\* whose last forward is still in flight.
SeatInv ==
    /\ chunked \cup running \subseteq seated
    /\ seated \cap Waiting \subseteq chunked
    /\ pc # "drain" => seated \subseteq chunked \cup running \cup lastData.reqs \cup batch.reqs
    /\ pc = "drain" => seated \subseteq chunked \cup running \cup todo \cup Staying
    /\ pc # "drain" => batch.reqs \subseteq seated
    /\ pc # "drain" => lastData.reqs \subseteq seated \cup finished
    /\ pc = "drain" => Staying \subseteq seated \cup newFinished
    /\ aborted \subseteq received
    /\ aborted \cap (Waiting \cup running \cup batch.reqs) = {}
    /\ finished \cup newFinished \subseteq received
    /\ (finished \cup newFinished) \cap (seated \cup Waiting \cup running) = {}
    /\ finished \cap batch.reqs = {}

\* The samples launched and not drained: of the batch being drained, and of the
\* batch launched by this iteration when it stays in flight.
Oldest == IF pc = "drain" THEN todo \ Draining.chunks ELSE Sampled(lastData)
Newest == IF pc = "drain" /\ Overlap THEN Sampled(batch) ELSE {}

\* The requests whose host buffer is past the prompt's end.
Live == running \cup Oldest \cup (IF pc = "drain" THEN Newest ELSE Sampled(batch))

\* A chunk stays within its prompt; the device runs ahead of the host by the
\* samples in flight; a running request has output left, and one that left the
\* decode set by itself has its last sample in flight.
LengthInv ==
    /\ \A u \in Uid : cachedLen[u] <= deviceLen[u]
    /\ \A u \in chunked : cachedLen[u] <= inputLen[u]
    /\ pc # "drain" => \A u \in batch.chunks : deviceLen[u] <= inputLen[u]
    /\ \A u \in Live : deviceLen[u] = hostLen[u] + (IF u \in Oldest THEN 1 ELSE 0)
                                                 + (IF u \in Newest THEN 1 ELSE 0)
    /\ \A u \in running : deviceLen[u] < MaxDeviceLen(u)
    /\ \A u \in Oldest \ (running \cup aborted \cup finished \cup Newest) :
           deviceLen[u] >= MaxDeviceLen(u)
    /\ \A u \in Newest \ (running \cup newFinished) : deviceLen[u] >= MaxDeviceLen(u)

\* A request that had its terminal reply, or is about to be acknowledged, is in
\* no queue, and what is still in flight for it will be skipped.
ReplyInv ==
    /\ \A u \in Uid : ended[u] # {} => u \in (received \cup tombstones) \ (Waiting \cup running)
    /\ \A u \in acks : u \in (received \cup tombstones) \ (Waiting \cup running \cup batch.reqs)
    /\ pc # "drain" => \A u \in batch.reqs : ended[u] = {}
    /\ pc # "drain" => \A u \in lastData.reqs \ finished : ended[u] = {}
    /\ \A u \in todo \ finished : ended[u] = {}
    /\ pc = "drain" => \A u \in Staying \ newFinished : ended[u] = {}

\* What was published so far.
CountInv ==
    /\ \A u \in Uid : u \notin received => admits[u] = 0 /\ tokens[u] = 0
    /\ \A u \in Waiting \ chunked : admits[u] = 0
    /\ \A u \in chunked \cup running \cup batch.reqs \cup lastData.reqs :
           admits[u] = IF u \in prompts THEN 0 ELSE 1
    /\ \A u \in Waiting : tokens[u] = 0
    /\ \A u \in Live : hostLen[u] = inputLen[u] + tokens[u]
    /\ \A u \in Waiting \cup Live : ended[u] = {} => tokens[u] < outputLen[u]

\* The inductive invariant: type correctness, the parts above, and the invariants
\* they support.
IInv == /\ TypeOK /\ QueueInv /\ BatchInv /\ SeatInv /\ LengthInv /\ ReplyInv /\ CountInv
        /\ SlotConservation /\ OutputExact /\ AdmittedOnce /\ ContinuationsFirst

-----------------------------------------------------------------------------
(***************************************************************************)
(* Lemmas about the operators of the model.                                *)
(***************************************************************************)

\* The chunk size min(token_budget, remain_len) is one of the two and at most
\* either.
LEMMA MinOfTwo ==
    ASSUME NEW a \in Int, NEW b \in Int
    PROVE  /\ Min({a, b}) \in {a, b}
           /\ Min({a, b}) <= a /\ Min({a, b}) <= b
<1>1. \E x \in {a, b} : \A y \in {a, b} : x <= y
    <2>1. CASE a <= b BY <2>1
    <2>2. CASE ~(a <= b) BY <2>2
    <2> QED BY <2>1, <2>2
<1> QED BY <1>1 DEF Min

\* div_ceil of a length is a number of pages, and grows with the length.
LEMMA PagesMonotone ==
    ASSUME NEW m \in Nat, NEW n \in Nat, m <= n
    PROVE  Pages(m) \in Nat /\ Pages(n) \in Nat /\ Pages(m) <= Pages(n)
BY SizesAssumption DEF Pages

\* The requests of a queue.
LEMMA ElementsOfQueue ==
    ASSUME NEW S, NEW s \in Seq(S)
    PROVE  /\ ToSet(s) \subseteq S /\ \A i \in 1..Len(s) : s[i] \in ToSet(s)
           /\ ToSet(s) = {} <=> s = <<>>
<1>1. DOMAIN s = 1..Len(s) /\ Len(s) \in Nat /\ \A i \in 1..Len(s) : s[i] \in S
    OBVIOUS
<1>2. ToSet(s) \subseteq S /\ \A i \in 1..Len(s) : s[i] \in ToSet(s)
    BY <1>1 DEF ToSet
<1>3. ASSUME s # <<>> PROVE ToSet(s) # {}
    <2>1. 1 \in 1..Len(s) BY <1>1, <1>3
    <2> QED BY <1>2, <2>1
<1>4. ASSUME s = <<>> PROVE ToSet(s) = {}
    BY <1>4 DEF ToSet
<1> QED BY <1>2, <1>3, <1>4

\* Removing the head of the queue.
LEMMA TailOfQueue ==
    ASSUME NEW S, NEW s \in Seq(S), s # <<>>, IsInjective(s)
    PROVE  /\ Head(s) \in S /\ Head(s) \in ToSet(s)
           /\ Tail(s) \in Seq(S) /\ IsInjective(Tail(s))
           /\ ToSet(Tail(s)) = ToSet(s) \ {Head(s)}
<1>1. /\ Head(s) = s[1] /\ Tail(s) \in Seq(S) /\ Len(Tail(s)) = Len(s) - 1
      /\ \A i \in 1..Len(Tail(s)) : Tail(s)[i] = s[i + 1]
    OBVIOUS
<1>2. /\ DOMAIN s = 1..Len(s) /\ Len(s) \in Nat \ {0}
      /\ DOMAIN Tail(s) = 1..Len(Tail(s)) /\ \A i \in 1..Len(s) : s[i] \in S
    BY <1>1
<1>3. Head(s) \in S /\ Head(s) \in ToSet(s)
    BY <1>1, <1>2 DEF ToSet
<1>4. IsInjective(Tail(s))
    BY <1>1, <1>2 DEF IsInjective
<1>5. ToSet(Tail(s)) \subseteq ToSet(s) \ {Head(s)}
    BY <1>1, <1>2 DEF ToSet, IsInjective
<1>6. ASSUME NEW x \in ToSet(s) \ {Head(s)}
      PROVE  x \in ToSet(Tail(s))
    <2>1. PICK i \in 1..Len(s) : x = s[i] BY <1>2 DEF ToSet
    <2>2. i # 1 BY <1>1, <1>6, <2>1
    <2>3. i - 1 \in 1..Len(Tail(s)) /\ Tail(s)[i - 1] = x BY <1>1, <1>2, <2>1, <2>2
    <2> QED BY <1>2, <2>3 DEF ToSet
<1> QED BY <1>1, <1>3, <1>4, <1>5, <1>6

\* Appending a request that is not queued.
LEMMA AppendToQueue ==
    ASSUME NEW S, NEW s \in Seq(S), NEW e \in S, e \notin ToSet(s), IsInjective(s)
    PROVE  /\ Append(s, e) \in Seq(S) /\ IsInjective(Append(s, e))
           /\ ToSet(Append(s, e)) = ToSet(s) \cup {e}
BY DEF ToSet, IsInjective

\* Putting one queue before another that shares no request with it.
LEMMA ConcatQueues ==
    ASSUME NEW S, NEW s \in Seq(S), NEW t \in Seq(S), IsInjective(s), IsInjective(t),
           ToSet(s) \cap ToSet(t) = {}
    PROVE  /\ s \o t \in Seq(S) /\ IsInjective(s \o t)
           /\ ToSet(s \o t) = ToSet(s) \cup ToSet(t)
<1>1. /\ s \o t \in Seq(S) /\ Len(s \o t) = Len(s) + Len(t)
      /\ \A i \in 1..Len(s \o t) :
             (s \o t)[i] = IF i <= Len(s) THEN s[i] ELSE t[i - Len(s)]
    BY ConcatProperties
<1>2. /\ DOMAIN s = 1..Len(s) /\ DOMAIN t = 1..Len(t)
      /\ DOMAIN (s \o t) = 1..Len(s \o t) /\ Len(s) \in Nat /\ Len(t) \in Nat
    BY <1>1
<1>3. \A i \in 1..Len(t) : i + Len(s) \in 1..Len(s \o t) /\ (s \o t)[i + Len(s)] = t[i]
    BY <1>1, <1>2
<1>4. ToSet(s \o t) = ToSet(s) \cup ToSet(t)
    <2>1. ToSet(s) \subseteq ToSet(s \o t) BY <1>1, <1>2 DEF ToSet
    <2>2. ToSet(t) \subseteq ToSet(s \o t) BY <1>2, <1>3 DEF ToSet
    <2>3. ToSet(s \o t) \subseteq ToSet(s) \cup ToSet(t) BY <1>1, <1>2 DEF ToSet
    <2> QED BY <2>1, <2>2, <2>3
<1>5. IsInjective(s \o t)
    <2>1. SUFFICES ASSUME NEW i \in 1..Len(s \o t), NEW j \in 1..Len(s \o t),
                          (s \o t)[i] = (s \o t)[j]
                   PROVE  i = j
        BY <1>2 DEF IsInjective
    <2>2. CASE i <= Len(s) /\ j <= Len(s) BY <1>1, <1>2, <2>1, <2>2 DEF IsInjective
    <2>3. CASE i > Len(s) /\ j > Len(s)
        <3>1. i - Len(s) \in 1..Len(t) /\ j - Len(s) \in 1..Len(t) BY <1>1, <1>2, <2>3
        <3> QED BY SMTT(60), <1>1, <1>2, <2>1, <2>3, <3>1 DEF IsInjective
    <2>4. CASE i <= Len(s) /\ j > Len(s)
        <3>1. i \in 1..Len(s) /\ j - Len(s) \in 1..Len(t) BY <1>1, <1>2, <2>4
        <3>2. s[i] = t[j - Len(s)] BY <1>1, <1>2, <2>1, <2>4
        <3> QED BY <1>2, <3>1, <3>2 DEF ToSet
    <2>5. CASE i > Len(s) /\ j <= Len(s)
        <3>1. j \in 1..Len(s) /\ i - Len(s) \in 1..Len(t) BY <1>1, <1>2, <2>5
        <3>2. s[j] = t[i - Len(s)] BY <1>1, <1>2, <2>1, <2>5
        <3> QED BY <1>2, <3>1, <3>2 DEF ToSet
    <2> QED BY <1>1, <1>2, <2>2, <2>3, <2>4, <2>5
<1> QED BY <1>1, <1>4, <1>5

\* An abort takes its request out of pending_list, and leaves the others in order.
LEMMA RemoveFromQueue ==
    ASSUME NEW S, NEW s \in Seq(S), IsInjective(s), NEW e
    PROVE  /\ RemoveFirst(s, e) \in Seq(S) /\ IsInjective(RemoveFirst(s, e))
           /\ ToSet(RemoveFirst(s, e)) = ToSet(s) \ {e}
           /\ \A C : Ordered(s, C) => Ordered(RemoveFirst(s, e), C)
<1>1. Len(s) \in Nat /\ DOMAIN s = 1..Len(s) /\ \A i \in 1..Len(s) : s[i] \in S
    OBVIOUS
<1> DEFINE r == RemoveFirst(s, e)
<1>2. CASE e \notin ToSet(s)
    <2>1. ~ \E i \in 1..Len(s) : s[i] = e BY <1>1, <1>2 DEF ToSet
    <2>2. r = s BY <2>1 DEF RemoveFirst
    <2> QED BY <1>2, <2>2
<1>3. CASE e \in ToSet(s)
    <2>1. PICK k \in 1..Len(s) : s[k] = e BY <1>1, <1>3 DEF ToSet
    <2>2. {i \in 1..Len(s) : s[i] = e} = {k} BY <1>1, <2>1 DEF IsInjective
    <2>3. Min({k}) = k BY <2>1 DEF Min
    <2>4. r = RemoveAt(s, k) BY <2>1, <2>2, <2>3 DEF RemoveFirst, SelectInSeq
    <2> DEFINE a == SubSeq(s, 1, k - 1)  b == SubSeq(s, k + 1, Len(s))
    <2>5. r = a \o b BY <2>4 DEF RemoveAt
    <2>6. /\ a \in Seq(S) /\ Len(a) = k - 1 /\ \A i \in 1..(k - 1) : a[i] = s[i]
          /\ b \in Seq(S) /\ Len(b) = Len(s) - k /\ \A i \in 1..(Len(s) - k) : b[i] = s[i + k]
        <3>1. /\ 1 \in Int /\ k - 1 \in Int /\ k + 1 \in Int /\ Len(s) \in Int
              /\ \A i \in 1..(k - 1) : s[i] \in S
              /\ \A i \in (k + 1)..Len(s) : s[i] \in S
            BY <1>1, <2>1
        <3>2. /\ a \in Seq(S)
              /\ Len(a) = IF 1 <= k - 1 THEN (k - 1) - 1 + 1 ELSE 0
              /\ \A i \in 1..(k - 1) - 1 + 1 : a[i] = s[1 + i - 1]
            BY <3>1, SubSeqProperties
        <3>3. /\ b \in Seq(S)
              /\ Len(b) = IF k + 1 <= Len(s) THEN Len(s) - (k + 1) + 1 ELSE 0
              /\ \A i \in 1..Len(s) - (k + 1) + 1 : b[i] = s[(k + 1) + i - 1]
            BY <3>1, SubSeqProperties
        <3> HIDE DEF a, b
        <3>4. Len(a) = k - 1 /\ Len(b) = Len(s) - k
            <4>1. k \in Nat /\ 1 <= k /\ k <= Len(s) /\ Len(s) \in Nat
                BY <1>1, <2>1
            <4>2. Len(a) = k - 1
                BY ONLY <3>2, <4>1
            <4>3. Len(b) = Len(s) - k
                BY ONLY <3>3, <4>1
            <4> QED BY <4>2, <4>3
        <3>5. ASSUME NEW i \in 1..(k - 1)
              PROVE  a[i] = s[i]
            <4>1. i \in 1..(k - 1) - 1 + 1 /\ 1 + i - 1 = i
                BY <2>1
            <4> QED BY <4>1, <3>2
        <3>6. ASSUME NEW i \in 1..(Len(s) - k)
              PROVE  b[i] = s[i + k]
            <4>1. i \in 1..Len(s) - (k + 1) + 1 /\ (k + 1) + i - 1 = i + k
                BY <1>1, <2>1
            <4> QED BY <4>1, <3>3
        <3> QED BY <3>2, <3>3, <3>4, <3>5, <3>6
    <2>7. /\ r \in Seq(S) /\ Len(r) = Len(s) - 1
          /\ \A i \in 1..Len(r) : r[i] = IF i < k THEN s[i] ELSE s[i + 1]
        <3> HIDE DEF r, a, b
        <3>1. /\ r \in Seq(S) /\ Len(r) = Len(s) - 1
              /\ \A i \in 1..(Len(s) - 1) :
                     r[i] = IF i <= k - 1 THEN a[i] ELSE b[i - (k - 1)]
            <4>1. Len(a) + Len(b) = Len(s) - 1 BY <1>1, <2>1, <2>6
            <4>2. /\ a \o b \in Seq(S) /\ Len(a \o b) = Len(a) + Len(b)
                  /\ \A i \in 1..(Len(a) + Len(b)) :
                         (a \o b)[i] = IF i <= Len(a) THEN a[i] ELSE b[i - Len(a)]
                BY <2>6, ConcatProperties
            <4>3. Len(a) = k - 1 BY <2>6
            <4> QED BY <2>5, <4>1, <4>2, <4>3
        <3>2. ASSUME NEW i \in 1..(Len(s) - 1), i < k
              PROVE  r[i] = s[i]
            <4>1. i \in 1..(k - 1) /\ i <= k - 1 BY <1>1, <2>1, <3>2
            <4>2. r[i] = a[i] BY <3>1, <4>1
            <4> QED BY <2>6, <4>1, <4>2
        <3>3. ASSUME NEW i \in 1..(Len(s) - 1), ~(i < k)
              PROVE  r[i] = s[i + 1]
            <4>1. i - (k - 1) \in 1..(Len(s) - k) /\ ~(i <= k - 1) BY <1>1, <2>1, <3>3
            <4>2. r[i] = b[i - (k - 1)] BY <3>1, <4>1
            <4>3. b[i - (k - 1)] = s[(i - (k - 1)) + k] BY <2>6, <4>1
            <4> QED BY <1>1, <2>1, <4>2, <4>3
        <3> QED BY <1>1, <2>1, <3>1, <3>2, <3>3
    <2> HIDE DEF r, a, b
    <2>8. DOMAIN r = 1..Len(r) BY <2>7
    <2>9. IsInjective(r) BY SMTT(60), <1>1, <2>1, <2>7, <2>8 DEF IsInjective
    <2>10. ToSet(r) = ToSet(s) \ {e}
        <3>1. ASSUME NEW x \in ToSet(r) PROVE x \in ToSet(s) \ {e}
            <4>1. PICK i \in 1..Len(r) : x = r[i] BY <2>8 DEF ToSet
            <4>2. PICK j \in 1..Len(s) : j # k /\ x = s[j] BY <1>1, <2>1, <2>7, <4>1
            <4> QED BY <1>1, <2>1, <4>2 DEF ToSet, IsInjective
        <3>2. ASSUME NEW x \in ToSet(s) \ {e} PROVE x \in ToSet(r)
            <4>1. PICK i \in 1..Len(s) : x = s[i] BY <1>1 DEF ToSet
            <4>2. CASE i < k
                <5>1. i \in 1..Len(r) /\ r[i] = x BY <1>1, <2>1, <2>7, <4>1, <4>2
                <5> QED BY <2>8, <5>1 DEF ToSet
            <4>3. CASE i > k
                <5>1. i - 1 \in 1..Len(r) /\ r[i - 1] = x BY <1>1, <2>1, <2>7, <4>1, <4>3
                <5> QED BY <2>8, <5>1 DEF ToSet
            <4> QED BY <2>1, <3>2, <4>1, <4>2, <4>3
        <3> QED BY <3>1, <3>2
    <2>11. \A C : Ordered(s, C) => Ordered(r, C)
        <3>1. SUFFICES ASSUME NEW C, Ordered(s, C),
                              NEW i \in 1..Len(r), NEW j \in 1..Len(r), i < j, r[j] \in C
                       PROVE  r[i] \in C
            BY DEF Ordered
        <3> DEFINE at(n) == IF n < k THEN n ELSE n + 1
        <3>2. /\ at(i) \in 1..Len(s) /\ at(j) \in 1..Len(s) /\ at(i) < at(j)
              /\ r[i] = s[at(i)] /\ r[j] = s[at(j)]
            BY <1>1, <2>1, <2>7, <3>1
        <3> QED BY <3>1, <3>2 DEF Ordered
    <2> QED BY <2>7, <2>9, <2>10, <2>11 DEF r
<1> QED BY <1>2, <1>3


\* div_ceil never goes below zero pages, so what a finishing request returns is
\* a number of pages; a freed request is left alone.
LEMMA FreeEffect ==
    ASSUME TypeOK, SlotConservation, NEW u \in Uid, Free(u)
    PROVE  /\ seated' = seated \ {u}
           /\ freeSlots' \in Nat /\ freePages' \in Nat /\ rowPages' \in [Uid -> Nat]
           /\ SlotConservation'
<1>1. IsFiniteSet(seated) /\ Cardinality(seated) \in Nat
    BY UidAssumption, FS_Subset, FS_CardinalityType DEF TypeOK
<1>2. CASE u \in seated
    <2>1. Cardinality(seated \ {u}) = Cardinality(seated) - 1 BY <1>1, <1>2, FS_RemoveElement
    <2>2. Pages(cachedLen[u]) \in Nat BY PagesMonotone DEF TypeOK
    <2>3. /\ seated' = seated \ {u} /\ freeSlots' = freeSlots + 1
          /\ freePages' = freePages + Pages(cachedLen[u])
          /\ rowPages' = [rowPages EXCEPT ![u] = 0]
        BY <1>2 DEF Free, PaddedTail
    <2>4. freePages' \in Nat /\ rowPages' \in [Uid -> Nat] BY SMTT(60), <2>2, <2>3 DEF TypeOK
    <2>5. freeSlots' \in Nat /\ SlotConservation'
        BY <1>1, <2>1, <2>3 DEF TypeOK, SlotConservation
    <2> QED BY <2>3, <2>4, <2>5
<1>3. CASE u \notin seated
    BY <1>3 DEF TypeOK, SlotConservation, Free, poolVars
<1> QED BY <1>2, <1>3

-----------------------------------------------------------------------------
(***************************************************************************)
(* IInv holds initially, and every step preserves it.                      *)
(***************************************************************************)
\* An idle scheduler satisfies the strengthened invariant.
LEMMA InitIInv == Init => IInv
<1> SUFFICES ASSUME Init PROVE IInv OBVIOUS
<1>1. ToSet(pending) = {} /\ ToSet(chunkedList) = {}
    BY DEF Init, ToSet
<1>2. TypeOK BY SizesAssumption DEF Init, TypeOK, NoBatch, Batches
<1>3. QueueInv BY <1>1 DEF Init, QueueInv, Waiting, IsInjective
<1>4. BatchInv BY <1>1 DEF Init, BatchInv, NoBatch, Sampled, Waiting
<1>5. SeatInv BY DEF Init, SeatInv, NoBatch
<1>6. LengthInv BY <1>1 DEF Init, LengthInv, Live, Oldest, Newest, Sampled, NoBatch
<1>7. ReplyInv BY DEF Init, ReplyInv, NoBatch
<1>8. CountInv BY <1>1 DEF Init, CountInv, Waiting, Live, Oldest, Newest, Sampled, NoBatch
<1>9. SlotConservation BY SizesAssumption, FS_EmptySet DEF Init, SlotConservation
<1>10. OutputExact /\ AdmittedOnce /\ ContinuationsFirst
    BY DEF Init, OutputExact, AdmittedOnce, ContinuationsFirst
<1> QED BY <1>2, <1>3, <1>4, <1>5, <1>6, <1>7, <1>8, <1>9, <1>10 DEF IInv

\* A late request whose abort came first is swallowed with its tombstone: the
\* invariant survives (_process_one_msg, abort_before_start).
LEMMA DropUserStep ==
    ASSUME IInv, NEW u \in Uid, DropUser(u)
    PROVE  IInv'
<1> USE DEF IInv, DropUser, Listening, queueVars, lenVars, poolVars, passVars, batchVars, replyVars, rebuildVars
<1>1. TypeOK' BY DEF TypeOK
<1>2. QueueInv' BY DEF QueueInv, Waiting
<1>3. BatchInv' BY DEF BatchInv, Waiting, Sampled, Draining
<1>4. SeatInv' BY DEF SeatInv, Waiting
<1>5. LengthInv' BY DEF LengthInv, Live, Oldest, Newest, Sampled, MaxDeviceLen
<1>6. ReplyInv' BY DEF ReplyInv, Waiting, QueueInv, BatchInv, Tombstoned
<1>7. CountInv' BY DEF CountInv, Waiting, Live, Oldest, Newest, Sampled, QueueInv
<1>8. SlotConservation' /\ OutputExact' /\ AdmittedOnce' /\ ContinuationsFirst'
    BY DEF SlotConservation, OutputExact, AdmittedOnce, ContinuationsFirst
<1> QED BY <1>1, <1>2, <1>3, <1>4, <1>5, <1>6, <1>7, <1>8

\* A prompt that leaves no room for output is refused with a final reply: the
\* invariant survives (_process_one_msg, input_len >= max_seq_len).
LEMMA RejectUserStep ==
    ASSUME IInv, NEW u \in Uid, RejectUser(u)
    PROVE  IInv'
<1> USE DEF IInv, RejectUser, Listening, queueVars, lenVars, poolVars, passVars, batchVars, rebuildVars
<1>1. TypeOK' BY DEF TypeOK, Terminals
<1>2. QueueInv' BY DEF QueueInv, Waiting
<1>3. BatchInv' BY DEF BatchInv, Waiting, Sampled, Draining
<1>4. SeatInv' BY DEF SeatInv, Waiting
<1>5. LengthInv' BY DEF LengthInv, Live, Oldest, Newest, Sampled, MaxDeviceLen
<1>6. ReplyInv'
    <2>1. /\ u \notin Waiting \cup running \cup batch.reqs \cup lastData.reqs \cup todo
          /\ \A v \in Uid : v # u => ended'[v] = ended[v]
          /\ Waiting' = Waiting /\ Staying' = Staying
        BY DEF Waiting, Staying, QueueInv, BatchInv, TypeOK
    <2>2. batch.reqs \cup lastData.reqs \cup todo \subseteq Uid BY DEF TypeOK, Batches
    <2> QED BY <2>1, <2>2 DEF ReplyInv, Staying
<1>7. CountInv' BY SMTT(60) DEF CountInv, Waiting, Live, Oldest, Newest, Sampled, QueueInv, TypeOK
<1>8. SlotConservation' /\ AdmittedOnce' /\ ContinuationsFirst'
    BY DEF SlotConservation, AdmittedOnce, ContinuationsFirst
<1>9. OutputExact' BY DEF OutputExact, TypeOK
<1> QED BY <1>1, <1>2, <1>3, <1>4, <1>5, <1>6, <1>7, <1>8, <1>9

\* A request enters the waiting list with a budget that fits max_seq_len: the
\* invariant survives (_process_one_msg, add_one_req).
LEMMA AcceptUserStep ==
    ASSUME IInv, NEW u \in Uid, AcceptUser(u)
    PROVE  IInv'
<1> USE DEF IInv
<1>1. PICK shape \in Shapes : /\ inputLen' = [inputLen EXCEPT ![u] = shape.input]
                              /\ outputLen' = [outputLen EXCEPT ![u] = shape.output]
    BY DEF AcceptUser
<1>2. shape.input \in Nat \ {0} /\ shape.output \in Nat \ {0}
    BY ShapesAssumption
<1>3. pc \in {"idle", "poll"} /\ u \notin received /\ u \notin Waiting
    BY DEF AcceptUser, Listening, QueueInv
<1>4. /\ pending' = Append(pending, u) /\ pending' \in Seq(Uid) /\ IsInjective(pending')
      /\ ToSet(pending') = ToSet(pending) \cup {u}
    BY <1>3, AppendToQueue DEF AcceptUser, QueueInv, TypeOK, Waiting
<1>5. Waiting' = Waiting \cup {u}
    BY <1>4 DEF AcceptUser, passVars, Waiting
<1>6. /\ pc' = "poll" /\ received' = received \cup {u}
      /\ UNCHANGED <<chunked, running, cachedLen, deviceLen, hostLen, aborted,
                     poolVars, passVars, batchVars, abortsSeen, tombstones,
                     replyVars, rebuildVars>>
    BY DEF AcceptUser
<1> USE DEF poolVars, passVars, batchVars, replyVars, rebuildVars
<1>7. TypeOK' BY <1>1, <1>2, <1>4, <1>6 DEF TypeOK
<1>8. QueueInv' BY <1>3, <1>4, <1>5, <1>6 DEF QueueInv, Waiting
<1>9. BatchInv' BY <1>3, <1>5, <1>6 DEF BatchInv, Sampled, Draining
<1>10. SeatInv'
    <2>1. u \notin seated /\ u \notin chunked /\ u \notin running
        BY <1>3 DEF SeatInv, QueueInv, BatchInv, NoBatch
    <2> QED BY <1>3, <1>5, <1>6, <2>1 DEF SeatInv, BatchInv
<1>11. /\ Live' = Live /\ Oldest' = Oldest /\ Newest' = Newest /\ u \notin Live
       /\ u \notin chunked /\ Newest = {} /\ Oldest \subseteq Live /\ Live \subseteq Uid
    BY <1>3, <1>6 DEF Live, Oldest, Newest, Sampled, QueueInv, BatchInv, NoBatch, TypeOK, Batches
<1>12. \A v \in Uid \ {u} : inputLen'[v] = inputLen[v] /\ outputLen'[v] = outputLen[v]
    BY <1>1 DEF TypeOK
<1>13. LengthInv'
    <2>1. \A v \in chunked \cup batch.chunks \cup Live : v \in Uid \ {u}
        BY <1>3, <1>11 DEF TypeOK, BatchInv, NoBatch
    <2>2. \A v \in chunked' \cup batch'.chunks \cup Live' :
              inputLen'[v] = inputLen[v] /\ MaxDeviceLen(v)' = MaxDeviceLen(v)
        BY <1>6, <1>11, <1>12, <2>1 DEF MaxDeviceLen
    <2>3. running' = running /\ running \subseteq Live BY <1>6 DEF Live
    <2> QED BY <1>3, <1>6, <1>11, <2>1, <2>2, <2>3 DEF LengthInv
<1>14. ReplyInv'
    <2>1. ended[u] = {} /\ u \notin acks
        BY <1>3 DEF ReplyInv, AcceptUser, Tombstoned
    <2> QED BY <1>3, <1>5, <1>6, <2>1 DEF ReplyInv, BatchInv
<1>15. CountInv'
    <2>1. admits[u] = 0 /\ tokens[u] = 0 /\ outputLen'[u] > 0
        BY <1>1, <1>2, <1>3 DEF CountInv, TypeOK
    <2>2. \A v \in Waiting \cup Live : v \in Uid \ {u}
        BY <1>3, <1>11 DEF TypeOK, QueueInv
    <2> QED BY <1>3, <1>5, <1>6, <1>11, <1>12, <2>1, <2>2 DEF CountInv
<1>16. OutputExact'
    <2>1. tokens[u] = 0 /\ ended[u] = {}
        BY <1>3 DEF CountInv, ReplyInv, AcceptUser, Tombstoned
    <2>2. tokens' = tokens /\ ended' = ended /\ outputLen'[u] \in Nat
        BY <1>1, <1>2, <1>6 DEF TypeOK
    <2> QED BY <1>12, <2>1, <2>2 DEF OutputExact
<1>17. SlotConservation' /\ AdmittedOnce'
    BY <1>6 DEF SlotConservation, AdmittedOnce
<1>18. ContinuationsFirst'
    <2>1. u \notin chunked BY <1>3 DEF QueueInv
    <2>2. /\ Len(pending) \in Nat /\ Len(pending') = Len(pending) + 1
          /\ \A i \in 1..Len(pending) : pending'[i] = pending[i]
          /\ pending'[Len(pending) + 1] = u
        BY <1>4 DEF TypeOK
    <2> QED BY <1>6, <2>1, <2>2 DEF ContinuationsFirst
<1> QED BY <1>7, <1>8, <1>9, <1>10, <1>13, <1>14, <1>15, <1>16, <1>17, <1>18

\* A rebuild message is queued until the safe point: the invariant survives.
LEMMA ReceiveRebuildStep ==
    ASSUME IInv, ReceiveRebuild
    PROVE  IInv'
<1> USE DEF IInv, ReceiveRebuild, Listening, queueVars, lenVars, poolVars, passVars, batchVars, msgVars, replyVars
<1>1. TypeOK'
    <2>1. rebuild' \in RebuildPages \/ rebuild' = rebuild OBVIOUS
    <2>2. rebuild' \in Nat BY <2>1, SizesAssumption DEF TypeOK
    <2>3. rebuildsSeen' \in Nat BY DEF TypeOK
    <2>4. rebuildsAnswered' = rebuildsAnswered + 1 \/ rebuildsAnswered' = rebuildsAnswered
        OBVIOUS
    <2>5. rebuildsAnswered' \in Nat BY <2>4 DEF TypeOK
    <2> QED BY <2>2, <2>3, <2>5 DEF TypeOK
<1>2. QueueInv' BY DEF QueueInv, Waiting
<1>3. BatchInv' BY DEF BatchInv, Waiting, Sampled, Draining
<1>4. SeatInv' BY DEF SeatInv, Waiting
<1>5. LengthInv' BY DEF LengthInv, Live, Oldest, Newest, Sampled, MaxDeviceLen
<1>6. ReplyInv' BY DEF ReplyInv, Waiting, BatchInv
<1>7. CountInv' BY DEF CountInv, Waiting, Live, Oldest, Newest, Sampled
<1>8. SlotConservation' /\ OutputExact' /\ AdmittedOnce' /\ ContinuationsFirst'
    BY DEF SlotConservation, OutputExact, AdmittedOnce, ContinuationsFirst
<1> QED BY <1>1, <1>2, <1>3, <1>4, <1>5, <1>6, <1>7, <1>8

\* Leaving the poll for the scheduling pass preserves the invariant.
LEMMA ScheduleStep ==
    ASSUME IInv, Schedule
    PROVE  IInv'
<1> USE DEF IInv, Schedule, BeginPass, queueVars, lenVars, poolVars, batchVars, msgVars, replyVars, rebuildVars
<1>1. TypeOK' BY SizesAssumption DEF TypeOK
<1>2. QueueInv' BY DEF QueueInv, Waiting
<1>3. BatchInv'
    <2>1. ToSet(chunkedList) = {} BY ElementsOfQueue DEF TypeOK, QueueInv
    <2> QED BY <2>1 DEF BatchInv, Waiting, Sampled, Draining, NoBatch
<1>4. SeatInv' BY DEF SeatInv, Waiting
<1>5. LengthInv' BY DEF LengthInv, Live, Oldest, Newest, Sampled, MaxDeviceLen
<1>6. ReplyInv' BY DEF ReplyInv, Waiting
<1>7. CountInv' BY DEF CountInv, Waiting, Live, Oldest, Newest, Sampled
<1>8. SlotConservation' /\ OutputExact' /\ AdmittedOnce' /\ ContinuationsFirst'
    BY DEF SlotConservation, OutputExact, AdmittedOnce, ContinuationsFirst
<1> QED BY <1>1, <1>2, <1>3, <1>4, <1>5, <1>6, <1>7, <1>8

\* At the safe point nothing is held: a queued rebuild may recreate the pools.
LEMMA NothingSeated ==
    ASSUME IInv, pc = "poll", RebuildReady
    PROVE  seated = {}
<1>1. ToSet(pending) = {} /\ running = {} /\ lastData.reqs = {}
    BY DEF RebuildReady, Runnable, ToSet
<1>2. chunked = {} /\ batch.reqs = {}
    BY <1>1 DEF IInv, QueueInv, BatchInv, Waiting, NoBatch, ToSet
<1> QED BY <1>1, <1>2 DEF IInv, SeatInv

\* A rebuild at the safe point makes fresh tables and keeps the invariant:
\* nobody held anything that the fresh tables forget (rebuild_cache).
LEMMA ExecuteRebuildStep ==
    ASSUME IInv, ExecuteRebuild
    PROVE  IInv'
<1> USE DEF IInv, ExecuteRebuild, BeginPass, queueVars, lenVars, batchVars, msgVars, replyVars
<1>1. TypeOK'
    <2>1. /\ numPages' \in Nat \ {0} /\ freePages' \in Nat /\ freeSlots' \in Nat
          /\ engineUp' \in BOOLEAN
        BY SizesAssumption DEF TypeOK, RebuildReady
    <2>2. tokenBudget' \in Nat /\ rebuild' \in Nat /\ rebuildsAnswered' \in Nat
        BY SizesAssumption DEF TypeOK
    <2> QED BY <2>1, <2>2 DEF TypeOK
<1>2. QueueInv' BY DEF QueueInv, Waiting
<1>3. BatchInv'
    <2>1. ToSet(chunkedList) = {} BY ElementsOfQueue DEF TypeOK, QueueInv
    <2> QED BY <2>1 DEF BatchInv, Waiting, Sampled, Draining, NoBatch
<1>4. SeatInv' BY DEF SeatInv, Waiting
<1>5. LengthInv' BY DEF LengthInv, Live, Oldest, Newest, Sampled, MaxDeviceLen
<1>6. ReplyInv' BY DEF ReplyInv, Waiting
<1>7. CountInv' BY DEF CountInv, Waiting, Live, Oldest, Newest, Sampled
<1>8. SlotConservation'
    BY NothingSeated, FS_EmptySet, SizesAssumption DEF SlotConservation
<1>9. OutputExact' /\ AdmittedOnce' /\ ContinuationsFirst'
    BY DEF OutputExact, AdmittedOnce, ContinuationsFirst
<1> QED BY <1>1, <1>2, <1>3, <1>4, <1>5, <1>6, <1>7, <1>8, <1>9

\* An abort, in each of the phases its request can be in, preserves the
\* invariant (_process_one_msg, AbortBackendMsg).
LEMMA AbortStep ==
    ASSUME IInv, NEW u \in Uid, Abort(u)
    PROVE  IInv'
<1> USE DEF IInv
<1>1. /\ pc \in {"idle", "poll"} /\ pc' = "poll"
      /\ abortsSeen' = [abortsSeen EXCEPT ![u] = @ + 1]
      /\ tombstones' = tombstones \cup {u} /\ acks' = acks \cup {u}
      /\ chunked' = chunked \ {u} /\ running' = running \ {u}
      /\ UNCHANGED <<lenVars, passVars, batchVars, received, admits, tokens, ended,
                     rebuildVars>>
    BY DEF Abort, Listening
<1>2. /\ chunkedList = <<>> /\ batch = NoBatch /\ todo = {} /\ newFinished = {}
      /\ prompts = {}
    BY <1>1 DEF QueueInv, BatchInv
<1>3. /\ pending' = RemoveFirst(pending, u)
      /\ pending' \in Seq(Uid) /\ IsInjective(pending')
      /\ ToSet(pending') = ToSet(pending) \ {u}
      /\ Ordered(pending, chunked) => Ordered(pending', chunked)
    BY ZenonT(60), RemoveFromQueue DEF Abort, QueueInv, TypeOK
<1>4. Waiting' = Waiting \ {u} /\ ToSet(chunkedList) = {} /\ chunkedList' = chunkedList
    BY <1>1, <1>2, <1>3 DEF Waiting, ToSet, passVars
<1>5. /\ seated' \in {seated, seated \ {u}} /\ aborted' \in {aborted, aborted \cup {u}}
      /\ u \in lastData.reqs => seated' = seated
      /\ u \in chunked \cup running /\ u \notin lastData.reqs => seated' = seated \ {u}
      /\ aborted' # aborted => u \in chunked \cup running /\ u \in lastData.reqs
      /\ u \in chunked \cup running /\ u \in lastData.reqs => u \in aborted'
      /\ freeSlots' \in Nat /\ freePages' \in Nat /\ rowPages' \in [Uid -> Nat]
      /\ SlotConservation'
    <2>1. CASE AbortTakes(u) /\ ~InFlight(u)
        BY <2>1, FreeEffect DEF Abort, AbortTakes, InFlight
    <2>2. CASE ~(AbortTakes(u) /\ ~InFlight(u))
        BY <2>2 DEF Abort, AbortTakes, InFlight, poolVars, TypeOK, SlotConservation
    <2> QED BY <2>1, <2>2
<1> USE DEF lenVars, passVars, batchVars, rebuildVars
<1>6. TypeOK'
    <2>1. abortsSeen' \in [Uid -> Nat] BY <1>1 DEF TypeOK
    <2>2. /\ seated' \in SUBSET Uid /\ aborted' \in SUBSET Uid /\ chunked' \in SUBSET Uid
          /\ running' \in SUBSET Uid
        BY <1>1, <1>5 DEF TypeOK
    <2> QED BY <1>1, <1>3, <1>5, <2>1, <2>2 DEF TypeOK
<1>7. QueueInv' BY <1>1, <1>2, <1>3, <1>4 DEF QueueInv
<1>8. BatchInv' BY <1>1, <1>2, <1>4, <1>5 DEF BatchInv, Sampled, Draining, NoBatch
<1>9. SeatInv'
    <2>1. u \in chunked \cup running => u \in received BY DEF QueueInv
    <2> QED BY <1>1, <1>2, <1>4, <1>5, <2>1 DEF SeatInv, NoBatch
<1>10. LengthInv'
    BY <1>1, <1>2, <1>5
    DEF LengthInv, Live, Oldest, Newest, Sampled, MaxDeviceLen, NoBatch, BatchInv
<1>11. ReplyInv' BY <1>1, <1>2, <1>4 DEF ReplyInv, NoBatch
<1>12. CountInv'
    BY <1>1, <1>2, <1>4 DEF CountInv, Live, Oldest, Newest, Sampled, NoBatch
<1>13. OutputExact' /\ AdmittedOnce' BY <1>1 DEF OutputExact, AdmittedOnce
<1>14. ContinuationsFirst'
    <2>1. Ordered(pending', chunked)
        BY <1>3 DEF ContinuationsFirst, Ordered
    <2>2. \A i \in 1..Len(pending') : pending'[i] # u
        BY <1>3 DEF ToSet
    <2> QED BY <1>1, <1>3, <2>1, <2>2 DEF ContinuationsFirst, Ordered
<1> QED BY <1>5, <1>6, <1>7, <1>8, <1>9, <1>10, <1>11, <1>12, <1>13, <1>14

\* Admitting the head of the queue, whole or chunked, preserves the invariant
\* (PrefillAdder.try_add_one).
LEMMA AdmitOneStep ==
    ASSUME IInv, AdmitOne
    PROVE  IInv'
<1> USE DEF IInv
<1> DEFINE u == Head(pending)
           start == IF u \in chunked THEN cachedLen[u] ELSE 0
           remain == inputLen[u] - start
           size == Min({tokenBudget, remain})
           partial == size < remain
<1>1. /\ pc = "admit" /\ pc' = "admit" /\ pending # <<>> /\ Fits(u)
      /\ cachedLen' = [cachedLen EXCEPT ![u] = start]
      /\ deviceLen' = [deviceLen EXCEPT ![u] = start + size]
      /\ hostLen' = [hostLen EXCEPT ![u] = start + size]
      /\ tokenBudget' = tokenBudget - size
      /\ chunked' = IF partial THEN chunked \cup {u} ELSE chunked \ {u}
      /\ chunkedList' = IF partial THEN Append(chunkedList, u) ELSE chunkedList
      /\ batch' = [reqs |-> batch.reqs \cup {u},
                   chunks |-> IF partial THEN batch.chunks \cup {u} ELSE batch.chunks]
      /\ unallocated' = unallocated \cup {u}
      /\ IF u \in chunked
         THEN UNCHANGED <<seated, freeSlots>>
         ELSE seated' = seated \cup {u} /\ freeSlots' = freeSlots - 1
      /\ prompts' = IF u \notin chunked THEN prompts \cup {u} ELSE prompts
      /\ pending' = Tail(pending)
      /\ UNCHANGED <<running, inputLen, outputLen, aborted, rowPages, freePages,
                     lastData, todo, finished, newFinished, msgVars, replyVars,
                     rebuildVars>>
    BY DEF AdmitOne, ReportsPrompt
<1>2. /\ u \in Uid /\ u \in ToSet(pending) /\ u \in Waiting /\ u \notin ToSet(chunkedList)
      /\ pending' \in Seq(Uid) /\ IsInjective(pending')
      /\ ToSet(pending') = ToSet(pending) \ {u}
    BY <1>1, TailOfQueue DEF QueueInv, TypeOK, Waiting
<1> HIDE DEF u
<1>3. /\ inputLen[u] \in Nat /\ start \in Nat /\ remain \in Nat /\ tokenBudget \in Nat
      /\ start + remain = inputLen[u]
    <2>1. inputLen[u] \in Nat /\ cachedLen[u] \in Nat /\ tokenBudget \in Nat
        BY <1>2 DEF TypeOK
    <2>2. u \in chunked => cachedLen[u] <= inputLen[u]
        BY DEF LengthInv
    <2> QED BY <2>1, <2>2
<1> HIDE DEF remain, start
<1>4. size \in Nat /\ size <= remain /\ size <= tokenBudget /\ (~partial => size = remain)
    <2>1. size \in {tokenBudget, remain} /\ size <= tokenBudget /\ size <= remain
        <3>1. tokenBudget \in Int /\ remain \in Int BY <1>3
        <3> QED BY <3>1, MinOfTwo
    <2> HIDE DEF size
    <2> QED BY <1>3, <2>1
<1> HIDE DEF size, partial
<1>5. /\ chunkedList' \in Seq(Uid) /\ IsInjective(chunkedList')
      /\ ToSet(chunkedList') = IF partial THEN ToSet(chunkedList) \cup {u} ELSE ToSet(chunkedList)
    <2>1. chunkedList \in Seq(Uid) /\ IsInjective(chunkedList) BY DEF QueueInv, TypeOK
    <2>2. CASE partial BY <1>1, <1>2, <2>1, <2>2, AppendToQueue
    <2>3. CASE ~partial BY <1>1, <2>1, <2>3
    <2> QED BY <2>2, <2>3
<1>6. Waiting' = IF partial THEN Waiting ELSE Waiting \ {u}
    BY <1>2, <1>5 DEF Waiting
<1>7. /\ u \notin running /\ u \notin Sampled(lastData) /\ u \notin Sampled(batch)
      /\ u \notin aborted /\ u \notin finished /\ u \notin newFinished /\ u \notin acks
      /\ ended[u] = {} /\ u \in received
      /\ u \notin batch.reqs /\ (u \notin chunked => u \notin seated)
    BY <1>1, <1>2 DEF QueueInv, BatchInv, SeatInv, ReplyInv, Sampled
<1>18. /\ Sampled(batch)' = IF partial THEN Sampled(batch) ELSE Sampled(batch) \cup {u}
       /\ Oldest' = Oldest /\ Newest' = {} /\ Newest = {} /\ u \notin Oldest
       /\ Live' = (IF partial THEN Live ELSE Live \cup {u}) /\ u \notin Live
       /\ Live \subseteq Uid /\ Oldest \subseteq Live
    <2>1. Sampled(batch)' = IF partial THEN Sampled(batch) ELSE Sampled(batch) \cup {u}
        BY <1>1, <1>7 DEF Sampled, BatchInv
    <2>2. /\ Oldest = Sampled(lastData) /\ Oldest' = Oldest /\ Newest = {} /\ Newest' = {}
        BY <1>1 DEF Oldest, Newest, Sampled
    <2>3. /\ Live = running \cup Oldest \cup Sampled(batch)
          /\ Live' = running \cup Oldest \cup Sampled(batch)'
        BY <1>1, <2>2 DEF Live
    <2>4. Live \subseteq Uid BY <2>2, <2>3 DEF Sampled, TypeOK, Batches
    <2> QED BY <1>7, <2>1, <2>2, <2>3, <2>4
<1>8. TypeOK'
    <2>1. u \notin chunked => freeSlots' \in Nat
        BY <1>1 DEF TypeOK, Fits
    <2>2. freeSlots' \in Nat /\ tokenBudget' \in Nat
        <3>1. tokenBudget' \in Nat BY <1>1, <1>3, <1>4
        <3>2. u \in chunked => freeSlots' \in Nat BY <1>1 DEF TypeOK
        <3> QED BY <2>1, <3>1, <3>2
    <2>3. start + size \in Nat BY <1>3, <1>4
    <2>4. batch' \in Batches BY <1>1, <1>2 DEF TypeOK, Batches
    <2>5. /\ cachedLen' \in [Uid -> Nat] /\ deviceLen' \in [Uid -> Nat]
          /\ hostLen' \in [Uid -> Nat]
        BY <1>1, <1>2, <1>3, <2>3 DEF TypeOK
    <2> QED BY ZenonT(60), <1>1, <1>2, <1>5, <2>2, <2>4, <2>5
            DEF TypeOK, msgVars, replyVars, rebuildVars
<1>9. QueueInv'
    BY <1>1, <1>2, <1>5, <1>6, <1>7 DEF QueueInv, Waiting, msgVars
<1>10. BatchInv'
    <2>1. ToSet(chunkedList') \subseteq batch'.chunks
        BY <1>1, <1>5 DEF BatchInv
    <2>2. batch'.reqs \cap ToSet(pending') = {} BY <1>1, <1>2 DEF BatchInv
    <2> QED BY <1>1, <1>2, <1>6, <1>7, <2>1, <2>2 DEF BatchInv, Sampled, Draining, msgVars
<1>11. SeatInv'
    BY <1>1, <1>2, <1>6, <1>7 DEF SeatInv, QueueInv, msgVars
<1>12. LengthInv'
    <2>2. /\ cachedLen'[u] = start /\ deviceLen'[u] = start + size
          /\ hostLen'[u] = start + size
          /\ \A v \in Uid \ {u} : /\ cachedLen'[v] = cachedLen[v]
                                  /\ deviceLen'[v] = deviceLen[v] /\ hostLen'[v] = hostLen[v]
        BY <1>1, <1>2 DEF TypeOK
    <2>3. \A v \in Uid : cachedLen'[v] <= deviceLen'[v]
        <3>1. cachedLen'[u] <= deviceLen'[u] BY <1>3, <1>4, <2>2
        <3> QED BY <2>2, <3>1 DEF LengthInv
    <2>4. /\ \A v \in chunked' : cachedLen'[v] <= inputLen'[v]
          /\ \A v \in batch'.chunks : deviceLen'[v] <= inputLen'[v]
        <3>1. \A v \in chunked' \cup batch'.chunks : v \in Uid
            BY <1>1, <1>2 DEF TypeOK, Batches
        <3>2. cachedLen'[u] <= inputLen'[u] /\ deviceLen'[u] <= inputLen'[u]
            BY <1>1, <1>3, <1>4, <2>2
        <3> QED BY <1>1, <2>2, <3>1, <3>2 DEF LengthInv
    <2>5. \A v \in Live' : deviceLen'[v] = hostLen'[v] + (IF v \in Oldest' THEN 1 ELSE 0)
                                                       + (IF v \in Newest' THEN 1 ELSE 0)
        <3>1. CASE ~partial BY <1>1, <1>2, <1>3, <1>4, <1>18, <2>2, <3>1 DEF LengthInv
        <3>2. CASE partial BY <1>1, <1>18, <2>2, <3>2 DEF LengthInv
        <3> QED BY <3>1, <3>2
    <2>6. \A v \in Oldest' \ (running' \cup aborted' \cup finished' \cup Newest') :
              deviceLen'[v] >= MaxDeviceLen(v)'
        BY <1>1, <1>18, <2>2 DEF LengthInv, MaxDeviceLen
    <2>7. \A v \in running' : deviceLen'[v] < MaxDeviceLen(v)'
        BY <1>1, <1>7, <2>2 DEF LengthInv, MaxDeviceLen, TypeOK
    <2> QED BY <1>1, <1>18, <2>3, <2>4, <2>5, <2>6, <2>7 DEF LengthInv
<1>13. ReplyInv'
    BY <1>1, <1>2, <1>6, <1>7 DEF ReplyInv, Staying, msgVars, replyVars
<1>14. CountInv'
    <2>2. \A v \in Live' : hostLen'[v] = inputLen'[v] + tokens'[v]
        <3>1. ~partial => hostLen'[u] = inputLen[u]
            BY <1>1, <1>2, <1>3, <1>4 DEF TypeOK
        <3>2. tokens[u] = 0 /\ tokens' = tokens /\ inputLen' = inputLen
            BY <1>1, <1>2 DEF CountInv, replyVars
        <3>3. \A v \in Uid \ {u} : hostLen'[v] = hostLen[v]
            BY <1>1, <1>2 DEF TypeOK
        <3> QED BY <1>3, <1>18, <3>1, <3>2, <3>3 DEF CountInv
    <2>3. \A v \in Waiting' \cup Live' : ended'[v] = {} => tokens'[v] < outputLen'[v]
        BY <1>1, <1>2, <1>6, <1>18 DEF CountInv, replyVars
    <2>4. \A v \in chunked' \cup running' \cup batch'.reqs \cup lastData'.reqs :
              admits'[v] = IF v \in prompts' THEN 0 ELSE 1
        BY <1>1, <1>2, <1>7 DEF CountInv, BatchInv, replyVars
    <2>5. /\ \A v \in Waiting' \ chunked' : admits'[v] = 0
          /\ \A v \in Waiting' : tokens'[v] = 0
          /\ \A v \in Uid : v \notin received' => admits'[v] = 0 /\ tokens'[v] = 0
        BY <1>1, <1>2, <1>6 DEF CountInv, replyVars, msgVars
    <2> QED BY <2>2, <2>3, <2>4, <2>5 DEF CountInv
<1>15. SlotConservation'
    <2>1. IsFiniteSet(seated) /\ Cardinality(seated) \in Nat
        BY UidAssumption, FS_Subset, FS_CardinalityType DEF TypeOK
    <2>2. u \notin chunked => Cardinality(seated \cup {u}) = Cardinality(seated) + 1
        BY <1>7, <2>1, FS_AddElement
    <2>3. freeSlots \in Nat BY DEF TypeOK
    <2>4. CASE u \in chunked BY <1>1, <2>4 DEF SlotConservation
    <2>5. CASE u \notin chunked
        <3>1. seated' = seated \cup {u} /\ freeSlots' = freeSlots - 1 BY <1>1, <2>5
        <3> QED BY <2>1, <2>2, <2>3, <2>5, <3>1 DEF SlotConservation
    <2> QED BY <2>4, <2>5
<1>16. OutputExact' /\ AdmittedOnce'
    BY <1>1 DEF OutputExact, AdmittedOnce, replyVars
<1>17. ContinuationsFirst'
    <2>1. /\ Len(pending) \in Nat \ {0} /\ Len(pending') = Len(pending) - 1
          /\ \A i \in 1..Len(pending') : pending'[i] = pending[i + 1] /\ pending'[i] # u
        <3>1. pending \in Seq(Uid) BY DEF TypeOK
        <3>2. \A i \in 1..Len(pending') : pending'[i] # u BY <1>2 DEF ToSet
        <3> QED BY <1>1, <3>1, <3>2
    <2> QED BY <1>1, <2>1 DEF ContinuationsFirst
<1> QED BY <1>8, <1>9, <1>10, <1>11, <1>12, <1>13, <1>14, <1>15, <1>16, <1>17

\* Closing a prefill batch, with its continuations put first, preserves the
\* invariant (schedule_next_batch).
LEMMA PrefillBatchStep ==
    ASSUME IInv, PrefillBatch
    PROVE  IInv'
<1> USE DEF IInv
<1>1. /\ pc = "admit" /\ pc' = "alloc" /\ pending' = chunkedList \o pending
      /\ chunkedList' = <<>>
      /\ UNCHANGED <<chunked, running, lenVars, aborted, poolVars, tokenBudget,
                     reservedSize, prompts, unallocated, batchVars, msgVars, replyVars,
                     rebuildVars>>
    BY DEF PrefillBatch, Requeued
<1>2. /\ pending' \in Seq(Uid) /\ IsInjective(pending')
      /\ ToSet(pending') = ToSet(chunkedList) \cup ToSet(pending)
    <2>1. /\ pending \in Seq(Uid) /\ chunkedList \in Seq(Uid)
          /\ IsInjective(pending) /\ IsInjective(chunkedList)
          /\ ToSet(chunkedList) \cap ToSet(pending) = {}
        BY DEF TypeOK, QueueInv
    <2> QED BY <1>1, <2>1, ConcatQueues
<1>3. chunkedList' \in Seq(Uid) /\ IsInjective(chunkedList') /\ ToSet(chunkedList') = {}
    <2>1. <<>> \in Seq(Uid) /\ IsInjective(<<>>) BY DEF IsInjective
    <2> QED BY <1>1, <2>1, ElementsOfQueue
<1>13. Waiting' = Waiting
    BY <1>2, <1>3 DEF Waiting
<1> USE DEF lenVars, poolVars, batchVars, msgVars, replyVars, rebuildVars
<1>4. TypeOK' BY <1>1, <1>2, <1>3 DEF TypeOK
<1>5. QueueInv' BY <1>1, <1>2, <1>3, <1>13 DEF QueueInv
<1>6. BatchInv' BY <1>1, <1>3, <1>13 DEF BatchInv, Sampled, Draining
<1>7. SeatInv' BY <1>1, <1>3, <1>13 DEF SeatInv
<1>8. LengthInv' BY <1>1 DEF LengthInv, Live, Oldest, Newest, Sampled, MaxDeviceLen
<1>9. ReplyInv' BY <1>1, <1>3, <1>13 DEF ReplyInv
<1>10. CountInv' BY <1>1, <1>3, <1>13 DEF CountInv, Live, Oldest, Newest, Sampled
<1>11. SlotConservation' /\ OutputExact' /\ AdmittedOnce'
    BY <1>1 DEF SlotConservation, OutputExact, AdmittedOnce
<1>12. ContinuationsFirst'
    <2> DEFINE n == Len(chunkedList)
    <2>1. /\ n \in Nat /\ Len(pending) \in Nat /\ Len(pending') = n + Len(pending)
          /\ \A i \in 1..Len(pending') :
                 pending'[i] = IF i <= n THEN chunkedList[i] ELSE pending[i - n]
        BY <1>1, ConcatProperties DEF TypeOK
    <2>2. \A i \in 1..n : chunkedList[i] \in chunked
        BY ElementsOfQueue DEF QueueInv, TypeOK
    <2> HIDE DEF n
    <2>3. SUFFICES ASSUME NEW i \in 1..Len(pending'), NEW j \in 1..Len(pending'), i < j,
                          pending'[j] \in chunked
                   PROVE  pending'[i] \in chunked
        BY <1>1 DEF ContinuationsFirst
    <2>4. CASE i <= n
        <3>1. i \in 1..n BY <2>1, <2>3, <2>4
        <3> QED BY <2>1, <2>2, <2>4, <3>1
    <2>5. CASE i > n
        <3>1. i - n \in 1..Len(pending) /\ j - n \in 1..Len(pending) /\ i - n < j - n
            BY <2>1, <2>3, <2>5
        <3>2. pending'[i] = pending[i - n] /\ pending'[j] = pending[j - n]
            BY <2>1, <2>3, <2>5
        <3> QED BY <2>3, <3>1, <3>2 DEF ContinuationsFirst
    <2> QED BY <2>1, <2>3, <2>4, <2>5
<1> QED BY <1>4, <1>5, <1>6, <1>7, <1>8, <1>9, <1>10, <1>11, <1>12

\* Choosing the decode batch preserves the invariant (DecodeManager).
LEMMA DecodeBatchStep ==
    ASSUME IInv, DecodeBatch
    PROVE  IInv'
<1> USE DEF IInv
<1>1. /\ pc = "admit" /\ pc' = "alloc" /\ batch.reqs = {}
      /\ batch' = [reqs |-> running, chunks |-> {}] /\ unallocated' = running
      /\ UNCHANGED <<queueVars, lenVars, aborted, poolVars, tokenBudget, reservedSize,
                     chunkedList, prompts, lastData, todo, finished, newFinished,
                     msgVars, replyVars, rebuildVars>>
    BY DEF DecodeBatch
<1>2. batch.chunks = {} /\ prompts = {}
    BY <1>1 DEF BatchInv
<1>3. ToSet(chunkedList) = {} BY <1>1, <1>2 DEF BatchInv
<1>4. chunkedList = <<>> BY <1>3, ElementsOfQueue DEF TypeOK
<1>5. /\ Waiting' = Waiting /\ ToSet(pending) \subseteq Waiting
      /\ Sampled(batch)' = running
    BY <1>1 DEF Waiting, Sampled, queueVars
<1> USE DEF queueVars, lenVars, poolVars, msgVars, replyVars, rebuildVars
<1>6. TypeOK' BY <1>1 DEF TypeOK, Batches
<1>7. QueueInv' BY <1>1, <1>4, <1>5 DEF QueueInv
<1>8. BatchInv' BY <1>1, <1>2, <1>5 DEF BatchInv, Sampled, Draining, QueueInv
<1>9. SeatInv' BY <1>1, <1>2, <1>5 DEF SeatInv, QueueInv
<1>10. LengthInv'
    BY <1>1, <1>2 DEF LengthInv, Live, Oldest, Newest, Sampled, MaxDeviceLen
<1>11. ReplyInv' BY <1>1, <1>5 DEF ReplyInv, TypeOK
<1>12. CountInv' BY <1>1, <1>2, <1>5 DEF CountInv, Live, Oldest, Newest, Sampled
<1>13. SlotConservation' /\ OutputExact' /\ AdmittedOnce' /\ ContinuationsFirst'
    BY <1>1 DEF SlotConservation, OutputExact, AdmittedOnce, ContinuationsFirst
<1> QED BY <1>6, <1>7, <1>8, <1>9, <1>10, <1>11, <1>12, <1>13

\* Allocating the pages of the batch preserves the invariant
\* (CacheManager.allocate_paged).
LEMMA AllocateStep ==
    ASSUME IInv, NEW u \in Uid, pc = "alloc", u \in unallocated,
           NewPages(u) <= freePages, AllocatePages(u)
    PROVE  IInv'
<1> USE DEF IInv
<1>1. /\ pc = "alloc" /\ pc' = "alloc" /\ NewPages(u) <= freePages
      /\ freePages' = freePages - NewPages(u)
      /\ rowPages' = [rowPages EXCEPT ![u] = @ + NewPages(u)]
      /\ unallocated' = unallocated \ {u}
      /\ UNCHANGED <<queueVars, lenVars, aborted, seated, freeSlots, tokenBudget,
                     reservedSize, chunkedList, prompts, batchVars, msgVars, replyVars,
                     rebuildVars>>
    BY DEF AllocatePages
<1>2. NewPages(u) \in Nat
    <2>1. cachedLen[u] \in Nat /\ deviceLen[u] \in Nat /\ cachedLen[u] <= deviceLen[u]
        BY DEF TypeOK, LengthInv
    <2>2. /\ Pages(cachedLen[u]) \in Nat /\ Pages(deviceLen[u]) \in Nat
          /\ Pages(cachedLen[u]) <= Pages(deviceLen[u])
        BY <2>1, PagesMonotone
    <2> QED BY <2>2 DEF NewPages
<1> USE DEF queueVars, lenVars, batchVars, msgVars, replyVars, rebuildVars
<1>3. TypeOK'
    <2>1. freePages' \in Nat /\ rowPages' \in [Uid -> Nat] BY SMTT(60), <1>1, <1>2 DEF TypeOK
    <2> QED BY <1>1, <2>1 DEF TypeOK
<1>4. QueueInv' BY <1>1 DEF QueueInv, Waiting
<1>5. BatchInv' BY <1>1 DEF BatchInv, Waiting, Sampled, Draining
<1>6. SeatInv' BY <1>1 DEF SeatInv, Waiting
<1>7. LengthInv' BY <1>1 DEF LengthInv, Live, Oldest, Newest, Sampled, MaxDeviceLen
<1>8. ReplyInv' BY <1>1 DEF ReplyInv, Waiting
<1>9. CountInv' BY <1>1 DEF CountInv, Waiting, Live, Oldest, Newest, Sampled
<1>10. SlotConservation' /\ OutputExact' /\ AdmittedOnce' /\ ContinuationsFirst'
    BY <1>1 DEF SlotConservation, OutputExact, AdmittedOnce, ContinuationsFirst
<1> QED BY <1>3, <1>4, <1>5, <1>6, <1>7, <1>8, <1>9, <1>10

\* When the loop dies every other variable keeps its value.
LEMMA DeathStep ==
    ASSUME IInv, pc = "alloc", pc' = "dead",
           UNCHANGED <<queueVars, lenVars, aborted, poolVars, passVars, batchVars,
                       msgVars, replyVars, rebuildVars>>
    PROVE  IInv'
<1> USE DEF IInv, queueVars, lenVars, poolVars, passVars, batchVars, msgVars, replyVars, rebuildVars
<1>1. TypeOK' BY DEF TypeOK
<1>2. QueueInv' BY DEF QueueInv, Waiting
<1>3. BatchInv' BY DEF BatchInv, Waiting, Sampled, Draining
<1>4. SeatInv' BY DEF SeatInv, Waiting
<1>5. LengthInv' BY DEF LengthInv, Live, Oldest, Newest, Sampled, MaxDeviceLen
<1>6. ReplyInv' BY DEF ReplyInv, Waiting
<1>7. CountInv' BY DEF CountInv, Waiting, Live, Oldest, Newest, Sampled
<1>8. SlotConservation' /\ OutputExact' /\ AdmittedOnce' /\ ContinuationsFirst'
    BY DEF SlotConservation, OutputExact, AdmittedOnce, ContinuationsFirst
<1> QED BY <1>1, <1>2, <1>3, <1>4, <1>5, <1>6, <1>7, <1>8

\* Launching the forward moves every device length one step ahead of the host
\* and preserves the invariant (_forward, complete_one).
LEMMA LaunchStep ==
    ASSUME IInv, Launch
    PROVE  IInv'
<1> USE DEF IInv
<1>1. /\ pc = "alloc" /\ pc' = "drain" /\ unallocated = {} /\ prompts' = {}
      /\ admits' = [u \in Uid |-> IF u \in prompts THEN admits[u] + 1 ELSE admits[u]]
      /\ cachedLen' = [u \in Uid |-> IF u \in batch.reqs THEN deviceLen[u] ELSE cachedLen[u]]
      /\ deviceLen' = [u \in Uid |-> IF u \in batch.reqs THEN deviceLen[u] + 1 ELSE deviceLen[u]]
      /\ running' = {u \in running \cup batch.reqs : CanDecode(u)}
      /\ todo' = Draining.reqs
      /\ UNCHANGED <<pending, chunked, inputLen, outputLen, hostLen, aborted, poolVars,
                     tokenBudget, reservedSize, chunkedList, unallocated, batch,
                     lastData, finished, newFinished, msgVars, acks, tokens, ended,
                     rebuildVars>>
    BY DEF Launch, CompleteOne
<1>2. /\ batch.reqs \in SUBSET Uid /\ batch.chunks \in SUBSET Uid
      /\ lastData.reqs \in SUBSET Uid /\ lastData.chunks \in SUBSET Uid
      /\ running \in SUBSET Uid /\ chunked \in SUBSET Uid
    BY DEF TypeOK, Batches
<1>3. running' \subseteq running \cup Sampled(batch) /\ running' \in SUBSET Uid
    BY <1>1, <1>2 DEF CanDecode, Sampled
<1>4. Waiting' = Waiting /\ Draining' = Draining
    BY <1>1 DEF Waiting, Draining
<1>5. /\ Overlap => Draining = lastData
      /\ ~Overlap => Draining = batch /\ lastData = NoBatch
      /\ todo = {} /\ newFinished = {}
    BY <1>1 DEF Draining, BatchInv
<1> USE DEF poolVars, msgVars, rebuildVars
<1>6. TypeOK'
    <2>1. /\ cachedLen' \in [Uid -> Nat] /\ deviceLen' \in [Uid -> Nat]
          /\ admits' \in [Uid -> Nat]
        BY SMTT(60), <1>1 DEF TypeOK
    <2>2. todo' \in SUBSET Uid BY <1>1, <1>2, <1>5 DEF NoBatch
    <2> QED BY <1>1, <1>3, <2>1, <2>2 DEF TypeOK
<1>7. QueueInv' BY <1>1, <1>3, <1>4 DEF QueueInv, BatchInv, Sampled
<1>8. BatchInv'
    BY <1>1, <1>4, <1>5 DEF BatchInv, Sampled
<1>9. SeatInv'
    <2>1. \A u \in batch.reqs : u \in seated' /\ u \notin finished'
        BY <1>1 DEF SeatInv
    <2>2. \A u \in running' : u \in seated' /\ u \notin Waiting' /\ u \notin aborted'
        BY <1>1, <1>3, <1>4 DEF SeatInv, QueueInv, Sampled, BatchInv
    <2>3. \A u \in running : u \notin batch.reqs => u \in running'
        <3>1. SUFFICES ASSUME NEW u \in running, u \notin batch.reqs PROVE CanDecode(u)
            BY <1>1
        <3>2. deviceLen'[u] = deviceLen[u] /\ deviceLen[u] < MaxDeviceLen(u) /\ u \in Uid
            BY <1>1, <1>2, <3>1 DEF LengthInv
        <3>3. deviceLen[u] \in Nat /\ MaxDeviceLen(u) \in Nat
            BY <3>2 DEF TypeOK, MaxDeviceLen
        <3> QED BY <3>1, <3>2, <3>3 DEF CanDecode, BatchInv
    <2>4. seated' \subseteq chunked' \cup running' \cup todo' \cup Staying'
        BY <1>1, <1>5, <2>3 DEF SeatInv, Staying, NoBatch
    <2> QED BY <1>1, <1>3, <1>4, <1>5, <2>1, <2>2, <2>4 DEF SeatInv, Staying
<1>10. /\ Live = running \cup Oldest \cup Sampled(batch) /\ Oldest = Sampled(lastData)
       /\ Oldest' = (IF Overlap THEN Oldest ELSE Sampled(batch))
       /\ Newest' = (IF Overlap THEN Sampled(batch) ELSE {})
       /\ ~Overlap => Oldest = {} /\ Newest = {}
       /\ Live' \subseteq Live /\ Live \subseteq Uid
    <2>1. /\ Live = running \cup Oldest \cup Sampled(batch) /\ Oldest = Sampled(lastData)
          /\ Newest = {}
        BY <1>1 DEF Live, Oldest, Newest
    <2>2. /\ Oldest' = (IF Overlap THEN Oldest ELSE Sampled(batch))
          /\ Newest' = (IF Overlap THEN Sampled(batch) ELSE {})
        BY <1>1, <1>4, <1>5, <2>1 DEF Oldest, Newest, Sampled
    <2>3. ~Overlap => Oldest = {} BY <1>5, <2>1 DEF Sampled, NoBatch
    <2>4. Live' = running' \cup Oldest' \cup Newest' BY <1>1 DEF Live
    <2>5. Live \subseteq Uid BY <1>2, <2>1 DEF Sampled
    <2> QED BY <1>3, <2>1, <2>2, <2>3, <2>4, <2>5
<1>11. \A u \in Live : u \in batch.reqs <=> u \in Sampled(batch)
    BY <1>10 DEF Sampled, BatchInv, QueueInv
<1>12. \A u \in Uid : deviceLen'[u] = deviceLen[u] + (IF u \in batch.reqs THEN 1 ELSE 0)
    BY <1>1 DEF TypeOK
<1>13. LengthInv'
    <2>1. \A u \in Uid : cachedLen'[u] <= deviceLen'[u]
        BY <1>1 DEF LengthInv, TypeOK
    <2>2. \A u \in chunked' : cachedLen'[u] <= inputLen'[u]
        BY <1>1, <1>2 DEF LengthInv, BatchInv, QueueInv, Sampled
    <2>3. \A u \in Live' : deviceLen'[u] = hostLen'[u] + (IF u \in Oldest' THEN 1 ELSE 0)
                                                       + (IF u \in Newest' THEN 1 ELSE 0)
        <3>2. \A u \in Live : deviceLen[u] \in Nat /\ hostLen[u] \in Nat BY <1>10 DEF TypeOK
        <3>3. Newest = {} BY <1>1 DEF Newest
        <3>1. \A u \in Live : deviceLen[u] = hostLen[u] + (IF u \in Oldest THEN 1 ELSE 0)
            BY <3>2, <3>3 DEF LengthInv
        <3> QED BY <1>1, <1>10, <1>11, <1>12, <3>1, <3>2
    <2>4. \A u \in Uid : MaxDeviceLen(u)' = MaxDeviceLen(u) /\ MaxDeviceLen(u) \in Nat
        BY <1>1 DEF MaxDeviceLen, TypeOK
    <2>5. \A u \in running' : deviceLen'[u] < MaxDeviceLen(u)'
        BY <1>1, <1>2, <2>4 DEF CanDecode, TypeOK
    <2>6. \A u \in Sampled(batch) \ running' : deviceLen'[u] >= MaxDeviceLen(u)'
        <3>1. SUFFICES ASSUME NEW u \in Sampled(batch), u \notin running'
                       PROVE  deviceLen'[u] >= MaxDeviceLen(u)'
            OBVIOUS
        <3>2. u \in Uid /\ ~CanDecode(u) /\ u \notin batch.chunks
            BY <1>1, <1>2, <3>1 DEF Sampled
        <3>3. ~(MaxDeviceLen(u) - deviceLen'[u] > 0) BY <3>2 DEF CanDecode
        <3>4. deviceLen'[u] \in Nat BY <1>6, <3>2 DEF TypeOK
        <3> QED BY <2>4, <3>2, <3>3, <3>4
    <2>7. Overlap => \A u \in Oldest \ (running' \cup aborted \cup finished \cup Sampled(batch)) :
                         deviceLen'[u] >= MaxDeviceLen(u)'
        <3>1. SUFFICES ASSUME Overlap, NEW u \in Oldest, u \notin running', u \notin aborted,
                              u \notin finished, u \notin Sampled(batch)
                       PROVE  deviceLen'[u] >= MaxDeviceLen(u)'
            OBVIOUS
        <3>2. u \in Uid /\ u \in Live /\ u \notin batch.reqs
            BY <1>10, <1>11, <3>1
        <3>3. deviceLen'[u] = deviceLen[u] /\ deviceLen[u] \in Nat
            BY <1>12, <3>2 DEF TypeOK
        <3>4. CASE u \in running
            <4>1. u \notin batch.chunks /\ ~CanDecode(u) BY <1>1, <3>1, <3>2, <3>4 DEF BatchInv
            <4> QED BY <2>4, <3>2, <3>3, <4>1 DEF CanDecode
        <3>5. CASE u \notin running
            BY <1>1, <2>4, <3>1, <3>2, <3>3, <3>5 DEF LengthInv, Newest
        <3> QED BY <3>4, <3>5
    <2> QED BY <1>1, <1>10, <2>1, <2>2, <2>3, <2>5, <2>6, <2>7 DEF LengthInv
<1>14. ReplyInv'
    BY <1>1, <1>3, <1>4, <1>5 DEF ReplyInv, Staying, Sampled, NoBatch
<1>15. CountInv'
    <2>1. prompts \subseteq batch.reqs /\ prompts \cap (Waiting \ chunked) = {}
          /\ prompts \subseteq received
        BY DEF BatchInv, Sampled
    <2>2. \A u \in Uid : admits'[u] = IF u \in prompts THEN admits[u] + 1 ELSE admits[u]
        BY <1>1
    <2>3. \A u \in chunked' \cup running' \cup batch'.reqs \cup lastData'.reqs : admits'[u] = 1
        BY <1>1, <1>2, <1>3, <2>2 DEF CountInv, Sampled
    <2>4. Waiting \subseteq Uid BY ElementsOfQueue DEF Waiting, TypeOK
    <2>5. \A u \in Waiting' \ chunked' : admits'[u] = 0
        BY <1>1, <1>4, <2>1, <2>2, <2>4 DEF CountInv
    <2> QED BY <1>1, <1>4, <1>10, <2>1, <2>2, <2>3, <2>5 DEF CountInv
<1>16. AdmittedOnce'
    BY <1>1, <1>2 DEF AdmittedOnce, CountInv, BatchInv, TypeOK
<1>17. SlotConservation' /\ OutputExact' /\ ContinuationsFirst'
    BY <1>1 DEF SlotConservation, OutputExact, ContinuationsFirst
<1> QED BY <1>6, <1>7, <1>8, <1>9, <1>13, <1>14, <1>15, <1>16, <1>17

\* What the samples still to be drained have in common: they left the queue, and
\* the device is ahead of the host by them.
LEMMA OldestSample ==
    ASSUME IInv, pc = "drain", NEW u \in todo, u \notin Draining.chunks
    PROVE  /\ u \in Oldest /\ u \in Live /\ u \in Uid /\ u \in received
           /\ u \notin Waiting /\ u \notin chunked
           /\ u \in batch.reqs => u \in Sampled(batch)
           /\ admits[u] = 1 /\ hostLen[u] = inputLen[u] + tokens[u]
           /\ deviceLen[u] = hostLen[u] + 1 + (IF u \in Newest THEN 1 ELSE 0)
           /\ u \notin finished => ended[u] = {} /\ tokens[u] < outputLen[u]
<1> USE DEF IInv
<1>1. u \in Oldest /\ u \in Live
    BY DEF Oldest, Live
<1>2. /\ u \in Sampled(lastData) \/ u \in Sampled(batch)
      /\ u \in lastData.reqs \/ u \in batch.reqs
    BY DEF BatchInv, Draining, Sampled
<1>3. u \in Uid /\ u \in received /\ u \notin Waiting /\ u \notin chunked
    BY <1>2 DEF TypeOK, BatchInv, QueueInv
<1>4. u \in batch.reqs => u \in Sampled(batch)
    BY <1>3 DEF Sampled, BatchInv
<1>5. admits[u] = 1
    BY <1>2 DEF CountInv, BatchInv
<1>6. hostLen[u] = inputLen[u] + tokens[u]
    BY <1>1 DEF CountInv
<1>7. deviceLen[u] = hostLen[u] + 1 + (IF u \in Newest THEN 1 ELSE 0)
    BY <1>1, <1>3 DEF LengthInv
<1>8. u \notin finished => ended[u] = {} /\ tokens[u] < outputLen[u]
    BY <1>1 DEF ReplyInv, CountInv
<1> QED BY <1>1, <1>3, <1>4, <1>5, <1>6, <1>7, <1>8

\* Draining a chunk that is not the last emits nothing and preserves the
\* invariant (_process_last_data).
LEMMA DrainChunkStep ==
    ASSUME IInv, NEW u \in Uid, DrainChunk(u)
    PROVE  IInv'
<1> USE DEF IInv
<1>1. /\ pc = "drain" /\ pc' = "drain" /\ u \in todo /\ u \in Draining.chunks
      /\ todo' = todo \ {u}
      /\ UNCHANGED <<queueVars, lenVars, aborted, passVars, batch, lastData, finished,
                     newFinished, msgVars, replyVars, rebuildVars>>
    BY DEF DrainChunk
<1>2. /\ u \in aborted => seated' = seated \ {u}
      /\ u \notin aborted => seated' = seated
      /\ freeSlots' \in Nat /\ freePages' \in Nat /\ rowPages' \in [Uid -> Nat]
      /\ SlotConservation'
    <2>1. CASE u \in aborted BY <2>1, FreeEffect DEF DrainChunk
    <2>2. CASE u \notin aborted BY <2>2 DEF DrainChunk, poolVars, TypeOK, SlotConservation
    <2> QED BY <2>1, <2>2
<1>3. u \in aborted \cup chunked \cup Staying
    BY <1>1 DEF BatchInv, Draining, Staying
<1> USE DEF queueVars, lenVars, passVars, msgVars, replyVars, rebuildVars
<1>4. TypeOK'
    <2>1. seated' \in SUBSET Uid /\ todo' \in SUBSET Uid BY <1>1, <1>2 DEF TypeOK
    <2> QED BY <1>1, <1>2, <2>1 DEF TypeOK
<1>5. QueueInv' BY <1>1 DEF QueueInv, Waiting
<1>6. BatchInv' BY <1>1 DEF BatchInv, Waiting, Sampled, Draining
<1>7. SeatInv' BY <1>1, <1>2, <1>3 DEF SeatInv, Waiting, Staying, QueueInv
<1>8. Oldest' = Oldest /\ Newest' = Newest /\ Live' = Live
    BY <1>1 DEF Live, Oldest, Newest, Sampled, Draining
<1>9. LengthInv' BY <1>1, <1>8 DEF LengthInv, MaxDeviceLen
<1>10. ReplyInv' BY <1>1 DEF ReplyInv, Waiting, Staying
<1>11. CountInv' BY <1>1, <1>8 DEF CountInv, Waiting
<1>12. OutputExact' /\ AdmittedOnce' /\ ContinuationsFirst'
    BY <1>1 DEF OutputExact, AdmittedOnce, ContinuationsFirst
<1> QED BY <1>2, <1>4, <1>5, <1>6, <1>7, <1>9, <1>10, <1>11, <1>12

\* Draining a request aborted in flight frees it now and preserves the
\* invariant (_process_last_data, aborted_in_flight).
LEMMA DrainAbortedStep ==
    ASSUME IInv, NEW u \in Uid, DrainAborted(u)
    PROVE  IInv'
<1> USE DEF IInv
<1>1. /\ pc = "drain" /\ pc' = "drain" /\ u \in todo /\ u \notin Draining.chunks
      /\ u \in aborted /\ todo' = todo \ {u} /\ running' = running \ {u}
      /\ newFinished' = newFinished \cup {u}
      /\ UNCHANGED <<pending, chunked, lenVars, aborted, passVars, batch, lastData,
                     finished, msgVars, replyVars, rebuildVars>>
    BY DEF DrainAborted
<1>2. /\ seated' = seated \ {u}
      /\ freeSlots' \in Nat /\ freePages' \in Nat /\ rowPages' \in [Uid -> Nat]
      /\ SlotConservation'
    BY FreeEffect DEF DrainAborted
<1>3. /\ u \notin Waiting /\ u \notin chunked /\ u \notin running /\ u \notin batch.reqs
      /\ u \in received /\ running' = running
    BY <1>1, OldestSample DEF SeatInv
<1> USE DEF lenVars, passVars, msgVars, replyVars, rebuildVars
<1>4. TypeOK'
    <2>1. seated' \in SUBSET Uid /\ todo' \in SUBSET Uid /\ newFinished' \in SUBSET Uid
        BY <1>1, <1>2 DEF TypeOK
    <2> QED BY <1>1, <1>2, <1>3, <2>1 DEF TypeOK
<1>5. QueueInv' BY <1>1, <1>3 DEF QueueInv, Waiting
<1>6. BatchInv' BY <1>1 DEF BatchInv, Waiting, Sampled, Draining
<1>7. SeatInv' BY <1>1, <1>2, <1>3 DEF SeatInv, Waiting, Staying
<1>8. Oldest' = Oldest \ {u} /\ Newest' = Newest /\ Live' = Live \ {u}
    BY <1>1, <1>3 DEF Live, Oldest, Newest, Sampled, Draining
<1>9. LengthInv' BY <1>1, <1>3, <1>8 DEF LengthInv, MaxDeviceLen
<1>10. ReplyInv' BY <1>1, <1>3 DEF ReplyInv, Waiting, Staying
<1>11. CountInv' BY <1>1, <1>3, <1>8 DEF CountInv, Waiting
<1>12. OutputExact' /\ AdmittedOnce' /\ ContinuationsFirst'
    BY <1>1 DEF OutputExact, AdmittedOnce, ContinuationsFirst
<1> QED BY <1>2, <1>4, <1>5, <1>6, <1>7, <1>9, <1>10, <1>11, <1>12

\* Draining the extra token of a request that already ended publishes nothing
\* and preserves the invariant (_process_last_data, finished_reqs).
LEMMA DrainEndedStep ==
    ASSUME IInv, NEW u \in Uid, DrainEnded(u)
    PROVE  IInv'
<1> USE DEF IInv
<1>1. /\ pc = "drain" /\ pc' = "drain" /\ u \in todo /\ u \notin Draining.chunks
      /\ u \in finished /\ todo' = todo \ {u}
      /\ UNCHANGED <<queueVars, lenVars, aborted, poolVars, passVars, batch, lastData,
                     finished, newFinished, msgVars, replyVars, rebuildVars>>
    BY DEF DrainEnded, Ended
<1>2. u \notin seated /\ u \notin running /\ u \notin batch.reqs
    BY <1>1 DEF SeatInv
<1> USE DEF queueVars, lenVars, poolVars, passVars, msgVars, replyVars, rebuildVars
<1>3. TypeOK' BY <1>1 DEF TypeOK
<1>4. QueueInv' BY <1>1 DEF QueueInv, Waiting
<1>5. BatchInv' BY <1>1 DEF BatchInv, Waiting, Sampled, Draining
<1>6. SeatInv' BY <1>1, <1>2 DEF SeatInv, Waiting, Staying
<1>7. Oldest' = Oldest \ {u} /\ Newest' = Newest /\ Live' = Live \ {u}
    BY <1>1, <1>2 DEF Live, Oldest, Newest, Sampled, Draining
<1>8. LengthInv' BY <1>1, <1>7 DEF LengthInv, MaxDeviceLen
<1>9. ReplyInv' BY <1>1 DEF ReplyInv, Waiting, Staying
<1>10. CountInv' BY <1>1, <1>7 DEF CountInv, Waiting
<1>11. SlotConservation' /\ OutputExact' /\ AdmittedOnce' /\ ContinuationsFirst'
    BY <1>1 DEF SlotConservation, OutputExact, AdmittedOnce, ContinuationsFirst
<1> QED BY <1>3, <1>4, <1>5, <1>6, <1>8, <1>9, <1>10, <1>11

\* Draining one sampled token, with its finish tests, preserves the invariant
\* (_process_last_data).
LEMMA DrainTokenStep ==
    ASSUME IInv, NEW u \in Uid, DrainToken(u)
    PROVE  IInv'
<1> USE DEF IInv
<1>1. /\ pc = "drain" /\ pc' = "drain" /\ u \in todo /\ u \notin Draining.chunks
      /\ u \notin aborted /\ u \notin finished /\ todo' = todo \ {u}
      /\ hostLen' = [hostLen EXCEPT ![u] = @ + 1]
      /\ tokens' = [tokens EXCEPT ![u] = @ + 1]
      /\ UNCHANGED <<pc, pending, chunked, inputLen, outputLen, cachedLen, deviceLen,
                     aborted, passVars, batch, lastData, finished, msgVars, acks, admits,
                     rebuildVars>>
    BY DEF DrainToken, Ended
<1>2. PICK stop \in BOOLEAN :
          IF stop \/ HitLength(u)
          THEN /\ ended' = [ended EXCEPT ![u] = @ \cup {IF stop THEN "stop" ELSE "length"}]
               /\ running' = running \ {u}
               /\ newFinished' = newFinished \cup {u}
               /\ Free(u)
          ELSE UNCHANGED <<ended, running, newFinished, poolVars>>
    BY DEF DrainToken
<1> DEFINE last == stop \/ HitLength(u)
<1>3. /\ u \in Oldest /\ u \in Live /\ u \in received /\ u \notin Waiting /\ u \notin chunked
      /\ u \in batch.reqs => u \in Sampled(batch)
      /\ admits[u] = 1 /\ hostLen[u] = inputLen[u] + tokens[u] /\ ended[u] = {}
      /\ deviceLen[u] = hostLen[u] + 1 + (IF u \in Newest THEN 1 ELSE 0)
      /\ tokens[u] < outputLen[u]
    BY <1>1, OldestSample
<1>4. /\ hostLen[u] \in Nat /\ tokens[u] \in Nat /\ inputLen[u] \in Nat /\ outputLen[u] \in Nat
      /\ HitLength(u) <=> tokens[u] + 1 = outputLen[u]
    <2>1. TypeOK
        OBVIOUS
    <2> HIDE DEF IInv, last
    <2>2. /\ hostLen[u] \in Nat /\ tokens[u] \in Nat
          /\ inputLen[u] \in Nat /\ outputLen[u] \in Nat
        BY <2>1 DEF TypeOK
    <2>3. HitLength(u) <=> hostLen[u] + 1 >= inputLen[u] + outputLen[u]
        BY DEF HitLength, MaxDeviceLen
    <2>4. hostLen[u] = inputLen[u] + tokens[u] /\ tokens[u] < outputLen[u]
        BY <1>3
    <2>5. hostLen[u] + 1 >= inputLen[u] + outputLen[u] <=> tokens[u] + 1 = outputLen[u]
        BY <2>2, <2>4
    <2> QED BY <2>2, <2>3, <2>5
<1>5. /\ last => /\ seated' = seated \ {u} /\ running' = running \ {u}
                 /\ newFinished' = newFinished \cup {u}
                 /\ ended'[u] = {IF stop THEN "stop" ELSE "length"}
      /\ ~last => /\ seated' = seated /\ running' = running /\ newFinished' = newFinished
                  /\ ended' = ended
      /\ ended' \in [Uid -> SUBSET Terminals]
      /\ \A v \in Uid \ {u} : ended'[v] = ended[v]
      /\ freeSlots' \in Nat /\ freePages' \in Nat /\ rowPages' \in [Uid -> Nat]
      /\ SlotConservation'
    <2>1. CASE last
        <3>1. /\ seated' = seated \ {u} /\ SlotConservation'
              /\ freeSlots' \in Nat /\ freePages' \in Nat /\ rowPages' \in [Uid -> Nat]
            BY <1>2, <2>1, FreeEffect
        <3>2. /\ ended' \in [Uid -> SUBSET Terminals]
              /\ ended'[u] = {IF stop THEN "stop" ELSE "length"}
              /\ \A v \in Uid \ {u} : ended'[v] = ended[v]
            <4>1. ended \in [Uid -> SUBSET Terminals] BY DEF TypeOK
            <4>2. {"stop", "length"} \subseteq Terminals BY DEF Terminals
            <4>3. ended' = [ended EXCEPT ![u] = @ \cup {IF stop THEN "stop" ELSE "length"}]
                BY <1>2, <2>1
            <4> HIDE DEF last
            <4> QED BY <1>3, <4>1, <4>2, <4>3
        <3> QED BY <1>2, <2>1, <3>1, <3>2
    <2>2. CASE ~last
        BY <1>2, <2>2 DEF poolVars, TypeOK, SlotConservation
    <2> QED BY <2>1, <2>2
<1>6. /\ hostLen' \in [Uid -> Nat] /\ tokens' \in [Uid -> Nat]
      /\ hostLen'[u] = hostLen[u] + 1 /\ tokens'[u] = tokens[u] + 1
      /\ \A v \in Uid \ {u} : hostLen'[v] = hostLen[v] /\ tokens'[v] = tokens[v]
    BY SMTT(60), <1>1 DEF TypeOK
<1> HIDE DEF last
<1> USE DEF passVars, msgVars, rebuildVars
<1>7. TypeOK'
    <2>1. /\ seated' \in SUBSET Uid /\ todo' \in SUBSET Uid /\ newFinished' \in SUBSET Uid
          /\ running' \in SUBSET Uid
        BY <1>1, <1>5 DEF TypeOK
    <2> QED BY <1>1, <1>5, <1>6, <2>1 DEF TypeOK
<1>8. running' \subseteq running /\ Waiting' = Waiting /\ Staying' = Staying
    BY <1>1, <1>5 DEF Waiting, Staying
<1>9. QueueInv' BY <1>1, <1>8 DEF QueueInv
<1>10. BatchInv' BY <1>1, <1>5, <1>8 DEF BatchInv, Sampled, Draining
<1>11. /\ Oldest' = Oldest \ {u} /\ Newest' = Newest /\ Live' \subseteq Live
       /\ u \in Newest <=> u \in Staying
       /\ Live \subseteq Uid /\ Newest \subseteq Staying
    BY SMTT(60), <1>1, <1>3, <1>8 DEF Live, Oldest, Newest, Sampled, Draining, TypeOK, Batches, Staying
<1>12. ~last => u \in running \cup Newest
    <2>1. SUFFICES ASSUME ~last, u \notin running, u \notin Newest PROVE FALSE
        OBVIOUS
    <2>2. deviceLen[u] >= MaxDeviceLen(u)
        BY <1>1, <1>3, <2>1 DEF LengthInv
    <2>3. hostLen[u] + 1 >= MaxDeviceLen(u)
        <3>1. MaxDeviceLen(u) \in Nat BY <1>4 DEF MaxDeviceLen
        <3> QED BY <1>3, <1>4, <2>1, <2>2, <3>1
    <2> QED BY <2>1, <2>3 DEF last, HitLength
<1>13. SeatInv'
    <2>1. last => u \notin running' BY <1>5
    <2>2. seated' \subseteq chunked' \cup running' \cup todo' \cup Staying'
        BY <1>1, <1>5, <1>8, <1>11, <1>12 DEF SeatInv
    <2>3. Staying' \subseteq seated' \cup newFinished'
        BY <1>1, <1>5, <1>8 DEF SeatInv
    <2> QED BY <1>1, <1>3, <1>5, <1>8, <2>1, <2>2, <2>3 DEF SeatInv
<1>14. LengthInv'
    <2>1. \A v \in Live' : deviceLen'[v] = hostLen'[v] + (IF v \in Oldest' THEN 1 ELSE 0)
                                                       + (IF v \in Newest' THEN 1 ELSE 0)
        <3>1. SUFFICES ASSUME NEW v \in Live'
                       PROVE  deviceLen'[v] = hostLen'[v] + (IF v \in Oldest' THEN 1 ELSE 0)
                                                          + (IF v \in Newest' THEN 1 ELSE 0)
            OBVIOUS
        <3>2. CASE v = u BY <1>1, <1>3, <1>4, <1>6, <1>11, <3>2
        <3>3. CASE v # u
            <4>1. v \in Live /\ v \in Uid BY <1>11, <3>1
            <4> QED BY <1>1, <1>6, <1>11, <3>3, <4>1 DEF LengthInv
        <3> QED BY <3>2, <3>3
    <2>2. \A v \in Uid : MaxDeviceLen(v)' = MaxDeviceLen(v) BY <1>1 DEF MaxDeviceLen
    <2>3. \A v \in Oldest' \ (running' \cup aborted' \cup finished' \cup Newest') :
              deviceLen'[v] >= MaxDeviceLen(v)'
        BY <1>1, <1>5, <1>11 DEF LengthInv, MaxDeviceLen
    <2>4. \A v \in Newest' \ (running' \cup newFinished') : deviceLen'[v] >= MaxDeviceLen(v)'
        BY <1>1, <1>5, <1>11 DEF LengthInv, MaxDeviceLen
    <2>5. \A v \in running' : deviceLen'[v] < MaxDeviceLen(v)'
        BY <1>1, <1>8 DEF LengthInv, MaxDeviceLen
    <2> QED BY <1>1, <2>1, <2>3, <2>4, <2>5 DEF LengthInv
<1>15. ReplyInv'
    <2>1. \A v \in Uid : ended'[v] # {} =>
              v \in (received' \cup tombstones') \ (Waiting' \cup running')
        BY <1>1, <1>3, <1>5, <1>8 DEF ReplyInv
    <2>2. \A v \in todo' \ finished' : ended'[v] = {}
        BY <1>1, <1>5 DEF ReplyInv, TypeOK
    <2>3. \A v \in Staying' \ newFinished' : ended'[v] = {}
        BY ZenonT(60), <1>1, <1>3, <1>5, <1>8, <1>11 DEF ReplyInv, TypeOK, Staying, Batches
    <2> QED BY <1>1, <1>8, <2>1, <2>2, <2>3 DEF ReplyInv
<1>16. CountInv'
    <2>1. \A v \in Live' : hostLen'[v] = inputLen'[v] + tokens'[v]
        BY <1>1, <1>3, <1>4, <1>6, <1>11 DEF CountInv
    <2>2. \A v \in Waiting' \cup Live' : ended'[v] = {} => tokens'[v] < outputLen'[v]
        <3>1. ended'[u] = {} => tokens'[u] < outputLen'[u]
            BY SMTT(60), <1>1, <1>3, <1>4, <1>5, <1>6 DEF last
        <3>2. Waiting \subseteq Uid BY ElementsOfQueue DEF Waiting, TypeOK
        <3> QED BY <1>1, <1>5, <1>6, <1>8, <1>11, <3>1, <3>2 DEF CountInv
    <2>3. /\ \A v \in Uid : v \notin received' => admits'[v] = 0 /\ tokens'[v] = 0
          /\ \A v \in Waiting' : tokens'[v] = 0
        <3>1. Waiting \subseteq Uid BY ElementsOfQueue DEF Waiting, TypeOK
        <3> QED BY <1>1, <1>3, <1>6, <1>8, <3>1 DEF CountInv
    <2> QED BY <1>1, <1>8, <2>1, <2>2, <2>3 DEF CountInv
<1>17. OutputExact'
    <2>1. SUFFICES ASSUME NEW v \in Uid
                   PROVE  /\ tokens'[v] <= outputLen'[v]
                          /\ "length" \in ended'[v] => tokens'[v] = outputLen'[v]
        BY DEF OutputExact
    <2>2. CASE v # u BY <1>1, <1>5, <1>6, <2>2 DEF OutputExact
    <2>3. CASE v = u BY <1>1, <1>3, <1>4, <1>5, <1>6, <2>3 DEF last
    <2> QED BY <2>2, <2>3
<1>18. AdmittedOnce' /\ ContinuationsFirst'
    BY <1>1, <1>3, <1>6 DEF AdmittedOnce, ContinuationsFirst
<1> QED BY <1>5, <1>7, <1>9, <1>10, <1>13, <1>14, <1>15, <1>16, <1>17, <1>18

\* The end of an iteration publishes the replies, rotates the in-flight batch
\* and preserves the invariant (overlap_loop, normal_loop).
LEMMA EndIterationStep ==
    ASSUME IInv, EndIteration
    PROVE  IInv'
<1> USE DEF IInv
<1>1. /\ pc = "drain" /\ pc' \in {"idle", "poll"} /\ todo = {} /\ newFinished' = {}
      /\ finished' = IF Draining.reqs = {} THEN finished ELSE newFinished
      /\ ended' = [u \in Uid |-> IF u \in acks THEN ended[u] \cup {"aborted"} ELSE ended[u]]
      /\ acks' = {} /\ lastData' = (IF Overlap THEN batch ELSE NoBatch) /\ batch' = NoBatch
      /\ UNCHANGED <<queueVars, lenVars, aborted, poolVars, passVars, todo, msgVars,
                     admits, tokens, rebuildVars>>
    BY DEF EndIteration
<1>2. newFinished \subseteq finished' /\ finished' \subseteq finished \cup newFinished
    BY <1>1 DEF BatchInv
<1>3. lastData'.reqs = Staying /\ Waiting' = Waiting
    BY <1>1 DEF Staying, NoBatch, Waiting, queueVars, passVars
<1>4. /\ Oldest = {} /\ Oldest' = Newest /\ Newest' = {} /\ Live' = running \cup Newest
      /\ Live' \subseteq Live /\ running' = running
    BY <1>1 DEF Live, Oldest, Newest, Sampled, NoBatch, queueVars
<1> USE DEF queueVars, lenVars, poolVars, passVars, msgVars, rebuildVars
<1>5. TypeOK'
    <2>1. ended' \in [Uid -> SUBSET Terminals] BY <1>1 DEF TypeOK, Terminals
    <2>2. batch' \in Batches /\ lastData' \in Batches BY <1>1 DEF TypeOK, Batches, NoBatch
    <2>3. finished' \in SUBSET Uid /\ newFinished' \in SUBSET Uid /\ acks' \in SUBSET Uid
        BY <1>1 DEF TypeOK
    <2> QED BY <1>1, <2>1, <2>2, <2>3 DEF TypeOK
<1>6. QueueInv' BY <1>1, <1>3 DEF QueueInv
<1>7. BatchInv'
    BY <1>1, <1>3 DEF BatchInv, Sampled, NoBatch, Draining
<1>8. SeatInv'
    BY <1>1, <1>2, <1>3 DEF SeatInv, NoBatch, Staying
<1>9. LengthInv'
    <2>1. \A u \in Oldest' \ (running' \cup aborted' \cup finished' \cup Newest') :
              deviceLen'[u] >= MaxDeviceLen(u)'
        BY <1>1, <1>2, <1>4 DEF LengthInv, MaxDeviceLen
    <2>2. \A u \in Live' : deviceLen'[u] = hostLen'[u] + (IF u \in Oldest' THEN 1 ELSE 0)
                                                       + (IF u \in Newest' THEN 1 ELSE 0)
        <3>1. Live \subseteq Uid
            BY <1>1, <1>4 DEF Live, Newest, Sampled, TypeOK, Batches
        <3> QED BY <1>1, <1>4, <3>1 DEF LengthInv, TypeOK
    <2> QED BY <1>1, <1>4, <2>1, <2>2 DEF LengthInv, MaxDeviceLen, NoBatch
<1>10. ReplyInv'
    <2>1. \A u \in Uid : ended'[u] = IF u \in acks THEN ended[u] \cup {"aborted"} ELSE ended[u]
        BY <1>1
    <2>2. \A u \in lastData'.reqs \ finished' : ended'[u] = {}
        BY <1>1, <1>2, <1>3, <2>1 DEF ReplyInv, Staying, TypeOK, Batches
    <2>3. \A u \in Uid : ended'[u] # {} =>
              u \in (received' \cup tombstones') \ (Waiting' \cup running')
        BY <1>1, <1>3, <2>1 DEF ReplyInv
    <2> QED BY <1>1, <2>2, <2>3 DEF ReplyInv, NoBatch
<1>11. CountInv'
    <2>1. \A u \in Uid : ended'[u] = {} => ended[u] = {} BY <1>1
    <2>2. Waiting \subseteq Uid /\ Live' \subseteq Uid
        BY <1>1, <1>4, ElementsOfQueue DEF Waiting, Newest, Sampled, TypeOK, Batches
    <2>3. \A u \in Waiting' \cup Live' : ended'[u] = {} => tokens'[u] < outputLen'[u]
        BY <1>1, <1>3, <1>4, <2>1, <2>2 DEF CountInv
    <2>4. \A u \in chunked' \cup running' \cup batch'.reqs \cup lastData'.reqs :
              admits'[u] = IF u \in prompts' THEN 0 ELSE 1
        BY <1>1, <1>3, <1>4 DEF CountInv, Staying, NoBatch
    <2> QED BY <1>1, <1>3, <1>4, <2>3, <2>4 DEF CountInv
<1>12. SlotConservation' /\ OutputExact' /\ AdmittedOnce' /\ ContinuationsFirst'
    BY <1>1 DEF SlotConservation, OutputExact, AdmittedOnce, ContinuationsFirst
<1> QED BY <1>5, <1>6, <1>7, <1>8, <1>9, <1>10, <1>11, <1>12

-----------------------------------------------------------------------------
(***************************************************************************)
(* The theorems.                                                           *)
(***************************************************************************)
\* Every step of the scheduler preserves the strengthened invariant: one case
\* per action of Next.
LEMMA NextIInv == IInv /\ [Next]_vars => IInv'
<1> SUFFICES ASSUME IInv, [Next]_vars PROVE IInv' OBVIOUS
<1>1. CASE UNCHANGED vars
    <2> USE <1>1 DEF IInv, vars, queueVars, lenVars, poolVars, passVars, batchVars, msgVars, replyVars, rebuildVars
    <2>1. TypeOK' BY DEF TypeOK
    <2>2. QueueInv' /\ BatchInv' BY DEF QueueInv, BatchInv, Waiting, Sampled, Draining
    <2>3. SeatInv' BY DEF SeatInv, Waiting, Staying
    <2>4. LengthInv'
        BY DEF LengthInv, Live, Oldest, Newest, Sampled, Draining, MaxDeviceLen
    <2>5. ReplyInv' /\ CountInv'
        BY DEF ReplyInv, CountInv, Waiting, Staying, Live, Oldest, Newest, Sampled, Draining
    <2>6. SlotConservation' /\ OutputExact' /\ AdmittedOnce' /\ ContinuationsFirst'
        BY DEF SlotConservation, OutputExact, AdmittedOnce, ContinuationsFirst
    <2> QED BY <2>1, <2>2, <2>3, <2>4, <2>5, <2>6
<1>2. CASE Receive
    BY <1>2, DropUserStep, RejectUserStep, AcceptUserStep, AbortStep, ReceiveRebuildStep
    DEF Receive
<1>3. CASE Loop
    <2>1. CASE \E u \in Uid : Allocate(u)
        BY <2>1, AllocateStep, DeathStep DEF Allocate, AllocateShort
    <2>2. CASE LaunchFails
        BY <2>2, DeathStep DEF LaunchFails
    <2> QED BY <1>3, <2>1, <2>2, ScheduleStep, ExecuteRebuildStep, AdmitOneStep,
               PrefillBatchStep, DecodeBatchStep, LaunchStep, DrainChunkStep,
               DrainAbortedStep, DrainEndedStep, DrainTokenStep, EndIterationStep
            DEF Loop
<1> QED BY <1>1, <1>2, <1>3 DEF Next

\* The strengthened invariant holds in every reachable state, for every number
\* of requests, slots, pages and tokens.
THEOREM Inductive == Spec => []IInv
BY InitIInv, NextIInv, PTL DEF Spec

\* Every variable keeps its type; in particular no pool and no budget of the
\* scheduler ever goes below zero (allocate_paged, TableManager.allocate).
THEOREM TypeCorrect == Spec => []TypeOK
<1>1. IInv => TypeOK BY DEF IInv
<1> QED BY <1>1, Inductive, PTL

\* Table slots are never leaked nor freed twice, whatever aborts, finishes and
\* rebuilds come together (_free_req_resources).
THEOREM SlotsConserved == Spec => []SlotConservation
<1>1. IInv => SlotConservation BY DEF IInv
<1> QED BY <1>1, Inductive, PTL

\* When a queued rebuild is executed no request has a slot (rebuild_cache).
THEOREM RebuildFindsNoSeat == Spec => [](pc = "poll" /\ RebuildReady => seated = {})
<1>1. IInv => (pc = "poll" /\ RebuildReady => seated = {}) BY NothingSeated
<1> QED BY <1>1, Inductive, PTL

\* An abort never frees what a forward in flight still uses (_process_one_msg).
THEOREM InFlightSafe == Spec => []InFlightOwned
<1>1. IInv => InFlightOwned BY DEF IInv, SeatInv, InFlightOwned
<1> QED BY <1>1, Inductive, PTL

\* A request publishes at most max_tokens tokens, and exactly that many when it
\* ends on length (_process_last_data).
THEOREM OutputIsExact == Spec => []OutputExact
<1>1. IInv => OutputExact BY DEF IInv
<1> QED BY <1>1, Inductive, PTL

\* Each prompt is reported once and before its first token
\* (_report_prompt_admissions).
THEOREM AdmissionReportedOnce == Spec => []AdmittedOnce
<1>1. IInv => AdmittedOnce BY DEF IInv
<1> QED BY <1>1, Inductive, PTL

\* Requests in mid-prompt stay at the front of the queue (schedule_next_batch).
THEOREM ContinuationsStayFirst == Spec => []ContinuationsFirst
<1>1. IInv => ContinuationsFirst BY DEF IInv
<1> QED BY <1>1, Inductive, PTL

\* Once a request has a terminal reply a step can only add the acknowledgement
\* of an abort to what was published for it.
LEMMA AfterTerminal ==
    ASSUME IInv, [Next]_vars, NEW u \in Uid, ended[u] # {}
    PROVE  /\ tokens'[u] = tokens[u] /\ admits'[u] = admits[u]
           /\ ended'[u] \in {ended[u], ended[u] \cup {"aborted"}}
<1> USE DEF IInv
<1>1. CASE UNCHANGED vars BY <1>1 DEF vars, replyVars
<1>2. CASE Receive
    <2>1. ASSUME NEW v \in Uid, RejectUser(v)
          PROVE  v # u /\ ended' = [ended EXCEPT ![v] = @ \cup {"error"}]
                 /\ UNCHANGED <<tokens, admits>>
        BY <2>1 DEF RejectUser, Tombstoned, ReplyInv
    <2> QED BY <1>2, <2>1
            DEF Receive, DropUser, AcceptUser, Abort, ReceiveRebuild, replyVars, TypeOK
<1>3. CASE Loop
    <2>1. CASE Launch
        <3>1. u \notin prompts BY <2>1 DEF Launch, ReplyInv, BatchInv
        <3> QED BY <2>1, <3>1 DEF Launch
    <2>2. CASE \E v \in Uid : DrainToken(v)
        <3>1. PICK v \in Uid : DrainToken(v) BY <2>2
        <3>2. v # u BY <3>1, OldestSample DEF DrainToken, Ended
        <3> QED BY <3>1, <3>2 DEF DrainToken, TypeOK
    <2>3. CASE EndIteration BY <2>3 DEF EndIteration
    <2>4. CASE \E v \in Uid : \/ Allocate(v) \/ DrainChunk(v)
                              \/ DrainAborted(v) \/ DrainEnded(v)
        BY <2>4 DEF Allocate, AllocatePages, AllocateShort, DrainChunk, DrainAborted, DrainEnded, replyVars
    <2>5. CASE \/ Schedule \/ ExecuteRebuild \/ AdmitOne \/ PrefillBatch \/ DecodeBatch
               \/ LaunchFails
        BY <2>5 DEF Schedule, ExecuteRebuild, AdmitOne, PrefillBatch, DecodeBatch,
                    LaunchFails, replyVars
    <2> QED BY <1>3, <2>1, <2>2, <2>3, <2>4, <2>5 DEF Loop
<1> QED BY <1>1, <1>2, <1>3 DEF Next

\* After a request's terminal reply only an abort acknowledgement follows
\* (_process_last_data, _flush_abort_acks).
THEOREM TerminalEndsReplies == Spec => TerminalIsLast
<1> DEFINE A == \A u \in Uid : ended[u] # {} =>
                    /\ tokens'[u] = tokens[u] /\ admits'[u] = admits[u]
                    /\ ended'[u] \subseteq ended[u] \cup {"aborted"}
<1>1. IInv /\ [Next]_vars => [A]_vars BY AfterTerminal
<1> QED BY <1>1, Inductive, PTL DEF Spec, TerminalIsLast

\* The abort acknowledgement is the last thing published for its request: it may
\* serve as the accounting barrier (_flush_abort_acks).
THEOREM AbortIsBarrier == Spec => AbortBarrier
<1> DEFINE A == \A u \in Uid : "aborted" \in ended[u] =>
                    /\ tokens'[u] = tokens[u] /\ admits'[u] = admits[u]
                    /\ ended'[u] = ended[u]
<1>1. IInv /\ [Next]_vars => [A]_vars BY AfterTerminal
<1> QED BY <1>1, Inductive, PTL DEF Spec, AbortBarrier

-----------------------------------------------------------------------------
(***************************************************************************)
(* The scheduler implements RequestLife, for every number of requests,     *)
(* pages, slots and aborts, with and without overlap: its initial states   *)
(* map to initial states, and every step maps to a step or to a stutter.   *)
(* The proof uses the inductive invariant above and one more fact, that    *)
(* what is drained still holds its slot.                                   *)
(***************************************************************************)

\* A request whose result is being drained has its slot, unless it had ended.
DrainInv == pc = "drain" => todo \subseteq seated \cup finished

\* A result is drained before anything else could take the request's slot
\* (_process_last_data).
LEMMA NextDrainInv ==
    ASSUME IInv, DrainInv, [Next]_vars
    PROVE  DrainInv'
<1> USE DEF DrainInv
<1>1. CASE UNCHANGED vars
    BY <1>1 DEF vars, batchVars, poolVars
<1>2. CASE Receive
    BY <1>2 DEF Receive, DropUser, RejectUser, AcceptUser, Abort, ReceiveRebuild
<1>3. CASE Launch
    <2>1. todo' = Draining.reqs /\ UNCHANGED <<batch, lastData, seated, finished>> /\ pc = "alloc"
        BY <1>3 DEF Launch, poolVars
    <2>2. batch.reqs \subseteq seated /\ lastData.reqs \subseteq seated \cup finished
        BY <2>1 DEF IInv, SeatInv
    <2> QED BY <2>1, <2>2 DEF Draining
<1>4. CASE \E u \in Uid : DrainChunk(u) \/ DrainAborted(u) \/ DrainEnded(u) \/ DrainToken(u)
    <2>1. PICK u \in Uid : DrainChunk(u) \/ DrainAborted(u) \/ DrainEnded(u) \/ DrainToken(u)
        BY <1>4
    <2>2. pc = "drain" /\ todo' = todo \ {u} /\ finished' = finished
        BY <2>1 DEF DrainChunk, DrainAborted, DrainEnded, DrainToken
    <2>3. seated \ {u} \subseteq seated'
        BY <2>1 DEF DrainChunk, DrainAborted, DrainEnded, DrainToken, Free, poolVars
    <2> QED BY <2>2, <2>3
<1>5. CASE EndIteration
    BY <1>5 DEF EndIteration
<1>6. CASE \/ Schedule \/ ExecuteRebuild \/ AdmitOne \/ PrefillBatch \/ DecodeBatch
           \/ LaunchFails \/ \E u \in Uid : Allocate(u)
    BY <1>6 DEF Schedule, ExecuteRebuild, AdmitOne, PrefillBatch, DecodeBatch, LaunchFails,
                Allocate, AllocatePages, AllocateShort
<1> QED BY <1>1, <1>2, <1>3, <1>4, <1>5, <1>6 DEF Next, Loop

-----------------------------------------------------------------------------
(***************************************************************************)
(* The refinement mapping.                                                 *)
(***************************************************************************)
\* A request's stage follows from three facts about it.
LEMMA StageOf ==
    ASSUME NEW u \in Uid
    PROVE  /\ Stage[u] = "held" <=> u \in seated
           /\ Stage[u] = "queued" <=> u \in ToSet(pending) \ seated
           /\ Stage[u] = "gone" <=> u \in received \ (seated \cup ToSet(pending))
           /\ Stage[u] = "new" <=> u \notin received \cup seated \cup ToSet(pending)
BY DEF Stage

\* A step that changes none of them for any request is invisible.
LEMMA StageStays ==
    ASSUME seated' = seated, received' = received,
           ToSet(pending)' \cup seated = ToSet(pending) \cup seated
    PROVE  Stage' = Stage
BY DEF Stage

\* A step that changes them for one request moves that request.
LEMMA StageMoves ==
    ASSUME NEW u \in Uid, NEW s,
           s = IF u \in seated' THEN "held"
               ELSE IF u \in ToSet(pending)' THEN "queued"
               ELSE IF u \in received' THEN "gone" ELSE "new",
           seated' \ {u} = seated \ {u}, received' \ {u} = received \ {u},
           ToSet(pending)' \ {u} = ToSet(pending) \ {u}
    PROVE  Stage' = [Stage EXCEPT ![u] = s]
<1>1. ASSUME NEW v \in Uid, v # u
      PROVE  /\ v \in seated' <=> v \in seated
             /\ v \in received' <=> v \in received
             /\ v \in ToSet(pending)' <=> v \in ToSet(pending)
    BY <1>1
<1> QED BY <1>1 DEF Stage

\* Freeing a request's resources lets it go, if it held any.
LEMMA FreeLetsGo ==
    ASSUME IInv, NEW u \in Uid, Free(u), u \in received, u \notin ToSet(pending),
           pending' = pending, received' = received, UNCHANGED <<outputLen, admits, tokens, ended>>
    PROVE  [Life!Next]_(Life!life)
<1>1. CASE u \in seated
    <2>1. seated' = seated \ {u} BY <1>1 DEF Free
    <2>2. Stage' = [Stage EXCEPT ![u] = "gone"] BY <2>1, StageMoves
    <2>3. Stage[u] = "held" BY <1>1, StageOf
    <2> QED BY <2>2, <2>3 DEF Life!Next, Life!Withdraw, Life!Becomes
<1>2. CASE u \notin seated
    <2>1. seated' = seated BY <1>2 DEF Free, poolVars
    <2> QED BY <2>1, StageStays DEF Life!life
<1> QED BY <1>1, <1>2

-----------------------------------------------------------------------------
(***************************************************************************)
(* Messages.                                                               *)
(***************************************************************************)
\* A request that was not received is queued nowhere and holds nothing.
LEMMA NotReceived ==
    ASSUME IInv, NEW u \in Uid, u \notin received
    PROVE  Stage[u] = "new" /\ u \notin seated /\ u \notin ToSet(pending)
<1>1. u \notin Waiting \cup running /\ u \notin lastData.reqs \cup batch.reqs
    BY DEF IInv, QueueInv, BatchInv
<1>2. u \notin todo
    BY <1>1 DEF IInv, BatchInv, Draining
<1>3. u \notin chunked
    BY <1>1 DEF IInv, QueueInv
<1>4. u \notin seated
    BY <1>1, <1>2, <1>3 DEF IInv, SeatInv, Staying
<1>5. u \notin ToSet(pending)
    BY <1>1 DEF Waiting
<1> QED BY <1>4, <1>5, StageOf

\* A UserMsg that comes after its abort is dropped.
LEMMA DropUserRefines ==
    ASSUME IInv, NEW u \in Uid, DropUser(u)
    PROVE  [Life!Next]_(Life!life)
<1>1. /\ u \notin received /\ received' = received \cup {u}
      /\ UNCHANGED <<seated, pending, outputLen, admits, tokens, ended>>
    BY DEF DropUser, poolVars, queueVars, lenVars, replyVars
<1>2. Stage[u] = "new" /\ u \notin seated /\ u \notin ToSet(pending)
    BY <1>1, NotReceived
<1>3. Stage' = [Stage EXCEPT ![u] = "gone"] BY <1>1, <1>2, StageMoves
<1> QED BY <1>1, <1>2, <1>3 DEF Life!Next, Life!Ignore, Life!Becomes

\* A UserMsg over the limit ends at once.
LEMMA RejectUserRefines ==
    ASSUME IInv, NEW u \in Uid, RejectUser(u)
    PROVE  [Life!Next]_(Life!life)
<1>1. /\ u \notin received /\ received' = received \cup {u} /\ u \notin tombstones
      /\ ended' = [ended EXCEPT ![u] = @ \cup {"error"}]
      /\ UNCHANGED <<seated, pending, outputLen, admits, tokens>>
    BY DEF RejectUser, Tombstoned, poolVars, queueVars, lenVars, replyVars
<1>2. Stage[u] = "new" /\ u \notin seated /\ u \notin ToSet(pending)
    BY <1>1, NotReceived
<1>3. ended[u] = {} BY <1>1 DEF IInv, ReplyInv
<1>4. Stage' = [Stage EXCEPT ![u] = "gone"] BY <1>1, <1>2, StageMoves
<1>5. ended' = [ended EXCEPT ![u] = {"error"}] BY <1>1, <1>3
<1> QED BY <1>1, <1>2, <1>3, <1>4, <1>5 DEF Life!Next, Life!Reject, Life!Becomes

\* A UserMsg is queued.
LEMMA AcceptUserRefines ==
    ASSUME IInv, NEW u \in Uid, AcceptUser(u)
    PROVE  [Life!Next]_(Life!life)
<1>1. /\ u \notin received /\ received' = received \cup {u} /\ u \notin tombstones
      /\ pending' = Append(pending, u)
      /\ UNCHANGED <<seated, admits, tokens, ended>>
    BY DEF AcceptUser, Tombstoned, poolVars, replyVars
<1>2. PICK shape \in Shapes : outputLen' = [outputLen EXCEPT ![u] = shape.output]
    BY DEF AcceptUser
<1>3. Stage[u] = "new" /\ u \notin seated /\ u \notin ToSet(pending)
    BY <1>1, NotReceived
<1>4. ended[u] = {} BY <1>1 DEF IInv, ReplyInv
<1>5. ToSet(pending)' = ToSet(pending) \cup {u}
    BY <1>1, <1>3, AppendToQueue DEF IInv, TypeOK, QueueInv
<1>6. Stage' = [Stage EXCEPT ![u] = "queued"] BY <1>1, <1>3, <1>5, StageMoves
<1>7. \E n \in {a.output : a \in Shapes} : outputLen' = [outputLen EXCEPT ![u] = n]
    BY <1>2
<1> QED BY <1>1, <1>3, <1>4, <1>6, <1>7 DEF Life!Next, Life!Submit, Life!Becomes

\* An abort takes its request out of the queue, or away from its slot; one whose
\* forward is in flight keeps it for now.
LEMMA AbortRefines ==
    ASSUME IInv, NEW u \in Uid, Abort(u)
    PROVE  [Life!Next]_(Life!life)
<1>1. /\ pending' = RemoveFirst(pending, u) /\ received' = received
      /\ UNCHANGED <<outputLen, admits, tokens, ended>>
    BY DEF Abort, lenVars
<1>2. ToSet(pending)' = ToSet(pending) \ {u}
    BY ZenonT(60), <1>1, RemoveFromQueue DEF IInv, TypeOK, QueueInv
<1>3. u \in ToSet(pending) \cup chunked \cup running => u \in received
    BY DEF IInv, QueueInv, Waiting
<1>4. CASE AbortTakes(u) /\ ~InFlight(u)
    <2>1. u \in seated /\ u \in received
        BY <1>3, <1>4 DEF AbortTakes, IInv, SeatInv
    <2>2. seated' = seated \ {u} BY <1>4, <2>1 DEF Abort, Free
    <2>3. Stage' = [Stage EXCEPT ![u] = "gone"] BY <1>1, <1>2, <2>1, <2>2, StageMoves
    <2>4. Stage[u] = "held" BY <2>1, StageOf
    <2> QED BY <1>1, <2>3, <2>4 DEF Life!Next, Life!Withdraw, Life!Becomes
<1>5. CASE ~(AbortTakes(u) /\ ~InFlight(u))
    <2>1. seated' = seated BY <1>5 DEF Abort, poolVars
    <2>2. CASE u \in ToSet(pending) \ seated
        <3>1. Stage' = [Stage EXCEPT ![u] = "gone"] BY <1>1, <1>2, <1>3, <2>1, <2>2, StageMoves
        <3>2. Stage[u] = "queued" BY <2>2, StageOf
        <3> QED BY <1>1, <3>1, <3>2 DEF Life!Next, Life!Withdraw, Life!Becomes
    <2>3. CASE u \notin ToSet(pending) \ seated
        <3>1. ToSet(pending)' \cup seated = ToSet(pending) \cup seated BY <1>2, <2>3
        <3>2. Stage' = Stage BY <1>1, <2>1, <3>1, StageStays
        <3> QED BY <1>1, <3>2 DEF Life!life
    <2> QED BY <2>2, <2>3
<1> QED BY <1>4, <1>5

-----------------------------------------------------------------------------
(***************************************************************************)
(* The loop.                                                               *)
(***************************************************************************)
\* The head of the queue gets a slot, or goes on with the one it has.
LEMMA AdmitOneRefines ==
    ASSUME IInv, AdmitOne
    PROVE  [Life!Next]_(Life!life)
<1> DEFINE u == Head(pending)
<1>1. /\ pending # <<>> /\ pending' = Tail(pending) /\ received' = received
      /\ seated' = IF u \in chunked THEN seated ELSE seated \cup {u}
      /\ UNCHANGED <<outputLen, admits, tokens, ended>>
    BY DEF AdmitOne, msgVars, replyVars
<1>2. /\ u \in Uid /\ u \in ToSet(pending) /\ ToSet(pending)' = ToSet(pending) \ {u}
    BY <1>1, TailOfQueue DEF IInv, TypeOK, QueueInv
<1>3. u \in seated <=> u \in chunked
    BY <1>2 DEF IInv, SeatInv, Waiting
<1>4. ended[u] = {}
    BY <1>2 DEF IInv, ReplyInv, Waiting
<1> HIDE DEF u
<1>5. CASE u \in seated
    <2>1. Stage' = Stage BY <1>1, <1>2, <1>3, <1>5, StageStays
    <2> QED BY <1>1, <2>1 DEF Life!life
<1>6. CASE u \notin seated
    <2>1. seated' = seated \cup {u} BY <1>1, <1>3, <1>6
    <2>2. Stage' = [Stage EXCEPT ![u] = "held"] BY <1>1, <1>2, <2>1, StageMoves
    <2>3. Stage[u] = "queued" BY <1>2, <1>6, StageOf
    <2> QED BY <1>1, <1>2, <1>4, <2>2, <2>3 DEF Life!Next, Life!Seat, Life!Becomes
<1> QED BY <1>5, <1>6

\* Putting the continuations back changes nobody's stage: they have slots.
LEMMA PrefillBatchRefines ==
    ASSUME IInv, PrefillBatch
    PROVE  [Life!Next]_(Life!life)
<1>1. /\ pending' = chunkedList \o pending
      /\ UNCHANGED <<seated, received, outputLen, admits, tokens, ended>>
    BY DEF PrefillBatch, Requeued, poolVars, msgVars, lenVars, replyVars
<1>2. ToSet(pending)' = ToSet(chunkedList) \cup ToSet(pending)
    <2>1. /\ pending \in Seq(Uid) /\ IsInjective(pending)
          /\ chunkedList \in Seq(Uid) /\ IsInjective(chunkedList)
          /\ ToSet(chunkedList) \cap ToSet(pending) = {}
        BY DEF IInv, TypeOK, QueueInv
    <2> QED BY <1>1, <2>1, ConcatQueues
<1>3. ToSet(chunkedList) \subseteq seated
    BY DEF IInv, QueueInv, SeatInv
<1>4. Stage' = Stage BY <1>1, <1>2, <1>3, StageStays
<1> QED BY <1>1, <1>4 DEF Life!life

\* A launch reports the prompts it admitted, once each.
LEMMA LaunchRefines ==
    ASSUME IInv, Launch
    PROVE  [Life!Next]_(Life!life)
<1>1. /\ pc = "alloc"
      /\ admits' = [u \in Uid |-> IF u \in prompts THEN admits[u] + 1 ELSE admits[u]]
      /\ UNCHANGED <<seated, pending, received, outputLen, tokens, ended>>
    BY DEF Launch, poolVars, msgVars
<1>2. prompts \in SUBSET Uid /\ prompts \subseteq batch.reqs
    BY DEF IInv, TypeOK, BatchInv
<1>3. ASSUME NEW u \in prompts
      PROVE  Stage[u] = "held" /\ admits[u] = 0 /\ ended[u] = {}
    <2>1. u \in Uid /\ u \in seated BY <1>1, <1>2 DEF IInv, SeatInv
    <2>2. ended[u] = {} /\ admits[u] = 0 BY <1>1, <1>2 DEF IInv, ReplyInv, CountInv
    <2> QED BY <2>1, <2>2, StageOf
<1>4. admits' = [u \in Uid |-> IF u \in prompts THEN 1 ELSE admits[u]]
    BY <1>1, <1>2, <1>3
<1>5. Stage' = Stage BY <1>1, StageStays
<1> QED BY <1>1, <1>2, <1>3, <1>4, <1>5 DEF Life!Next, Life!Report

\* A drained token comes from a request that holds its slot; the terminal reply
\* and the slot go together.
LEMMA DrainTokenRefines ==
    ASSUME IInv, DrainInv, NEW u \in Uid, DrainToken(u)
    PROVE  [Life!Next]_(Life!life)
<1>1. /\ pc = "drain" /\ u \in todo /\ u \notin Draining.chunks /\ u \notin finished
      /\ tokens' = [tokens EXCEPT ![u] = @ + 1]
      /\ UNCHANGED <<pending, received, outputLen, admits>>
    BY DEF DrainToken, Ended, msgVars
<1>2. /\ u \in received /\ u \notin Waiting /\ admits[u] = 1 /\ ended[u] = {}
      /\ hostLen[u] = inputLen[u] + tokens[u] /\ tokens[u] < outputLen[u]
    BY <1>1, OldestSample
<1>3. u \in seated /\ u \notin ToSet(pending)
    BY <1>1, <1>2 DEF DrainInv, Waiting
<1>4. Stage[u] = "held" BY <1>3, StageOf
<1>5. /\ inputLen[u] \in Nat /\ outputLen[u] \in Nat /\ tokens[u] \in Nat
    BY DEF IInv, TypeOK
<1>6. HitLength(u) <=> tokens[u] + 1 = outputLen[u]
    BY <1>2, <1>5 DEF HitLength, MaxDeviceLen
<1>7. PICK stop \in BOOLEAN :
          IF stop \/ HitLength(u)
          THEN /\ ended' = [ended EXCEPT ![u] = @ \cup {IF stop THEN "stop" ELSE "length"}]
               /\ Free(u)
          ELSE UNCHANGED <<ended, poolVars>>
    BY DEF DrainToken
<1>8. CASE stop \/ HitLength(u)
    <2> DEFINE why == IF stop THEN "stop" ELSE "length"
    <2>1. ended' = [ended EXCEPT ![u] = {why}] BY <1>2, <1>7, <1>8
    <2>2. seated' = seated \ {u} BY <1>3, <1>7, <1>8 DEF Free
    <2>3. Stage' = [Stage EXCEPT ![u] = "gone"] BY <1>1, <1>2, <1>3, <2>2, StageMoves
    <2>4. why \in {"stop", "length"} /\ (why = "length" => tokens[u] + 1 = outputLen[u])
        BY <1>6, <1>8
    <2>5. tokens[u] + 1 <= outputLen[u] BY <1>2, <1>5
    <2> HIDE DEF why
    <2>6. Life!Finish(u, why)
        BY <1>1, <1>2, <1>4, <2>1, <2>3, <2>4, <2>5 DEF Life!Finish, Life!Publishes, Life!Becomes
    <2> QED BY <2>4, <2>6 DEF Life!Next
<1>9. CASE ~(stop \/ HitLength(u))
    <2>1. UNCHANGED <<ended, seated>> BY <1>7, <1>9 DEF poolVars
    <2>2. tokens[u] + 1 < outputLen[u] BY <1>2, <1>5, <1>6, <1>9
    <2>3. Stage' = Stage BY <1>1, <2>1, StageStays
    <2>4. Life!Sample(u)
        BY <1>1, <1>2, <1>4, <2>1, <2>2, <2>3 DEF Life!Sample, Life!Publishes
    <2> QED BY <2>4 DEF Life!Next
<1> QED BY <1>8, <1>9

\* Results of chunks and of aborted requests publish nothing; what an abort had
\* left in place is let go of.
LEMMA DrainQuietRefines ==
    ASSUME IInv, NEW u \in Uid, DrainChunk(u) \/ DrainAborted(u)
    PROVE  [Life!Next]_(Life!life)
<1>1. /\ pc = "drain" /\ u \in todo
      /\ UNCHANGED <<pending, received, outputLen, admits, tokens, ended>>
    BY DEF DrainChunk, DrainAborted, queueVars, lenVars, msgVars, replyVars
<1>2. CASE u \in aborted
    <2>1. u \in received /\ u \notin ToSet(pending) BY <1>2 DEF IInv, SeatInv, Waiting
    <2>2. Free(u) BY <1>2 DEF DrainChunk, DrainAborted
    <2> QED BY <1>1, <2>1, <2>2, FreeLetsGo
<1>3. CASE u \notin aborted
    <2>1. seated' = seated BY <1>3 DEF DrainChunk, DrainAborted, poolVars
    <2>2. Stage' = Stage BY <1>1, <2>1, StageStays
    <2> QED BY <1>1, <2>2 DEF Life!life
<1> QED BY <1>2, <1>3

\* Aborts are acknowledged for requests that hold nothing and wait nowhere.
LEMMA EndIterationRefines ==
    ASSUME IInv, EndIteration
    PROVE  [Life!Next]_(Life!life)
<1>1. /\ pc = "drain" /\ todo = {}
      /\ ended' = [u \in Uid |-> IF u \in acks THEN ended[u] \cup {"aborted"} ELSE ended[u]]
      /\ UNCHANGED <<seated, pending, received, outputLen, admits, tokens>>
    BY DEF EndIteration, poolVars, queueVars, msgVars, lenVars
<1>2. acks \in SUBSET Uid BY DEF IInv, TypeOK
<1>3. ASSUME NEW u \in acks
      PROVE  Stage[u] \in {"new", "gone"}
    <2>1. u \in Uid /\ u \notin Waiting \cup running \cup batch.reqs
        BY <1>2 DEF IInv, ReplyInv
    <2>2. u \notin ToSet(pending) BY <2>1 DEF Waiting
    <2>3. u \notin chunked BY <2>1 DEF IInv, QueueInv
    <2>4. u \notin seated BY <1>1, <2>1, <2>3 DEF IInv, SeatInv, Staying
    <2> QED BY <2>1, <2>2, <2>4 DEF Stage
<1>4. Stage' = Stage BY <1>1, StageStays
<1> QED BY <1>1, <1>2, <1>3, <1>4 DEF Life!Next, Life!Acknowledge

-----------------------------------------------------------------------------
\* The initial states map to initial states.
LEMMA InitRefines == Init => Life!Init
<1> SUFFICES ASSUME Init PROVE Life!Init OBVIOUS
<1>1. seated = {} /\ ToSet(pending) = {} /\ received = {} BY DEF Init, ToSet
<1> QED BY <1>1 DEF Init, Life!Init, Stage

\* Every step maps to a step of RequestLife or to a stutter.
LEMMA StepRefines ==
    ASSUME IInv, DrainInv, [Next]_vars
    PROVE  [Life!Next]_(Life!life)
<1>1. CASE UNCHANGED vars
    <2>1. UNCHANGED <<seated, pending, received, outputLen, admits, tokens, ended>>
        BY <1>1 DEF vars, poolVars, queueVars, msgVars, lenVars, replyVars
    <2>2. Stage' = Stage BY <2>1, StageStays
    <2> QED BY <2>1, <2>2 DEF Life!life
<1>2. CASE Receive
    <2>1. CASE ReceiveRebuild
        <3>1. UNCHANGED <<seated, pending, received, outputLen, admits, tokens, ended>>
            BY <2>1 DEF ReceiveRebuild, poolVars, queueVars, msgVars, lenVars, replyVars
        <3>2. Stage' = Stage BY <3>1, StageStays
        <3> QED BY <3>1, <3>2 DEF Life!life
    <2> QED BY <1>2, <2>1, DropUserRefines, RejectUserRefines, AcceptUserRefines, AbortRefines
            DEF Receive
<1>3. CASE Loop
    <2>1. CASE \/ Schedule \/ ExecuteRebuild \/ DecodeBatch \/ LaunchFails
               \/ \E u \in Uid : Allocate(u) \/ DrainEnded(u)
        <3>1. UNCHANGED <<seated, pending, received, outputLen, admits, tokens, ended>>
            BY <2>1 DEF Schedule, ExecuteRebuild, DecodeBatch, LaunchFails, Allocate,
                        AllocatePages, AllocateShort, DrainEnded,
                        poolVars, queueVars, msgVars, lenVars, replyVars
        <3>2. Stage' = Stage BY <3>1, StageStays
        <3> QED BY <3>1, <3>2 DEF Life!life
    <2> QED BY <1>3, <2>1, AdmitOneRefines, PrefillBatchRefines, LaunchRefines,
               DrainTokenRefines, DrainQuietRefines, EndIterationRefines
            DEF Loop
<1> QED BY <1>1, <1>2, <1>3 DEF Next

\* The scheduler keeps the promise of RequestLife: only a request that holds its
\* slot publishes, the slot goes back with the terminal reply, and an abort is
\* acknowledged when nothing is held (_process_last_data, _flush_abort_acks).
THEOREM KeepsPromise == Spec => ImplementsLife
<1>1. Init => DrainInv BY DEF Init, DrainInv
<1>2. Spec => []DrainInv BY <1>1, NextDrainInv, Inductive, PTL DEF Spec
<1> QED BY <1>2, InitRefines, StepRefines, Inductive, PTL DEF Spec, ImplementsLife, Life!Spec

-----------------------------------------------------------------------------

(***************************************************************************)
(* The KV pages: none is lost or freed twice, a rebuild finds all of them  *)
(* free, and, where a request's pages hold no more tokens than admission   *)
(* counted, it has reserved every page a later step takes.  This rests on  *)
(* IInv and on sums over the requests; the inductive invariant on pages:   *)
(***************************************************************************)

\* Between the allocation of a request's pages and its launch the row is ahead
\* of cached_len.
Covered(u) ==
    IF pc \in {"alloc", "dead"} /\ u \in batch.reqs \ unallocated
    THEN deviceLen[u] ELSE cachedLen[u]

\* A row holds the pages of what is cached, and nothing once the slot is gone.
RowInv ==
    /\ \A u \in Uid : rowPages[u] = IF u \in seated THEN Pages(Covered(u)) ELSE 0
    /\ pc = "admit" => batch.reqs = unallocated

\* PageConservation, with the sum written over the function rowPages.
PagesConserved == freePages + SumOver(rowPages, Uid) = numPages

PageInv == RowInv /\ PagesConserved

-----------------------------------------------------------------------------
\* A sum of lengths of rows is a number of pages.
LEMMA RowSum ==
    ASSUME NEW f \in [Uid -> Nat]
    PROVE  SumOver(f, Uid) \in Nat /\ \A u \in Uid : f[u] <= SumOver(f, Uid)
BY UidAssumption, SumNat

\* A request that ends outside allocation returns exactly the pages of its row.
LEMMA FreeReturnsRow ==
    ASSUME TypeOK, PageInv, pc \notin {"alloc", "dead"}, NEW u \in Uid, Free(u)
    PROVE  /\ seated' = seated \ {u}
           /\ \A v \in Uid : rowPages'[v] = IF v = u THEN 0 ELSE rowPages[v]
           /\ freePages' = freePages + rowPages[u]
           /\ freePages' + SumOver(rowPages', Uid) = freePages + SumOver(rowPages, Uid)
<1>1. rowPages \in [Uid -> Nat] /\ freePages \in Nat BY DEF TypeOK
<1>2. CASE u \in seated
    <2>1. rowPages[u] = Pages(cachedLen[u]) BY <1>2 DEF PageInv, RowInv, Covered
    <2>2. /\ seated' = seated \ {u}
          /\ freePages' = freePages + rowPages[u]
          /\ rowPages' = [rowPages EXCEPT ![u] = 0]
        BY <1>2, <2>1 DEF Free, PaddedTail
    <2>3. \A v \in Uid : rowPages'[v] = IF v = u THEN 0 ELSE rowPages[v]
        BY <1>1, <2>2
    <2>4. \A v \in Uid : rowPages[v] \in Int /\ rowPages'[v] \in Int BY <1>1, <2>3
    <2>5. SumOver(rowPages', Uid) = SumOver(rowPages, Uid) + rowPages'[u] - rowPages[u]
        BY <2>3, <2>4, UidAssumption, SumUpdate
    <2>6. SumOver(rowPages, Uid) \in Nat BY <1>1, RowSum
    <2> QED BY <1>1, <2>2, <2>3, <2>5, <2>6
<1>3. CASE u \notin seated
    <2>1. rowPages[u] = 0 BY <1>3 DEF PageInv, RowInv
    <2>2. UNCHANGED poolVars BY <1>3 DEF Free
    <2> QED BY <1>1, <1>3, <2>1, <2>2 DEF poolVars
<1> QED BY <1>2, <1>3

\* A step that frees a request outside allocation, with all else that the rows
\* depend on kept, preserves the invariant.
LEMMA FreeKeepsPages ==
    ASSUME TypeOK, PageInv, NEW u \in Uid, Free(u),
           pc \notin {"alloc", "dead"}, pc' \notin {"admit", "alloc", "dead"},
           cachedLen' = cachedLen, numPages' = numPages
    PROVE  PageInv'
<1>1. /\ seated' = seated \ {u}
      /\ \A v \in Uid : rowPages'[v] = IF v = u THEN 0 ELSE rowPages[v]
      /\ freePages' + SumOver(rowPages', Uid) = freePages + SumOver(rowPages, Uid)
    BY FreeReturnsRow
<1>2. \A v \in Uid : Covered(v)' = Covered(v)
    BY DEF Covered
<1>3. RowInv' BY <1>1, <1>2 DEF PageInv, RowInv, Pages
<1>4. PagesConserved' BY <1>1 DEF PageInv, PagesConserved
<1> QED BY <1>3, <1>4 DEF PageInv

\* So does a step that frees nothing.
LEMMA QuietKeepsPages ==
    ASSUME PageInv, UNCHANGED poolVars,
           pc \notin {"alloc", "dead"}, pc' \notin {"admit", "alloc", "dead"},
           cachedLen' = cachedLen, numPages' = numPages
    PROVE  PageInv'
<1>1. \A v \in Uid : Covered(v)' = Covered(v) BY DEF Covered
<1> QED BY <1>1 DEF PageInv, RowInv, PagesConserved, poolVars, Pages

-----------------------------------------------------------------------------
\* All pages are free at start.
LEMMA InitPages == Init => PageInv
<1> SUFFICES ASSUME Init PROVE PageInv OBVIOUS
<1>1. RowInv BY DEF Init, RowInv
<1>2. SumOver(rowPages, Uid) = 0
    <2>1. \A u \in Uid : rowPages[u] = 0 BY DEF Init
    <2> QED BY <2>1, UidAssumption, SumZero
<1>3. PagesConserved BY <1>2, SizesAssumption DEF Init, PagesConserved
<1> QED BY <1>1, <1>3 DEF PageInv

\* Messages free at most the aborted request (_process_one_msg).
LEMMA ReceivePages ==
    ASSUME IInv, PageInv, Receive
    PROVE  PageInv'
<1>1. TypeOK BY DEF IInv
<1>2. ASSUME NEW u \in Uid, Abort(u) PROVE PageInv'
    <2>1. /\ pc \in {"idle", "poll"} /\ pc' = "poll" /\ cachedLen' = cachedLen
          /\ numPages' = numPages
        BY <1>2 DEF Abort, Listening, lenVars, rebuildVars
    <2>2. Free(u) \/ UNCHANGED poolVars BY <1>2 DEF Abort
    <2> QED BY <1>1, <2>1, <2>2, FreeKeepsPages, QuietKeepsPages
<1>3. ASSUME NEW u \in Uid, DropUser(u) \/ RejectUser(u) \/ AcceptUser(u) PROVE PageInv'
    <2>1. /\ pc \in {"idle", "poll"} /\ pc' = "poll" /\ cachedLen' = cachedLen
          /\ numPages' = numPages /\ UNCHANGED poolVars
        BY <1>3 DEF DropUser, RejectUser, AcceptUser, Listening, lenVars, rebuildVars
    <2> QED BY <2>1, QuietKeepsPages
<1>4. ASSUME ReceiveRebuild PROVE PageInv'
    <2>1. /\ pc \in {"idle", "poll"} /\ pc' = "poll" /\ cachedLen' = cachedLen
          /\ numPages' = numPages /\ UNCHANGED poolVars
        BY <1>4 DEF ReceiveRebuild, Listening, lenVars
    <2> QED BY <2>1, QuietKeepsPages
<1> QED BY <1>2, <1>3, <1>4 DEF Receive

\* Scheduling starts with an empty batch; a rebuild that is applied finds all
\* rows empty (schedule_next_batch, _execute_pending_rebuild).
LEMMA SchedulePages ==
    ASSUME IInv, PageInv, Schedule \/ ExecuteRebuild
    PROVE  PageInv'
<1>1. /\ pc = "poll" /\ pc' = "admit" /\ UNCHANGED <<lenVars, seated, rowPages, batch>>
      /\ unallocated' = unallocated
    BY DEF Schedule, ExecuteRebuild, BeginPass, poolVars, batchVars
<1>2. batch'.reqs = unallocated' BY <1>1 DEF IInv, BatchInv, NoBatch
<1>3. RowInv'
    BY <1>1, <1>2 DEF PageInv, RowInv, Covered, lenVars, Pages
<1>4. PagesConserved'
    <2>1. CASE UNCHANGED <<numPages, freePages>>
        BY <1>1, <2>1 DEF PageInv, PagesConserved
    <2>2. CASE ~ UNCHANGED <<numPages, freePages>>
        <3>1. ExecuteRebuild BY <2>2 DEF Schedule, poolVars, rebuildVars
        <3>2. numPages' = rebuild /\ freePages' = rebuild /\ rebuild \in Nat
            BY <2>2, <3>1 DEF ExecuteRebuild, IInv, TypeOK
        <3>3. seated = {} BY <3>1, NothingSeated DEF ExecuteRebuild
        <3>4. \A u \in Uid : rowPages'[u] = 0 BY <1>1, <3>3 DEF PageInv, RowInv
        <3>5. SumOver(rowPages', Uid) = 0 BY <3>4, UidAssumption, SumZero
        <3> QED BY <3>2, <3>5 DEF PagesConserved
    <2> QED BY <2>1, <2>2
<1> QED BY <1>3, <1>4 DEF PageInv

\* A new request is admitted with an empty row and nothing cached, a continuation
\* with the row of its earlier chunks (PrefillAdder.try_add_one).
LEMMA AdmitOnePages ==
    ASSUME IInv, PageInv, AdmitOne
    PROVE  PageInv'
<1> DEFINE u == Head(pending)
<1>1. /\ pc = "admit" /\ pc' = "admit" /\ pending # <<>>
      /\ cachedLen' = [cachedLen EXCEPT ![u] = IF u \in chunked THEN cachedLen[u] ELSE 0]
      /\ batch'.reqs = batch.reqs \cup {u} /\ unallocated' = unallocated \cup {u}
      /\ IF u \in chunked THEN seated' = seated ELSE seated' = seated \cup {u}
      /\ UNCHANGED <<rowPages, freePages, numPages>>
    BY DEF AdmitOne, rebuildVars
<1>2. u \in Uid /\ u \in Waiting
    <2>1. pending \in Seq(Uid) /\ IsInjective(pending) BY DEF IInv, TypeOK, QueueInv
    <2> QED BY <1>1, <2>1, TailOfQueue DEF Waiting
<1> HIDE DEF u
<1>3. u \in chunked => u \in seated BY DEF IInv, SeatInv
<1>4. u \notin chunked => u \notin seated BY <1>2 DEF IInv, SeatInv
<1>5. Pages(0) = 0 BY SizesAssumption DEF Pages
<1>6. \A v \in Uid : cachedLen'[v] = IF v = u /\ u \notin chunked THEN 0 ELSE cachedLen[v]
    BY <1>1, <1>2 DEF IInv, TypeOK
<1>7. \A v \in Uid : Covered(v) = cachedLen[v] /\ Covered(v)' = cachedLen'[v]
    BY <1>1 DEF Covered
<1>8. \A n : Pages(n)' = Pages(n) BY DEF Pages
<1>9. ASSUME NEW v \in Uid PROVE rowPages'[v] = IF v \in seated' THEN Pages(cachedLen'[v]) ELSE 0
    <2>1. rowPages'[v] = IF v \in seated THEN Pages(cachedLen[v]) ELSE 0
        BY <1>1, <1>7 DEF PageInv, RowInv
    <2>2. CASE v = u /\ u \notin chunked BY <1>1, <1>4, <1>5, <1>6, <2>1, <2>2
    <2>3. CASE ~(v = u /\ u \notin chunked)
        BY <1>1, <1>6, <2>1, <2>3
    <2> QED BY <2>2, <2>3
<1>10. RowInv'
    <2>1. batch'.reqs = unallocated' BY <1>1 DEF PageInv, RowInv
    <2> QED BY <1>7, <1>9, <2>1 DEF RowInv, Pages
<1>11. PagesConserved' BY <1>1 DEF PageInv, PagesConserved
<1> QED BY <1>10, <1>11 DEF PageInv

\* A batch leaves the pass with all its pages still to be allocated.
LEMMA BatchPages ==
    ASSUME IInv, PageInv, PrefillBatch \/ DecodeBatch
    PROVE  PageInv'
<1>1. /\ pc = "admit" /\ pc' = "alloc" /\ UNCHANGED <<lenVars, poolVars, numPages>>
      /\ batch'.reqs = unallocated'
    BY DEF PrefillBatch, DecodeBatch, batchVars, rebuildVars, PageInv, RowInv
<1>2. \A v \in Uid : Covered(v) = cachedLen[v] /\ Covered(v)' = cachedLen[v]
    BY <1>1 DEF Covered, lenVars
<1>3. RowInv' BY <1>1, <1>2 DEF PageInv, RowInv, poolVars, Pages
<1>4. PagesConserved' BY <1>1 DEF PageInv, PagesConserved, poolVars
<1> QED BY <1>3, <1>4 DEF PageInv

\* The pages a request takes come off the free list and go into its row
\* (CacheManager.allocate_paged).
LEMMA AllocatePagesKept ==
    ASSUME IInv, PageInv, NEW u \in Uid, pc = "alloc", u \in unallocated, AllocatePages(u)
    PROVE  /\ PageInv'
           /\ \A v \in Uid : rowPages'[v] = IF v = u THEN Pages(deviceLen[u]) ELSE rowPages[v]
           /\ rowPages[u] = Pages(cachedLen[u])
<1>1. /\ pc' = "alloc" /\ unallocated' = unallocated \ {u}
      /\ freePages' = freePages - NewPages(u)
      /\ rowPages' = [rowPages EXCEPT ![u] = @ + NewPages(u)]
      /\ UNCHANGED <<seated, batch, cachedLen, deviceLen, numPages>>
    BY DEF AllocatePages, lenVars, batchVars, rebuildVars
<1>2. /\ rowPages \in [Uid -> Nat] /\ freePages \in Nat /\ numPages \in Nat
      /\ cachedLen[u] \in Nat /\ deviceLen[u] \in Nat
    BY DEF IInv, TypeOK
<1>3. u \in seated /\ u \in batch.reqs BY DEF IInv, BatchInv, SeatInv
<1>4. rowPages[u] = Pages(cachedLen[u]) BY <1>3 DEF PageInv, RowInv, Covered
<1>5. Pages(cachedLen[u]) \in Nat /\ Pages(deviceLen[u]) \in Nat BY <1>2, PagesMonotone
<1>6. \A v \in Uid : rowPages'[v] = IF v = u THEN Pages(deviceLen[u]) ELSE rowPages[v]
    BY <1>1, <1>2, <1>4, <1>5 DEF NewPages
<1>7. RowInv'
    <2>1. Covered(u)' = deviceLen[u] BY <1>1, <1>3 DEF Covered
    <2>2. \A v \in Uid \ {u} : Covered(v)' = Covered(v) BY <1>1 DEF Covered
    <2> QED BY <1>1, <1>3, <1>6, <2>1, <2>2 DEF PageInv, RowInv, Pages
<1>8. PagesConserved'
    <2>1. \A v \in Uid : rowPages[v] \in Int /\ rowPages'[v] \in Int
        BY <1>2, <1>5, <1>6
    <2>2. SumOver(rowPages', Uid) = SumOver(rowPages, Uid) + rowPages'[u] - rowPages[u]
        BY <1>6, <2>1, UidAssumption, SumUpdate
    <2>3. SumOver(rowPages, Uid) \in Nat BY <1>2, RowSum
    <2>4. freePages + SumOver(rowPages, Uid) = numPages BY DEF PageInv, PagesConserved
    <2> QED BY <1>1, <1>2, <1>4, <1>5, <1>6, <2>2, <2>3, <2>4 DEF PagesConserved, NewPages
<1> QED BY <1>4, <1>6, <1>7, <1>8 DEF PageInv

\* At launch cached_len catches up with the rows of the batch (complete_one).
LEMMA LaunchPages ==
    ASSUME IInv, PageInv, Launch
    PROVE  PageInv'
<1>1. /\ pc = "alloc" /\ pc' = "drain" /\ unallocated = {} /\ UNCHANGED <<poolVars, numPages>>
      /\ cachedLen' = [u \in Uid |-> IF u \in batch.reqs THEN deviceLen[u] ELSE cachedLen[u]]
    BY DEF Launch, CompleteOne, rebuildVars
<1>2. \A v \in Uid : Covered(v)' = Covered(v) BY <1>1 DEF Covered
<1>3. RowInv' BY <1>1, <1>2 DEF PageInv, RowInv, poolVars, Pages
<1>4. PagesConserved' BY <1>1 DEF PageInv, PagesConserved, poolVars
<1> QED BY <1>3, <1>4 DEF PageInv

\* A dead loop keeps its rows.
LEMMA DeathPages ==
    ASSUME PageInv, pc = "alloc", pc' = "dead",
           UNCHANGED <<lenVars, poolVars, passVars, batchVars, rebuildVars>>
    PROVE  PageInv'
<1>1. \A v \in Uid : Covered(v)' = Covered(v) BY DEF Covered, lenVars, passVars, batchVars
<1> QED BY <1>1 DEF PageInv, RowInv, PagesConserved, poolVars, rebuildVars, Pages

\* The drain frees the requests that ended or were aborted, one at a time.
LEMMA DrainPages ==
    ASSUME IInv, PageInv, NEW u \in Uid,
           DrainChunk(u) \/ DrainAborted(u) \/ DrainEnded(u) \/ DrainToken(u)
    PROVE  PageInv'
<1>1. /\ pc = "drain" /\ pc' = "drain" /\ cachedLen' = cachedLen /\ numPages' = numPages
    BY DEF DrainChunk, DrainAborted, DrainEnded, DrainToken, lenVars, rebuildVars
<1>2. Free(u) \/ UNCHANGED poolVars
    BY DEF DrainChunk, DrainAborted, DrainEnded, DrainToken
<1> QED BY <1>1, <1>2, FreeKeepsPages, QuietKeepsPages DEF IInv

\* Every step preserves the invariant on pages.
LEMMA NextPages == IInv /\ PageInv /\ [Next]_vars => PageInv'
<1> SUFFICES ASSUME IInv, PageInv, [Next]_vars PROVE PageInv' OBVIOUS
<1>1. CASE UNCHANGED vars
    <2>1. \A v \in Uid : Covered(v)' = Covered(v)
        BY <1>1 DEF Covered, vars, lenVars, passVars, batchVars
    <2> QED BY <1>1, <2>1
            DEF PageInv, RowInv, PagesConserved, vars, poolVars, passVars, batchVars,
                rebuildVars, Pages
<1>2. CASE Receive BY <1>2, ReceivePages
<1>3. CASE Loop
    <2>1. CASE \E u \in Uid : Allocate(u)
        <3>1. PICK u \in Uid : Allocate(u) BY <2>1
        <3>2. CASE NewPages(u) <= freePages
            BY <3>1, <3>2, AllocatePagesKept DEF Allocate
        <3>3. CASE ~(NewPages(u) <= freePages)
            BY <3>1, <3>3, DeathPages DEF Allocate, AllocateShort
        <3> QED BY <3>2, <3>3
    <2>2. CASE LaunchFails BY <2>2, DeathPages DEF LaunchFails
    <2>3. CASE EndIteration
        BY <2>3, QuietKeepsPages DEF EndIteration, lenVars, rebuildVars
    <2> QED BY <1>3, <2>1, <2>2, <2>3, SchedulePages, AdmitOnePages, BatchPages,
               LaunchPages, DrainPages
            DEF Loop
<1> QED BY <1>1, <1>2, <1>3 DEF Next

\* In every reachable state each row is what its request has cached.
LEMMA InductivePages == Spec => []PageInv
<1>1. Init => PageInv BY InitPages
<1>2. IInv /\ PageInv /\ [Next]_vars => PageInv' BY NextPages
<1> QED BY <1>1, <1>2, Inductive, PTL DEF Spec

\* No page is lost or freed twice, whatever ends a request and whenever
\* (_free_req_resources, allocate_paged): free list and rows add up to the pool.
THEOREM PagesAreConserved == Spec => []PageConservation
<1>1. PageInv => PageConservation
    BY DEF PageInv, PagesConserved, PageConservation, SumOver
<1> QED BY <1>1, InductivePages, PTL

\* A rebuild is executed when no request has a slot and every page is free: the
\* assertions of rebuild_cache hold for every number of requests and pages.
THEOREM RebuildFindsAllFree == Spec => []RebuildWhenFree
<1>1. ASSUME IInv, PageInv PROVE RebuildWhenFree
    <2>1. SUFFICES ASSUME pc = "poll", RebuildReady PROVE seated = {} /\ freePages = numPages
        BY DEF RebuildWhenFree
    <2>2. seated = {} BY <1>1, <2>1, NothingSeated
    <2>3. \A u \in Uid : rowPages[u] = 0 BY <1>1, <2>2 DEF PageInv, RowInv
    <2>4. SumOver(rowPages, Uid) = 0 BY <2>3, UidAssumption, SumZero
    <2>5. freePages \in Nat BY <1>1 DEF IInv, TypeOK
    <2> QED BY <1>1, <2>2, <2>4, <2>5 DEF PageInv, PagesConserved
<1> QED BY <1>1, Inductive, InductivePages, PTL

-----------------------------------------------------------------------------
(***************************************************************************)
(* Admission.  try_add_one compares the tokens a request may ask for with  *)
(* what is free and not reserved, in tokens; the pages it will take are    *)
(* those of all its tokens but the last, which is never fed to the model.  *)
(* The comparison is sound when those pages hold no more tokens than the   *)
(* request was counted with (RoomyShapes): always with pages of one or two *)
(* tokens, and with larger pages only for some lengths.                    *)
(***************************************************************************)
RoomyShapes ==
    \A shape \in Shapes :
        PageSize * Pages(shape.input + shape.output - 1) <= shape.input + shape.output

\* The pages each request may still take.
Owed == [u \in Uid |-> Pages(MaxDeviceLen(u) - 1) - rowPages[u]]

\* The requests that may still take pages.
Demand ==
    chunked \cup running \cup (IF pc \in {"admit", "alloc"} THEN batch.reqs ELSE {})

\* A waiting request is counted with all its pages.
RoomInv == \A u \in Waiting : PageSize * Pages(MaxDeviceLen(u) - 1) <= MaxDeviceLen(u)

\* A running request has one token that is not in the cache; no batch is launched
\* past the last token.
AheadInv ==
    /\ \A u \in running : deviceLen[u] = cachedLen[u] + 1
    /\ pc \in {"admit", "alloc"} => \A u \in batch.reqs : deviceLen[u] < MaxDeviceLen(u)

\* The free pages cover what all of them may still take.
DemandInv ==
    /\ \A u \in Demand : Owed[u] >= 0
    /\ SumOver(Owed, Demand) <= freePages

\* During a pass the reservation covers the running requests and the batch.
PassInv ==
    pc = "admit" =>
        /\ reservedSize \in Int
        /\ PageSize * SumOver(Owed, running \cup batch.reqs) <= reservedSize

\* The loop dies only of a failed rebuild.
AliveInv == pc = "dead" => ~engineUp

BudgetInv == RoomInv /\ AheadInv /\ DemandInv /\ PassInv /\ AliveInv

-----------------------------------------------------------------------------
\* div_ceil: the pages of n tokens hold them, with less than a page to spare.
LEMMA PagesHold ==
    ASSUME NEW n \in Nat
    PROVE  /\ Pages(n) \in Nat
           /\ PageSize * Pages(n) >= n /\ PageSize * Pages(n) <= n + PageSize - 1
BY SizesAssumption, SMTT(20) DEF Pages

\* A page of one or two tokens makes every length roomy.
LEMMA SmallPagesAreRoomy == PageSize \in {1, 2} => RoomyShapes
<1>1. ASSUME PageSize \in {1, 2}, NEW n \in Nat \ {0}
      PROVE  PageSize * Pages(n - 1) <= n
    <2>1. n - 1 \in Nat OBVIOUS
    <2>2. PageSize * Pages(n - 1) <= (n - 1) + PageSize - 1 BY <2>1, PagesHold
    <2>3. CASE PageSize = 1 BY <2>1, <2>2, <2>3, PagesHold
    <2>4. CASE PageSize = 2 BY <2>1, <2>2, <2>4, PagesHold
    <2> QED BY <1>1, <2>3, <2>4
<1>2. ASSUME PageSize \in {1, 2}, NEW shape \in Shapes
      PROVE  PageSize * Pages(shape.input + shape.output - 1) <= shape.input + shape.output
    <2> DEFINE n == shape.input + shape.output
    <2>1. n \in Nat \ {0} BY ShapesAssumption
    <2> HIDE DEF n
    <2>2. PageSize * Pages(n - 1) <= n BY <1>1, <1>2, <2>1
    <2>3. shape.input \in Nat /\ shape.output \in Nat BY ShapesAssumption
    <2> QED BY <2>2, <2>3 DEF n
<1> QED BY <1>2 DEF RoomyShapes

\* What a request may still take.
LEMMA OwedIs ==
    ASSUME TypeOK
    PROVE  /\ Demand \subseteq Uid /\ IsFiniteSet(Demand) /\ running \in SUBSET Uid
           /\ \A u \in Uid : /\ MaxDeviceLen(u) \in Nat /\ Owed[u] \in Int
                             /\ Owed[u] = Pages(MaxDeviceLen(u) - 1) - rowPages[u]
<1>1. Demand \subseteq Uid /\ running \in SUBSET Uid BY DEF TypeOK, Demand, Batches
<1>2. IsFiniteSet(Demand) BY <1>1, UidAssumption, FS_Subset
<1>3. ASSUME NEW u \in Uid
      PROVE  /\ MaxDeviceLen(u) \in Nat /\ Owed[u] \in Int
             /\ Owed[u] = Pages(MaxDeviceLen(u) - 1) - rowPages[u]
    <2>1. MaxDeviceLen(u) \in Nat /\ rowPages[u] \in Nat BY DEF TypeOK, MaxDeviceLen
    <2>2. Pages(MaxDeviceLen(u) - 1) \in Int BY <2>1, SizesAssumption DEF Pages
    <2>3. Owed[u] = Pages(MaxDeviceLen(u) - 1) - rowPages[u] BY DEF Owed
    <2> QED BY <2>1, <2>2, <2>3
<1> QED BY <1>1, <1>2, <1>3

\* DecodeManager.inflight_tokens as a sum of a function.
LEMMA InflightSum ==
    ASSUME TypeOK
    PROVE  InflightTokens =
               SumOver([u \in Uid |-> MaxDeviceLen(u) - deviceLen[u] + PageSize - 1], running)
<1> DEFINE f == [u \in Uid |-> MaxDeviceLen(u) - deviceLen[u] + PageSize - 1]
           c(s) == CHOOSE x \in s : TRUE
           P(g, s) == IF s = {} THEN 0
                      ELSE (MaxDeviceLen(c(s)) - deviceLen[c(s)] + PageSize - 1) + g[s \ {c(s)}]
           Q(g) == g = [s \in SUBSET running |-> P(g, s)]
           k == CHOOSE g : Q(g)
           h == CHOOSE g : IsPartial(f, g, running)
<1>1. InflightTokens = k[running]
    BY DEF InflightTokens, MapThenSumSet, MapThenFoldSet
<1>2. running \in SUBSET Uid /\ IsFiniteSet(running)
    BY UidAssumption, FS_Subset DEF TypeOK
<1>3. ASSUME NEW g PROVE Q(g) <=> IsPartial(f, g, running)
    <2>1. ASSUME NEW s \in SUBSET running PROVE P(g, s) = Part(f, g, s)
        <3>1. CASE s = {} BY <3>1 DEF Part
        <3>2. CASE s # {}
            <4>1. c(s) \in Uid BY <1>2, <3>2
            <4>2. f[c(s)] = MaxDeviceLen(c(s)) - deviceLen[c(s)] + PageSize - 1 BY <4>1
            <4> HIDE DEF f
            <4> QED BY <3>2, <4>2 DEF Part
        <3> QED BY <3>1, <3>2
    <2>2. [s \in SUBSET running |-> P(g, s)] = [s \in SUBSET running |-> Part(f, g, s)]
        <3> HIDE DEF P, f
        <3> QED BY <2>1, Zenon
    <2> HIDE DEF P, f
    <2> QED BY <2>2 DEF IsPartial
<1>4. IsPartial(f, h, running)
    <2> HIDE DEF f
    <2> QED BY <1>2, PartialExists
<1> HIDE DEF f, P, h
<1>5. Q(h) BY <1>3, <1>4
<1> HIDE DEF Q
<1>6. Q(k) BY <1>5
<1> HIDE DEF k
<1>7. IsPartial(f, k, running) BY <1>3, <1>6
<1>8. k = h BY <1>2, <1>4, <1>7, PartialUnique
<1>9. SumOver(f, running) = h[running] BY SumUnfold DEF h
<1> QED BY <1>1, <1>8, <1>9 DEF f

\* A step that takes no page, adds no request and frees some keeps the demand
\* covered.
LEMMA DemandShrinks ==
    ASSUME TypeOK, TypeOK', DemandInv, Demand' \subseteq Demand, freePages <= freePages',
           \A u \in Demand' : Owed'[u] = Owed[u]
    PROVE  DemandInv'
<1> DEFINE O == Owed'  D == Demand'
<1>1. /\ Demand \subseteq Uid /\ IsFiniteSet(Demand) /\ D \subseteq Demand /\ IsFiniteSet(D)
      /\ \A u \in Uid : Owed[u] \in Int
    BY OwedIs, FS_Subset
<1>2. \A u \in Demand : Owed[u] \in Nat BY <1>1 DEF DemandInv
<1>3. \A u \in D : Owed[u] \in Int /\ Owed[u] = O[u] BY <1>1
<1>4. SumOver(Owed, D) <= SumOver(Owed, Demand) BY <1>1, <1>2, SumSubset
<1> HIDE DEF O, D
<1>5. SumOver(Owed, D) = SumOver(O, D) BY <1>1, <1>3, SumAgree
<1>6. SumOver(Owed, D) \in Int /\ SumOver(Owed, Demand) \in Int
    BY <1>1, <1>2, <1>3, SumInt
<1>7. freePages \in Nat /\ freePages' \in Nat BY DEF TypeOK
<1>8. SumOver(O, D) <= freePages' BY <1>4, <1>5, <1>6, <1>7 DEF DemandInv
<1>9. \A u \in D : O[u] >= 0 BY <1>1, <1>3 DEF DemandInv
<1> QED BY <1>8, <1>9 DEF DemandInv, O, D

\* What a request may still take changes only with its lengths and its row.
LEMMA OwedKept ==
    ASSUME NEW u \in Uid, inputLen'[u] = inputLen[u], outputLen'[u] = outputLen[u],
           rowPages'[u] = rowPages[u]
    PROVE  Owed'[u] = Owed[u] /\ MaxDeviceLen(u)' = MaxDeviceLen(u)
BY DEF Owed, MaxDeviceLen, Pages

\* A step that leaves the lengths asked for alone, admits nothing and takes no
\* page keeps the budget.
LEMMA ShrinkBudget ==
    ASSUME TypeOK, TypeOK', BudgetInv, UNCHANGED <<inputLen, outputLen>>,
           Waiting' \subseteq Waiting, AheadInv', Demand' \subseteq Demand,
           \A u \in Demand' : rowPages'[u] = rowPages[u], freePages <= freePages',
           pc' \notin {"admit", "dead"}
    PROVE  BudgetInv'
<1>1. Demand \subseteq Uid BY OwedIs
<1>2. \A u \in Demand' : Owed'[u] = Owed[u] BY <1>1, OwedKept
<1>3. DemandInv' BY <1>2, DemandShrinks DEF BudgetInv
<1>4. RoomInv' BY DEF BudgetInv, RoomInv, MaxDeviceLen, Pages
<1>5. PassInv' /\ AliveInv' BY DEF PassInv, AliveInv
<1> QED BY <1>3, <1>4, <1>5 DEF BudgetInv

\* A step outside a pass that only frees a request u keeps the budget.
LEMMA FreeBudget ==
    ASSUME TypeOK, TypeOK', PageInv, BudgetInv, UNCHANGED <<lenVars, batch>>,
           Waiting' \subseteq Waiting, chunked' \subseteq chunked, running' \subseteq running,
           pc \in {"idle", "poll", "drain"}, pc' \in {"idle", "poll", "drain"},
           \/ UNCHANGED poolVars
           \/ \E u \in Uid : Free(u) /\ u \notin chunked' \cup running'
    PROVE  BudgetInv'
<1>1. Demand = chunked \cup running /\ Demand' = chunked' \cup running' BY DEF Demand
<1>2. AheadInv' BY DEF BudgetInv, AheadInv, lenVars
<1>3. (\A u \in Demand' : rowPages'[u] = rowPages[u]) /\ freePages <= freePages'
    <2>1. CASE UNCHANGED poolVars BY <2>1 DEF poolVars, TypeOK
    <2>2. CASE \E u \in Uid : Free(u) /\ u \notin chunked' \cup running'
        <3>1. PICK u \in Uid : Free(u) /\ u \notin chunked' \cup running' BY <2>2
        <3>2. /\ \A v \in Uid : rowPages'[v] = IF v = u THEN 0 ELSE rowPages[v]
              /\ freePages' = freePages + rowPages[u]
            BY <3>1, FreeReturnsRow
        <3>3. Demand' \subseteq Uid BY <1>1, OwedIs
        <3>4. freePages \in Nat /\ rowPages[u] \in Nat BY DEF TypeOK
        <3> QED BY <1>1, <3>1, <3>2, <3>3, <3>4
    <2> QED BY <2>1, <2>2
<1> QED BY <1>1, <1>2, <1>3, ShrinkBudget DEF lenVars

\* Nothing is owed at start.
LEMMA InitBudget == Init => BudgetInv
<1> SUFFICES ASSUME Init PROVE BudgetInv OBVIOUS
<1>1. Demand = {} BY DEF Init, Demand
<1>2. SumOver(Owed, Demand) = 0 BY <1>1, SumEmpty
<1>3. DemandInv BY <1>1, <1>2, SizesAssumption DEF Init, DemandInv
<1>4. Waiting = {} BY DEF Init, Waiting, ToSet
<1> QED BY <1>3, <1>4 DEF Init, BudgetInv, RoomInv, AheadInv, PassInv, AliveInv

\* A message adds a waiting request, which is not in demand yet, or takes one out.
LEMMA ReceiveBudget ==
    ASSUME RoomyShapes, IInv, IInv', PageInv, BudgetInv, Receive
    PROVE  BudgetInv'
<1>1. TypeOK /\ TypeOK' BY DEF IInv
<1>2. ASSUME NEW u \in Uid, Abort(u) PROVE BudgetInv'
    <2>1. /\ pc \in {"idle", "poll"} /\ pc' = "poll"
          /\ chunked' = chunked \ {u} /\ running' = running \ {u}
          /\ pending' = RemoveFirst(pending, u) /\ chunkedList' = chunkedList
          /\ UNCHANGED <<lenVars, batch>> /\ (Free(u) \/ UNCHANGED poolVars)
        BY <1>2 DEF Abort, Listening, passVars, batchVars
    <2>2. Waiting' \subseteq Waiting
        <3>1. ToSet(pending') = ToSet(pending) \ {u}
            <4>1. pending \in Seq(Uid) /\ IsInjective(pending) BY DEF IInv, TypeOK, QueueInv
            <4> QED BY <2>1, <4>1, RemoveFromQueue
        <3> QED BY <2>1, <3>1 DEF Waiting
    <2> QED BY <1>1, <2>1, <2>2, FreeBudget
<1>3. ASSUME NEW u \in Uid, AcceptUser(u) PROVE BudgetInv'
    <2>1. PICK shape \in Shapes : /\ inputLen' = [inputLen EXCEPT ![u] = shape.input]
                                  /\ outputLen' = [outputLen EXCEPT ![u] = shape.output]
        BY <1>3 DEF AcceptUser
    <2>2. /\ pc \in {"idle", "poll"} /\ pc' = "poll" /\ u \notin received
          /\ pending' = Append(pending, u)
          /\ UNCHANGED <<chunked, running, cachedLen, deviceLen, rowPages, freePages,
                         chunkedList, batch>>
        BY <1>3 DEF AcceptUser, Listening, poolVars, passVars, batchVars
    <2>3. ToSet(pending') = ToSet(pending) \cup {u} /\ u \notin Waiting
        <3>1. u \notin Waiting BY <2>2 DEF IInv, QueueInv
        <3> QED BY <2>2, <3>1, AppendToQueue DEF IInv, TypeOK, QueueInv, Waiting
    <2>4. Waiting' = Waiting \cup {u} /\ Waiting \subseteq Uid
        BY <1>1, <2>2, <2>3, ElementsOfQueue DEF Waiting, TypeOK
    <2>5. \A v \in Uid \ {u} : inputLen'[v] = inputLen[v] /\ outputLen'[v] = outputLen[v]
        BY <1>1, <2>1 DEF TypeOK
    <2>6. /\ Demand' = Demand /\ Demand = chunked \cup running /\ u \notin Demand
          /\ Demand \subseteq Uid
        BY <1>1, <2>2, OwedIs DEF Demand, IInv, QueueInv
    <2>7. \A v \in Uid \ {u} : Owed'[v] = Owed[v] /\ MaxDeviceLen(v)' = MaxDeviceLen(v)
        BY <2>2, <2>5, OwedKept
    <2>8. DemandInv'
        <3>1. freePages <= freePages' BY <1>1, <2>2 DEF TypeOK
        <3> QED BY <1>1, <2>6, <2>7, <3>1, DemandShrinks DEF BudgetInv
    <2>9. MaxDeviceLen(u)' = shape.input + shape.output
        BY <1>1, <2>1 DEF MaxDeviceLen, TypeOK
    <2>10. RoomInv'
        <3>1. PageSize * Pages(MaxDeviceLen(u)' - 1) <= MaxDeviceLen(u)'
            <4>1. PageSize * Pages(shape.input + shape.output - 1) <= shape.input + shape.output
                BY DEF RoomyShapes
            <4>2. shape.input \in Nat /\ shape.output \in Nat BY ShapesAssumption
            <4> DEFINE m == MaxDeviceLen(u)'  n == shape.input + shape.output
            <4>3. m = n /\ n \in Nat BY <2>9, <4>2
            <4>4. PageSize * Pages(n - 1) <= n BY <4>1, <4>2
            <4> HIDE DEF m, n
            <4>5. PageSize * Pages(m - 1) <= m BY <4>3, <4>4
            <4> QED BY <4>5 DEF m
        <3>2. \A n : Pages(n)' = Pages(n) BY DEF Pages
        <3>3. \A v \in Waiting : PageSize * Pages(MaxDeviceLen(v)' - 1) <= MaxDeviceLen(v)'
            BY <2>3, <2>4, <2>7 DEF BudgetInv, RoomInv
        <3>4. \A v \in Waiting' : PageSize * Pages(MaxDeviceLen(v)' - 1) <= MaxDeviceLen(v)'
            BY <2>4, <3>1, <3>3
        <3> QED BY <3>4 DEF RoomInv, Pages
    <2>11. AheadInv' BY <2>2 DEF BudgetInv, AheadInv
    <2>12. PassInv' /\ AliveInv' BY <2>2 DEF PassInv, AliveInv
    <2> QED BY <2>8, <2>10, <2>11, <2>12 DEF BudgetInv
<1>4. ASSUME (\E u \in Uid : DropUser(u) \/ RejectUser(u)) \/ ReceiveRebuild PROVE BudgetInv'
    <2>1. /\ pc \in {"idle", "poll"} /\ pc' = "poll"
          /\ UNCHANGED <<queueVars, lenVars, poolVars, passVars, batch>>
        BY <1>4 DEF DropUser, RejectUser, ReceiveRebuild, Listening, batchVars
    <2>2. Waiting' = Waiting BY <2>1 DEF Waiting, queueVars, passVars
    <2> QED BY <1>1, <2>1, <2>2, FreeBudget DEF queueVars
<1> QED BY <1>2, <1>3, <1>4 DEF Receive

\* A pass starts with the reservation of the running requests: inflight_tokens
\* counts at least the pages each of them may still take.
LEMMA ScheduleBudget ==
    ASSUME IInv, IInv', PageInv, BudgetInv, Schedule \/ ExecuteRebuild
    PROVE  BudgetInv'
<1>1. /\ pc = "poll" /\ pc' = "admit" /\ reservedSize' = InflightTokens
      /\ UNCHANGED <<queueVars, lenVars, seated, rowPages, batch, chunkedList>>
      /\ Schedule => freePages' = freePages
    BY DEF Schedule, ExecuteRebuild, BeginPass, poolVars, batchVars
<1>2. TypeOK /\ TypeOK' /\ batch = NoBatch BY <1>1 DEF IInv, BatchInv
<1>3. /\ Demand = chunked \cup running /\ Demand' = Demand /\ Waiting' = Waiting
      /\ running' \cup batch'.reqs = running /\ running \subseteq Demand
    BY <1>1, <1>2 DEF Demand, NoBatch, queueVars, Waiting
<1>4. \A u \in Uid : Owed'[u] = Owed[u] /\ MaxDeviceLen(u)' = MaxDeviceLen(u)
    BY <1>1, OwedKept DEF lenVars
<1>5. DemandInv'
    <2>1. CASE Schedule
        <3>1. freePages <= freePages' BY <1>1, <1>2, <2>1 DEF TypeOK
        <3>2. Demand \subseteq Uid BY <1>2, OwedIs
        <3> QED BY <1>2, <1>3, <1>4, <3>1, <3>2, DemandShrinks DEF BudgetInv
    <2>2. CASE ExecuteRebuild
        <3>1. seated = {} BY <2>2, NothingSeated DEF ExecuteRebuild
        <3>2. Demand' = {} BY <1>3, <3>1 DEF IInv, SeatInv
        <3>3. SumOver(Owed', Demand') = 0 BY <3>2, SumEmpty
        <3>4. freePages' \in Nat BY <1>2 DEF TypeOK
        <3> QED BY <3>2, <3>3, <3>4 DEF DemandInv
    <2> QED BY <2>1, <2>2
<1>6. RoomInv' BY <1>1, <1>3 DEF BudgetInv, RoomInv, MaxDeviceLen, Pages, lenVars
<1>7. AheadInv'
    BY <1>1, <1>2 DEF BudgetInv, AheadInv, lenVars, queueVars, NoBatch
<1>8. PassInv'
    <2> DEFINE f == [u \in Uid |-> MaxDeviceLen(u) - deviceLen[u] + PageSize - 1]
               O == Owed'
    <2>1. ASSUME NEW u \in running
          PROVE  O[u] \in Int /\ f[u] \in Int /\ PageSize * O[u] <= f[u]
        <3> DEFINE a == Pages(MaxDeviceLen(u) - 1)  b == Pages(cachedLen[u])
        <3>1. u \in Uid /\ u \in seated BY <1>2 DEF TypeOK, IInv, SeatInv
        <3>2. /\ deviceLen[u] \in Nat /\ cachedLen[u] \in Nat /\ MaxDeviceLen(u) \in Nat
              /\ deviceLen[u] = cachedLen[u] + 1 /\ deviceLen[u] < MaxDeviceLen(u)
            BY <1>2, <3>1, OwedIs DEF TypeOK, IInv, LengthInv, BudgetInv, AheadInv
        <3>3. rowPages[u] = b BY <1>1, <3>1 DEF PageInv, RowInv, Covered
        <3>4. O[u] = a - b
            <4>1. Owed[u] = a - b BY <1>2, <3>1, <3>3, OwedIs
            <4> QED BY <1>4, <3>1, <4>1
        <3>5. MaxDeviceLen(u) - 1 \in Nat BY <3>2
        <3>6. /\ a \in Nat /\ b \in Nat
              /\ PageSize * a <= (MaxDeviceLen(u) - 1) + PageSize - 1
              /\ PageSize * b >= cachedLen[u]
            BY <3>2, <3>5, PagesHold
        <3>7. f[u] = MaxDeviceLen(u) - deviceLen[u] + PageSize - 1 BY <3>1
        <3> HIDE DEF a, b, f, O
        <3>8. PageSize \in Nat BY SizesAssumption
        <3>9. PageSize * (a - b) = PageSize * a - PageSize * b BY <3>6, <3>8
        <3>10. PageSize * a \in Int /\ PageSize * b \in Int BY <3>6, <3>8
        <3>11. PageSize * (a - b) <= f[u] BY <3>2, <3>6, <3>7, <3>8, <3>9, <3>10
        <3>12. f[u] \in Int BY <3>2, <3>7, <3>8
        <3>13. O[u] \in Int BY <3>4, <3>6
        <3> QED BY <3>4, <3>11, <3>12, <3>13
    <2>2. InflightTokens = SumOver(f, running) BY <1>2, InflightSum
    <2>3. IsFiniteSet(running) BY SMTT(60), <1>2, UidAssumption, FS_Subset DEF TypeOK
    <2>4. PageSize \in Nat BY SizesAssumption
    <2> HIDE DEF f, O
    <2>5. PageSize * SumOver(O, running) <= SumOver(f, running)
        BY <2>1, <2>3, <2>4, SumScaled
    <2>6. PageSize * SumOver(O, running' \cup batch'.reqs) <= reservedSize'
        BY <1>1, <1>3, <2>2, <2>5
    <2>7. SumOver(f, running) \in Int BY <2>1, <2>3, SumInt
    <2> QED BY <1>1, <2>2, <2>6, <2>7 DEF PassInv, O
<1>9. AliveInv' BY <1>1 DEF AliveInv
<1> QED BY <1>5, <1>6, <1>7, <1>8, <1>9 DEF BudgetInv

\* A batch leaves the pass.
LEMMA BatchBudget ==
    ASSUME IInv, IInv', BudgetInv, PrefillBatch \/ DecodeBatch
    PROVE  BudgetInv'
<1>1. TypeOK /\ TypeOK' BY DEF IInv
<1>2. /\ pc = "admit" /\ pc' = "alloc" /\ UNCHANGED <<chunked, running, lenVars, poolVars>>
      /\ \/ PrefillBatch /\ batch' = batch
         \/ DecodeBatch /\ batch'.reqs = running /\ batch.reqs = {}
    BY DEF PrefillBatch, DecodeBatch, queueVars, batchVars
<1>3. Demand' = Demand BY <1>2 DEF Demand
<1>4. Waiting' = Waiting
    <2>1. CASE PrefillBatch
        <3>1. /\ pending \in Seq(Uid) /\ chunkedList \in Seq(Uid)
              /\ IsInjective(pending) /\ IsInjective(chunkedList)
              /\ ToSet(chunkedList) \cap ToSet(pending) = {}
            BY DEF IInv, TypeOK, QueueInv
        <3>2. ToSet(chunkedList \o pending) = ToSet(chunkedList) \cup ToSet(pending)
            BY <3>1, ConcatQueues
        <3>3. pending' = chunkedList \o pending /\ chunkedList' = <<>>
            BY <2>1 DEF PrefillBatch, Requeued
        <3>4. ToSet(chunkedList') = {} BY <3>3 DEF ToSet
        <3> QED BY <3>2, <3>3, <3>4 DEF Waiting
    <2>2. CASE DecodeBatch BY <2>2 DEF DecodeBatch, queueVars, Waiting
    <2> QED BY <1>2, <2>1, <2>2
<1>5. AheadInv'
    <2>1. \A u \in Uid : MaxDeviceLen(u)' = MaxDeviceLen(u) /\ deviceLen'[u] = deviceLen[u]
        BY <1>2 DEF MaxDeviceLen, lenVars
    <2>2. batch'.reqs \subseteq Uid BY <1>1 DEF TypeOK, Batches
    <2>3. \A u \in batch'.reqs : deviceLen[u] < MaxDeviceLen(u)
        BY <1>2 DEF BudgetInv, AheadInv, IInv, LengthInv
    <2> QED BY <1>2, <2>1, <2>2, <2>3 DEF BudgetInv, AheadInv, lenVars
<1>6. freePages <= freePages' /\ rowPages' = rowPages BY <1>1, <1>2 DEF poolVars, TypeOK
<1> QED BY <1>1, <1>2, <1>3, <1>4, <1>5, <1>6, ShrinkBudget DEF lenVars

\* The pages of a batch are there: allocation never runs short, and what a
\* request takes is no longer owed to it (allocate_paged, _allocate).
LEMMA AllocateBudget ==
    ASSUME IInv, IInv', PageInv, BudgetInv, NEW u \in Uid, Allocate(u)
    PROVE  NewPages(u) <= freePages /\ BudgetInv'
<1>1. TypeOK /\ TypeOK' /\ pc = "alloc" /\ u \in unallocated
    BY DEF IInv, Allocate
<1>2. u \in seated /\ u \in batch.reqs /\ u \in Demand
    BY <1>1 DEF IInv, BatchInv, SeatInv, Demand
<1>3. rowPages[u] = Pages(cachedLen[u]) BY <1>1, <1>2 DEF PageInv, RowInv, Covered
<1>4. /\ cachedLen[u] \in Nat /\ deviceLen[u] \in Nat /\ MaxDeviceLen(u) \in Nat
      /\ cachedLen[u] <= deviceLen[u] /\ deviceLen[u] < MaxDeviceLen(u)
    BY <1>1, <1>2, OwedIs DEF TypeOK, IInv, LengthInv, BudgetInv, AheadInv
<1>5. MaxDeviceLen(u) - 1 \in Nat /\ deviceLen[u] <= MaxDeviceLen(u) - 1 BY <1>4
<1>6. /\ Pages(cachedLen[u]) \in Nat /\ Pages(deviceLen[u]) \in Nat
      /\ Pages(MaxDeviceLen(u) - 1) \in Nat
      /\ Pages(cachedLen[u]) <= Pages(deviceLen[u])
      /\ Pages(deviceLen[u]) <= Pages(MaxDeviceLen(u) - 1)
    BY <1>4, <1>5, PagesMonotone
<1>7. Owed[u] = Pages(MaxDeviceLen(u) - 1) - Pages(cachedLen[u]) BY <1>1, <1>3, OwedIs
<1>8. NewPages(u) \in Nat /\ NewPages(u) <= Owed[u] BY <1>6, <1>7 DEF NewPages
<1>9. /\ IsFiniteSet(Demand) /\ Demand \subseteq Uid /\ \A v \in Demand : Owed[v] \in Nat
    BY <1>1, OwedIs DEF BudgetInv, DemandInv
<1>10. Owed[u] <= SumOver(Owed, Demand) /\ SumOver(Owed, Demand) \in Nat
    BY <1>2, <1>9, SumNat
<1>11. NewPages(u) <= freePages
    <2>1. SumOver(Owed, Demand) <= freePages BY DEF BudgetInv, DemandInv
    <2>2. freePages \in Nat /\ Owed[u] \in Nat BY <1>1, <1>2, <1>9 DEF TypeOK
    <2> QED BY <1>8, <1>10, <2>1, <2>2
<1>12. AllocatePages(u) BY <1>11 DEF Allocate
<1>13. /\ pc' = "alloc" /\ freePages' = freePages - NewPages(u)
       /\ UNCHANGED <<queueVars, lenVars, chunkedList, batch>>
    BY <1>1, <1>12 DEF AllocatePages, batchVars
<1>14. \A v \in Uid : rowPages'[v] = IF v = u THEN Pages(deviceLen[u]) ELSE rowPages[v]
    BY <1>1, <1>12, AllocatePagesKept
<1>15. Demand' = Demand /\ Waiting' = Waiting
    BY <1>1, <1>13 DEF Demand, Waiting, queueVars
<1> DEFINE O == Owed'
<1>16. O[u] = Owed[u] - NewPages(u)
    <2>1. O[u] = (Pages(MaxDeviceLen(u) - 1) - rowPages[u])'
        BY DEF Owed
    <2>2. O[u] = Pages(MaxDeviceLen(u) - 1) - Pages(deviceLen[u])
        BY <1>13, <1>14, <2>1 DEF MaxDeviceLen, lenVars, Pages
    <2> QED BY <1>6, <1>7, <2>2 DEF NewPages
<1>17. \A v \in Uid \ {u} : O[v] = Owed[v]
    BY <1>13, <1>14, OwedKept DEF lenVars
<1>18. DemandInv'
    <2>1. \A v \in Demand : O[v] \in Int /\ O[v] >= 0 /\ Owed[v] \in Int
        BY <1>8, <1>9, <1>16, <1>17
    <2> HIDE DEF O
    <2>2. SumOver(O, Demand) = SumOver(Owed, Demand) + O[u] - Owed[u]
        BY <1>2, <1>9, <1>17, <2>1, SumUpdate
    <2>3. Owed[u] \in Int /\ freePages \in Nat BY <1>1, <1>2, <2>1 DEF TypeOK
    <2>4. SumOver(O, Demand) <= freePages'
        BY <1>8, <1>10, <1>13, <1>16, <2>2, <2>3 DEF BudgetInv, DemandInv
    <2> QED BY <1>15, <2>1, <2>4 DEF DemandInv, O
<1>19. RoomInv' BY <1>13, <1>15 DEF BudgetInv, RoomInv, MaxDeviceLen, Pages, lenVars
<1>20. AheadInv'
    BY <1>1, <1>13 DEF BudgetInv, AheadInv, MaxDeviceLen, lenVars, queueVars
<1>21. PassInv' /\ AliveInv' BY <1>13 DEF PassInv, AliveInv
<1> QED BY <1>11, <1>18, <1>19, <1>20, <1>21 DEF BudgetInv

\* Admission: a continuation was in demand already; a new request is admitted
\* when the pages it may take fit beside those reserved, and no continuation is
\* left out of the reservation, for they are all ahead of it (try_add_one).
LEMMA AdmitOneBudget ==
    ASSUME IInv, IInv', PageInv, BudgetInv, AdmitOne
    PROVE  BudgetInv'
<1> DEFINE u == Head(pending)
           start == IF u \in chunked THEN cachedLen[u] ELSE 0
           remain == inputLen[u] - start
           size == Min({tokenBudget, remain})
           partial == size < remain
<1>1. /\ pc = "admit" /\ pc' = "admit" /\ pending # <<>> /\ Fits(u)
      /\ cachedLen' = [cachedLen EXCEPT ![u] = start]
      /\ deviceLen' = [deviceLen EXCEPT ![u] = start + size]
      /\ reservedSize' = reservedSize + remain + outputLen[u]
      /\ chunked' = IF partial THEN chunked \cup {u} ELSE chunked \ {u}
      /\ chunkedList' = IF partial THEN Append(chunkedList, u) ELSE chunkedList
      /\ batch'.reqs = batch.reqs \cup {u}
      /\ pending' = Tail(pending)
      /\ UNCHANGED <<running, inputLen, outputLen, rowPages, freePages>>
    BY DEF AdmitOne
<1>2. TypeOK /\ TypeOK' BY DEF IInv
<1>3. /\ u \in Uid /\ u \in ToSet(pending) /\ u \in Waiting
      /\ u \notin running /\ u \notin batch.reqs
    <2>1. pending \in Seq(Uid) /\ IsInjective(pending) BY DEF IInv, TypeOK, QueueInv
    <2>2. u \in Uid /\ u \in ToSet(pending) BY <1>1, <2>1, TailOfQueue
    <2> QED BY <1>1, <2>2 DEF Waiting, IInv, QueueInv, BatchInv
<1>4. u \notin chunked => chunked \subseteq batch.reqs
    <2>1. SUFFICES ASSUME u \notin chunked, NEW v \in chunked PROVE v \in batch.reqs
        OBVIOUS
    <2>2. pending \in Seq(Uid) /\ Len(pending) \in Nat /\ Head(pending) = pending[1]
          /\ DOMAIN pending = 1..Len(pending)
        BY <1>1, <1>2 DEF TypeOK
    <2>3. v \notin ToSet(pending)
        <3>1. SUFFICES ASSUME v \in ToSet(pending) PROVE FALSE OBVIOUS
        <3>2. PICK j \in 1..Len(pending) : v = pending[j] BY <2>2, <3>1 DEF ToSet
        <3>3. CASE j = 1 BY <2>1, <2>2, <3>2, <3>3
        <3>4. CASE j # 1
            <4>1. 1 \in 1..Len(pending) /\ 1 < j BY <2>2, <3>2, <3>4
            <4>2. pending[1] \in chunked BY <2>1, <3>2, <4>1 DEF IInv, ContinuationsFirst
            <4> QED BY <2>1, <2>2, <4>2
        <3> QED BY <3>3, <3>4
    <2>4. v \in ToSet(chunkedList) BY <2>1, <2>3 DEF IInv, QueueInv, Waiting
    <2> QED BY <1>1, <2>4 DEF IInv, BatchInv
<1> HIDE DEF u
<1>5. /\ inputLen[u] \in Nat /\ outputLen[u] \in Nat /\ cachedLen[u] \in Nat
      /\ tokenBudget \in Nat /\ rowPages[u] \in Nat
    BY <1>2, <1>3 DEF TypeOK
<1>6. start \in Nat /\ start <= inputLen[u] /\ outputLen[u] > 0
    <2>1. start \in Nat BY <1>5
    <2>2. u \in chunked => cachedLen[u] <= inputLen[u] BY DEF IInv, LengthInv
    <2>3. ended[u] = {} /\ tokens[u] = 0 /\ tokens[u] < outputLen[u]
        BY <1>3 DEF IInv, ReplyInv, CountInv
    <2> QED BY <1>5, <2>1, <2>2, <2>3
<1>7. rowPages[u] = Pages(start)
    <2>1. CASE u \in chunked
        <3>1. u \in seated BY <2>1 DEF IInv, SeatInv
        <3> QED BY <1>1, <1>3, <2>1, <3>1 DEF PageInv, RowInv, Covered
    <2>2. CASE u \notin chunked
        <3>1. u \notin seated BY <1>3, <2>2 DEF IInv, SeatInv
        <3>2. Pages(0) = 0 BY SizesAssumption DEF Pages
        <3> QED BY <1>3, <2>2, <3>1, <3>2 DEF PageInv, RowInv
    <2> QED BY <2>1, <2>2
<1> HIDE DEF start
<1>8. size \in Int /\ size <= remain
    <2>1. tokenBudget \in Int /\ remain \in Int BY <1>5, <1>6
    <2>2. size \in {tokenBudget, remain} /\ size <= remain BY <2>1, MinOfTwo
    <2> HIDE DEF size, remain
    <2> QED BY <2>1, <2>2
<1> HIDE DEF size
<1>9. /\ \A v \in Uid : Owed'[v] = Owed[v] /\ MaxDeviceLen(v)' = MaxDeviceLen(v)
      /\ MaxDeviceLen(u) = inputLen[u] + outputLen[u]
    BY <1>1, OwedKept DEF MaxDeviceLen
<1> DEFINE a == Pages(MaxDeviceLen(u) - 1)  b == Pages(start)
           seats == running \cup batch.reqs  O == Owed'
<1>10. /\ MaxDeviceLen(u) \in Nat /\ MaxDeviceLen(u) - 1 \in Nat /\ start <= MaxDeviceLen(u) - 1
       /\ Owed[u] = a - b /\ a \in Nat /\ b \in Nat /\ b <= a
       /\ PageSize * b >= start /\ PageSize * a <= MaxDeviceLen(u)
    <2>1. MaxDeviceLen(u) \in Nat /\ MaxDeviceLen(u) - 1 \in Nat /\ start <= MaxDeviceLen(u) - 1
        BY <1>5, <1>6, <1>9
    <2>2. a \in Nat /\ b \in Nat /\ b <= a BY <1>6, <2>1, PagesMonotone
    <2>3. PageSize * b >= start BY <1>6, PagesHold
    <2>4. PageSize * a <= MaxDeviceLen(u) BY <1>3 DEF BudgetInv, RoomInv
    <2>5. Owed[u] = a - b BY <1>2, <1>3, <1>7, OwedIs
    <2> QED BY <2>1, <2>2, <2>3, <2>4, <2>5
<1>11. /\ IsFiniteSet(seats) /\ u \notin seats
       /\ \A v \in seats \cup {u} : v \in Uid /\ O[v] = Owed[v] /\ Owed[v] \in Int
    <2>1. seats \subseteq Uid BY <1>2 DEF TypeOK, Batches
    <2>2. IsFiniteSet(seats) BY <2>1, UidAssumption, FS_Subset
    <2> QED BY <1>2, <1>3, <1>9, <2>1, <2>2, OwedIs
<1>12. running' \cup batch'.reqs = seats \cup {u} BY <1>1
<1>13. PageSize * SumOver(Owed, seats) <= reservedSize /\ reservedSize \in Int
    BY <1>1 DEF BudgetInv, PassInv
<1> DEFINE old == SumOver(Owed, seats)  new == SumOver(O, seats \cup {u})
<1>14. old \in Int /\ new = Owed[u] + old
    <2> HIDE DEF seats, O
    <2>1. old \in Int BY <1>11, SumInt
    <2>2. \A v \in seats \cup {u} : O[v] \in Int BY <1>11
    <2>3. new = O[u] + SumOver(O, seats) BY <1>11, <2>2, SumAdd
    <2>4. SumOver(O, seats) = old BY <1>11, SumAgree
    <2>5. O[u] = Owed[u] BY <1>11
    <2> QED BY <2>1, <2>3, <2>4, <2>5
<1>15. PageSize \in Nat \ {0} BY SizesAssumption
<1>16. PassInv'
    <2>1. reservedSize' = reservedSize + (MaxDeviceLen(u) - start)
        BY <1>1, <1>5, <1>6, <1>9, <1>13
    <2> HIDE DEF old, new, seats, O, a, b, remain
    <2>2. new = (a - b) + old BY <1>10, <1>14
    <2>3. PageSize * new = PageSize * a - PageSize * b + PageSize * old
        <3>1. a \in Int /\ b \in Int /\ PageSize \in Int BY <1>10, <1>15
        <3>2. PageSize * ((a - b) + old) = PageSize * a - PageSize * b + PageSize * old
            BY <1>14, <3>1
        <3> QED BY <2>2, <3>2
    <2>4. /\ PageSize * a \in Int /\ PageSize * b \in Int /\ PageSize * old \in Int
          /\ PageSize * old <= reservedSize
        BY <1>10, <1>13, <1>14, <1>15 DEF old
    <2>5. PageSize * new <= reservedSize' /\ reservedSize' \in Int
        BY <1>6, <1>10, <1>13, <2>1, <2>3, <2>4
    <2>6. PageSize * SumOver(Owed', running' \cup batch'.reqs) <= reservedSize'
        BY <1>12, <2>5 DEF new, O
    <2> QED BY <2>5, <2>6 DEF PassInv
<1>17. DemandInv'
    <2>1. CASE u \in chunked
        <3>1. Demand' \subseteq Demand BY <1>1, <2>1 DEF Demand
        <3>2. freePages <= freePages' BY <1>1, <1>2 DEF TypeOK
        <3>3. \A v \in Demand' : Owed'[v] = Owed[v]
            <4>1. Demand \subseteq Uid BY <1>2, OwedIs
            <4> QED BY <1>9, <3>1, <4>1
        <3> QED BY <1>2, <3>1, <3>2, <3>3, DemandShrinks DEF BudgetInv
    <2>2. CASE u \notin chunked
        <3>1. Demand' = seats \cup {u} BY <1>1, <1>4, <2>2 DEF Demand
        <3>2. b = 0 /\ start = 0
            BY <2>2, SizesAssumption DEF start, Pages
        <3>3. MaxDeviceLen(u) + reservedSize <= freePages * PageSize
            BY <1>1, <2>2 DEF Fits, AvailableSize
        <3>4. freePages \in Nat /\ freePages' = freePages BY <1>1, <1>2 DEF TypeOK
        <3>5. \A v \in Demand' : Owed'[v] >= 0
            <4>1. seats \subseteq Demand BY <1>1 DEF Demand
            <4>2. \A v \in seats : Owed[v] >= 0 BY <4>1 DEF BudgetInv, DemandInv
            <4>3. Owed[u] >= 0
                <5> HIDE DEF a, b
                <5> QED BY <1>10
            <4> QED BY <1>11, <3>1, <4>2, <4>3
        <3> HIDE DEF old, new, seats, O, a, b, remain
        <3>6. new = a + old BY <1>10, <1>14, <3>2
        <3>7. PageSize * new = PageSize * a + PageSize * old
            <4>1. a \in Int /\ PageSize \in Int BY <1>10, <1>15
            <4>2. PageSize * (a + old) = PageSize * a + PageSize * old BY <1>14, <4>1
            <4> QED BY <3>6, <4>2
        <3>8. PageSize * old <= reservedSize BY <1>13 DEF old
        <3>9. /\ PageSize * a \in Int /\ PageSize * old \in Int /\ PageSize * freePages \in Int
              /\ freePages * PageSize = PageSize * freePages
            BY <1>10, <1>14, <1>15, <3>4
        <3>10. PageSize * new <= PageSize * freePages
            BY <1>10, <1>13, <3>3, <3>7, <3>8, <3>9
        <3>11. new \in Int BY <1>10, <1>14, <3>6
        <3>12. new <= freePages
            <4>1. SUFFICES ASSUME new >= freePages + 1 PROVE FALSE BY <3>4, <3>11
            <4>2. PageSize * new >= PageSize * (freePages + 1) BY <1>15, <3>4, <3>11, <4>1
            <4>3. PageSize * (freePages + 1) = PageSize * freePages + PageSize
                BY <1>15, <3>4
            <4>4. PageSize * new \in Int BY <1>15, <3>11
            <4> QED BY <1>15, <3>9, <3>10, <4>2, <4>3, <4>4
        <3>13. SumOver(Owed', Demand') <= freePages' BY <3>1, <3>4, <3>12 DEF new, O
        <3> QED BY <3>5, <3>13 DEF DemandInv
    <2> QED BY <2>1, <2>2
<1>18. RoomInv'
    <2>1. Waiting' \subseteq Waiting
        <3>1. pending \in Seq(Uid) /\ IsInjective(pending) /\ chunkedList \in Seq(Uid)
              /\ IsInjective(chunkedList) /\ u \notin ToSet(chunkedList)
            BY <1>3 DEF IInv, TypeOK, QueueInv
        <3>2. ToSet(pending') = ToSet(pending) \ {u} BY <1>1, <3>1, TailOfQueue DEF u
        <3>3. ToSet(chunkedList') \subseteq ToSet(chunkedList) \cup {u}
            <4>1. CASE partial BY <1>1, <1>3, <3>1, <4>1, AppendToQueue
            <4>2. CASE ~partial BY <1>1, <4>2
            <4> QED BY <4>1, <4>2
        <3> QED BY <1>3, <3>2, <3>3 DEF Waiting
    <2>2. Waiting \subseteq Uid BY <1>2, ElementsOfQueue DEF Waiting, TypeOK
    <2>3. \A v \in Uid : Pages(MaxDeviceLen(v) - 1)' = Pages(MaxDeviceLen(v) - 1)
        BY <1>1 DEF MaxDeviceLen, Pages
    <2> QED BY <1>9, <2>1, <2>2, <2>3 DEF BudgetInv, RoomInv
<1>19. AheadInv'
    <2>1. \A v \in Uid \ {u} : cachedLen'[v] = cachedLen[v] /\ deviceLen'[v] = deviceLen[v]
        BY <1>1, <1>2, <1>3 DEF TypeOK
    <2>2. deviceLen'[u] = start + size BY <1>1, <1>2, <1>3 DEF TypeOK
    <2>3. deviceLen'[u] < MaxDeviceLen(u) BY <1>5, <1>6, <1>8, <1>9, <2>2
    <2>4. \A v \in running \cup batch.reqs : v \in Uid BY <1>11
    <2>5. \A v \in running' : deviceLen'[v] = cachedLen'[v] + 1
        BY <1>1, <1>3, <2>1, <2>4 DEF BudgetInv, AheadInv
    <2>6. \A v \in batch'.reqs : deviceLen'[v] < MaxDeviceLen(v)'
        BY <1>1, <1>3, <1>9, <2>1, <2>3, <2>4 DEF BudgetInv, AheadInv
    <2> QED BY <2>5, <2>6 DEF AheadInv
<1>20. AliveInv' BY <1>1 DEF AliveInv
<1> QED BY <1>16, <1>17, <1>18, <1>19, <1>20 DEF BudgetInv

\* Launching feeds one token per request of the batch: those with output left are
\* one token ahead of the cache, the others take no more pages (complete_one).
LEMMA LaunchBudget ==
    ASSUME IInv, IInv', PageInv, BudgetInv, Launch
    PROVE  BudgetInv'
<1>1. /\ pc = "alloc" /\ pc' = "drain"
      /\ cachedLen' = [u \in Uid |-> IF u \in batch.reqs THEN deviceLen[u] ELSE cachedLen[u]]
      /\ deviceLen' = [u \in Uid |-> IF u \in batch.reqs THEN deviceLen[u] + 1 ELSE deviceLen[u]]
      /\ running' = {u \in running \cup batch.reqs : CanDecode(u)}
      /\ UNCHANGED <<pending, chunkedList, chunked, inputLen, outputLen, poolVars, batch>>
    BY DEF Launch, CompleteOne
<1>2. TypeOK /\ TypeOK' BY DEF IInv
<1>3. Demand' \subseteq Demand BY <1>1 DEF Demand
<1>4. Waiting' = Waiting BY <1>1 DEF Waiting
<1>5. AheadInv'
    <2>1. running' \subseteq Uid BY <1>2 DEF TypeOK
    <2>2. ASSUME NEW u \in running' PROVE deviceLen'[u] = cachedLen'[u] + 1
        <3>1. CASE u \in batch.reqs BY <1>1, <2>1, <3>1
        <3>2. CASE u \notin batch.reqs BY <1>1, <2>1, <3>2 DEF BudgetInv, AheadInv
        <3> QED BY <3>1, <3>2
    <2> QED BY <1>1, <2>2 DEF AheadInv
<1>6. freePages <= freePages' /\ rowPages' = rowPages BY <1>1, <1>2 DEF poolVars, TypeOK
<1> QED BY <1>1, <1>2, <1>3, <1>4, <1>5, <1>6, ShrinkBudget

\* The drain frees what it ends; the end of an iteration frees nothing.
LEMMA DrainBudget ==
    ASSUME IInv, IInv', PageInv, BudgetInv,
           \/ EndIteration
           \/ \E u \in Uid : DrainChunk(u) \/ DrainAborted(u) \/ DrainEnded(u) \/ DrainToken(u)
    PROVE  BudgetInv'
<1>1. TypeOK /\ TypeOK' BY DEF IInv
<1>2. CASE EndIteration
    <2>1. /\ pc = "drain" /\ pc' \in {"idle", "poll"}
          /\ UNCHANGED <<queueVars, lenVars, poolVars, chunkedList>>
        BY <1>2 DEF EndIteration, passVars
    <2>2. Demand' = Demand /\ Waiting' = Waiting BY <2>1 DEF Demand, Waiting, queueVars
    <2>3. AheadInv' BY <2>1 DEF BudgetInv, AheadInv, lenVars, queueVars
    <2>4. freePages <= freePages' /\ rowPages' = rowPages BY <1>1, <2>1 DEF poolVars, TypeOK
    <2> QED BY <1>1, <2>1, <2>2, <2>3, <2>4, ShrinkBudget DEF lenVars
<1>3. ASSUME NEW u \in Uid, DrainChunk(u) \/ DrainAborted(u) \/ DrainEnded(u) \/ DrainToken(u)
      PROVE  BudgetInv'
    <2>1. /\ pc = "drain" /\ pc' = "drain" /\ u \in todo
          /\ UNCHANGED <<pending, chunked, cachedLen, deviceLen, inputLen, outputLen, batch,
                         chunkedList>>
        BY <1>3 DEF DrainChunk, DrainAborted, DrainEnded, DrainToken, queueVars, lenVars, passVars
    <2>2. Waiting' = Waiting BY <2>1 DEF Waiting
    <2>3. running' \subseteq running
        BY <1>3 DEF DrainChunk, DrainAborted, DrainEnded, DrainToken, queueVars
    <2>4. UNCHANGED poolVars \/ (Free(u) /\ u \notin chunked' \cup running')
        <3>1. CASE DrainChunk(u)
            BY <3>1 DEF DrainChunk, queueVars, IInv, SeatInv, QueueInv
        <3>2. CASE DrainAborted(u)
            BY <3>2, OldestSample DEF DrainAborted
        <3>3. CASE DrainEnded(u) BY <3>3 DEF DrainEnded
        <3>4. CASE DrainToken(u)
            <4>1. u \notin chunked BY <3>4, OldestSample DEF DrainToken
            <4> QED BY <2>1, <3>4, <4>1 DEF DrainToken
        <3> QED BY <1>3, <3>1, <3>2, <3>3, <3>4
    <2>5. Demand = chunked \cup running /\ Demand' = chunked' \cup running'
        BY <2>1 DEF Demand
    <2>6. AheadInv' BY <2>1, <2>3 DEF BudgetInv, AheadInv
    <2>7. (\A v \in Demand' : rowPages'[v] = rowPages[v]) /\ freePages <= freePages'
        <3>1. CASE UNCHANGED poolVars BY <1>1, <3>1 DEF poolVars, TypeOK
        <3>2. CASE Free(u) /\ u \notin chunked' \cup running'
            <4>1. /\ \A v \in Uid : rowPages'[v] = IF v = u THEN 0 ELSE rowPages[v]
                  /\ freePages' = freePages + rowPages[u]
                BY <1>1, <2>1, <3>2, FreeReturnsRow
            <4>2. Demand \subseteq Uid BY <1>1, OwedIs
            <4>3. freePages \in Nat /\ rowPages[u] \in Nat BY <1>1 DEF TypeOK
            <4> QED BY <2>1, <2>3, <2>5, <3>2, <4>1, <4>2, <4>3
        <3> QED BY <2>4, <3>1, <3>2
    <2>8. Demand' \subseteq Demand BY <2>1, <2>3, <2>5
    <2> QED BY <1>1, <2>1, <2>2, <2>6, <2>7, <2>8, ShrinkBudget
<1> QED BY <1>2, <1>3

\* Every step keeps the budget.
LEMMA NextBudget ==
    ASSUME RoomyShapes, IInv, IInv', PageInv, BudgetInv, [Next]_vars
    PROVE  BudgetInv'
<1>1. CASE UNCHANGED vars
    <2> USE <1>1 DEF vars, queueVars, lenVars, poolVars, passVars, batchVars, rebuildVars
    <2>1. Demand' = Demand /\ Owed' = Owed BY DEF Demand, Owed, MaxDeviceLen, Pages
    <2>2. DemandInv' /\ PassInv' BY <2>1 DEF BudgetInv, DemandInv, PassInv
    <2>3. RoomInv' /\ AheadInv' /\ AliveInv'
        BY DEF BudgetInv, RoomInv, AheadInv, AliveInv, Waiting, MaxDeviceLen, Pages
    <2> QED BY <2>2, <2>3 DEF BudgetInv
<1>2. CASE Receive BY <1>2, ReceiveBudget
<1>3. CASE Loop
    <2>1. CASE LaunchFails
        <3>1. /\ pc = "alloc" /\ pc' = "dead" /\ ~engineUp
              /\ UNCHANGED <<queueVars, lenVars, poolVars, passVars, batchVars, rebuildVars>>
            BY <2>1 DEF LaunchFails
        <3> USE <3>1 DEF queueVars, lenVars, poolVars, passVars, batchVars, rebuildVars
        <3>2. Demand' \subseteq Demand BY DEF Demand
        <3>3. \A u \in Uid : Owed'[u] = Owed[u] BY OwedKept
        <3>4. TypeOK /\ TypeOK' BY DEF IInv
        <3>5. Demand \subseteq Uid /\ freePages <= freePages' BY SMTT(60), <3>4, OwedIs DEF TypeOK
        <3>6. DemandInv' BY <3>2, <3>3, <3>4, <3>5, DemandShrinks DEF BudgetInv
        <3>7. RoomInv' /\ AheadInv' /\ AliveInv' /\ PassInv'
            BY DEF BudgetInv, RoomInv, AheadInv, AliveInv, PassInv, Waiting, MaxDeviceLen, Pages
        <3> QED BY <3>6, <3>7 DEF BudgetInv
    <2> QED BY <1>3, <2>1, ScheduleBudget, AdmitOneBudget, BatchBudget, AllocateBudget,
               LaunchBudget, DrainBudget
            DEF Loop
<1> QED BY <1>1, <1>2, <1>3 DEF Next

\* The loop dies only when a rebuild and its rollback have both failed: what was
\* reserved at admission covers every later allocation, in prefill and in decode
\* (PrefillAdder.try_add_one, allocate_paged); with pages of one token (the
\* default) or two, whatever lengths are asked for.
THEOREM AllocationIsCovered ==
    ASSUME PageSize \in {1, 2} \/ RoomyShapes
    PROVE  Spec => []AllocationCovered
<1>1. RoomyShapes BY SmallPagesAreRoomy
<1>2. Init => BudgetInv BY <1>1, InitBudget
<1>3. IInv /\ IInv' /\ PageInv /\ BudgetInv /\ [Next]_vars => BudgetInv'
    BY <1>1, NextBudget
<1>4. BudgetInv => AllocationCovered BY DEF BudgetInv, AliveInv, AllocationCovered
<1> QED BY <1>2, <1>3, <1>4, Inductive, InductivePages, PTL DEF Spec

=============================================================================
