----------------------- MODULE OffloadMoeCacheProofs -----------------------
(***************************************************************************)
(* The expert cache, for any number of layers, experts and slots and any   *)
(* sequence of forward passes: a GEMM reads the weights it is meant to     *)
(* read, the maps of the pool are exact, no buffer is taken before it is   *)
(* released.  All of it in deployments that do not load short chunks on    *)
(* demand beside locked layers (ShortsUnlocked); the code allows them, and *)
(* there the assertion of the prefetch can fail.                           *)
(*                                                                         *)
(* The streams are unbounded queues.  What orders them is counted: how     *)
(* many records of an event are among the first i tasks of a stream.       *)
(***************************************************************************)
EXTENDS OffloadMoeCache, FiniteSetTheorems, TLAPS

Events == {Nothing, Begin} \cup {Ready(b) : b \in Buffer} \cup {Release(b) : b \in Buffer}

Kinds == {"mark", "gather", "dense", "load", "gemm", "materialize", "done",
          "snapshot", "fill", "misses"}

Tasks == [do : Kinds, layer : Layer, rows : SUBSET Expert, base : Int,
          awaits : Events, ahead : Nat, records : Events]

Caches == [holds : [Buffer -> Int], released : [Buffer -> BOOLEAN], failed : BOOLEAN,
           stream : [{"compute", "copy"} -> Seq(Tasks)]]

Kernels(c) == c.stream["compute"]
Copies(c) == c.stream["copy"]

\* What a task is counted by: the event it records, or else waits for.
Event(t) == IF t.records = Nothing THEN t.awaits ELSE t.records

\* The tasks of event e among the first i of S.
Count(S, e, i) == Cardinality({j \in 1..i : Event(S[j]) = e})
Total(S, e) == Count(S, e, Len(S))

Plan ==
    [overlap |-> overlap, splits |-> Splits, layers |-> {l \in Layer : Splits /\ Pinned(l)},
     slots |-> Slot, sparse |-> variant.movement = "sparse"]

Pool == [slotFor |-> slotFor, idOf |-> idOf, bytes |-> bytes, route |-> route, snap |-> snap]

-----------------------------------------------------------------------------
(***************************************************************************)
(* The streams.  A buffer is lent to a layer from its prefetch to its      *)
(* GEMMs; the loans of a buffer that are not over are numbered from 1, as  *)
(* the GEMMs that will end them, the last by those not yet enqueued.       *)
(***************************************************************************)
Denses(c, b, i) == Count(Kernels(c), Release(b), i)
Fills(c, b, j) == Count(Copies(c), Ready(b), j)
Begins(c, i) == Count(Kernels(c), Begin, i)

Loans(c, b) == Total(Kernels(c), Release(b)) + (IF c.released[b] THEN 0 ELSE 1)

\* How many of them have their copy.
Held(c, b) == Loans(c, b) - Total(Copies(c), Ready(b))

\* The m-th loan of b is for the rows r of layer l; R are the rows of the last one.
Loan(c, R, b, m, l, r) ==
    \/ \E i \in 1..Len(Kernels(c)) :
          /\ Event(Kernels(c)[i]) = Release(b) /\ Denses(c, b, i) = m
          /\ Kernels(c)[i].layer = l /\ Kernels(c)[i].rows = r
    \/ ~c.released[b] /\ m = Total(Kernels(c), Release(b)) + 1 /\ c.holds[b] = l /\ r = R

Inert(t) == t.records = Nothing /\ t.awaits = Nothing /\ t.ahead = 0

KernelShape(p, t) ==
    /\ t.do \in {"mark", "gather", "dense", "load", "gemm", "materialize", "done"}
    /\ t.do = "mark" => p.overlap /\ t.records = Begin /\ t.awaits = Nothing /\ t.ahead = 0
    /\ t.do = "dense" /\ p.overlap =>
          /\ t.base = Base(BufferOf(t.layer))
          /\ t.awaits = Ready(BufferOf(t.layer)) /\ t.records = Release(BufferOf(t.layer))
    /\ t.do = "dense" /\ ~p.overlap => Inert(t) /\ t.base = 0 /\ t.rows = Expert
    /\ t.do = "gather" => p.overlap /\ t.layer \in p.layers /\ t.base = Base(BufferOf(t.layer))
    /\ t.do = "materialize" => ~p.overlap
    /\ t.do \notin {"mark", "dense"} => Inert(t)

CopyShape(p, t) ==
    /\ p.overlap
    /\ t.do \in {"mark", "snapshot", "fill", "misses"}
    /\ t.do = "mark" => t.awaits = Begin /\ t.records = Nothing
    /\ t.do = "snapshot" => p.splits /\ Inert(t)
    /\ t.do \in {"fill", "misses"} =>
          /\ t.base = Base(BufferOf(t.layer))
          /\ t.awaits = Release(BufferOf(t.layer)) /\ t.records = Ready(BufferOf(t.layer))
          /\ t.do = "misses" <=> t.layer \in p.layers

ShapeInv(p, c) ==
    /\ \A i \in 1..Len(Kernels(c)) : KernelShape(p, Kernels(c)[i])
    /\ \A j \in 1..Len(Copies(c)) : CopyShape(p, Copies(c)[j])

\* At most one loan has its copy: the first one.
HeldInv(c) == \A b \in Buffer : Held(c, b) \in {0, 1}

\* The GEMMs of a loan wait for its copy, its copy for the GEMMs of the loan before.
AheadInv(c) ==
    \A b \in Buffer :
        /\ \A i \in 1..Len(Kernels(c)) : Event(Kernels(c)[i]) = Release(b) =>
              Kernels(c)[i].ahead = Denses(c, b, i) - Held(c, b)
        /\ \A j \in 1..Len(Copies(c)) : Event(Copies(c)[j]) = Ready(b) =>
              Copies(c)[j].ahead = Fills(c, b, j) - 1 + Held(c, b)

\* The copy of a loan brings its rows.
PairInv(c, R) ==
    \A b \in Buffer, j \in 1..Len(Copies(c)) : Event(Copies(c)[j]) = Ready(b) =>
        \A l, r : Loan(c, R, b, Fills(c, b, j) + Held(c, b), l, r) =>
            Copies(c)[j].layer = l /\ r \subseteq Copies(c)[j].rows

\* A gather belongs to a loan; a loan but the first still has its gather before it.
Gathers(c, b, i) == Kernels(c)[i].do = "gather" /\ BufferOf(Kernels(c)[i].layer) = b

GatherInv(p, c, R) ==
    \A b \in Buffer :
        /\ \A i \in 1..Len(Kernels(c)) : Gathers(c, b, i) =>
              /\ Denses(c, b, i) < Loans(c, b)
              /\ \A l, r : Loan(c, R, b, Denses(c, b, i) + 1, l, r) => l = Kernels(c)[i].layer
        /\ \A m, l, r : Loan(c, R, b, m, l, r) /\ m # 1 /\ l \in p.layers =>
              \E i \in 1..Len(Kernels(c)) :
                  Gathers(c, b, i) /\ Kernels(c)[i].layer = l /\ Denses(c, b, i) = m - 1

\* A load on demand and the copies: each runs before the other or after it.
IsLoad(t) == t.do \in {"load", "gemm"}

Before(c, i, j) ==
    \E b \in Buffer : Event(Copies(c)[j]) = Ready(b) /\ Fills(c, b, j) + Held(c, b) <= Denses(c, b, i)

Fences(c, i, k) == Copies(c)[k].do = "mark" /\ Copies(c)[k].ahead > Begins(c, i)

After(c, i, j) == \E k \in 1..(j - 1) : Fences(c, i, k)

LoadInv(p, c) ==
    \A i \in 1..Len(Kernels(c)) : IsLoad(Kernels(c)[i]) =>
        /\ \A j \in 1..Len(Copies(c)) : Copies(c)[j].do # "mark" => Before(c, i, j) \/ After(c, i, j)
        /\ \A b \in Buffer : Held(c, b) = 1 => Denses(c, b, i) >= 1
        /\ p.splits => \A b \in Buffer : Denses(c, b, i) = Loans(c, b)

\* GEMMs over loaded rows come right after the load.
Follows(S, i, do) == i = 1 \/ (S[i - 1].do = do /\ S[i - 1].layer = S[i].layer)

ChainInv(p, c) ==
    \A i \in 1..Len(Kernels(c)) :
        /\ Kernels(c)[i].do = "gemm" => Follows(Kernels(c), i, "load")
        /\ Kernels(c)[i].do = "dense" /\ ~p.overlap => Follows(Kernels(c), i, "materialize")

StreamInv(p, c, R) ==
    /\ ShapeInv(p, c) /\ HeldInv(c) /\ AheadInv(c) /\ PairInv(c, R)
    /\ GatherInv(p, c, R) /\ LoadInv(p, c) /\ ChainInv(p, c)

-----------------------------------------------------------------------------
(***************************************************************************)
(* The pass that is enqueued.                                              *)
(***************************************************************************)
PassInv(p, c, at) ==
    /\ ~c.failed
    /\ \A b \in Buffer :
          \/ c.released[b]
          \/ /\ at.begun /\ ~p.sparse /\ at.layer \in 1..(NumLayers - 1)
             /\ BufferOf(at.layer) = b /\ c.holds[b] = at.layer
    /\ at.begun => /\ at.kind = "prefill" /\ p.overlap
                   /\ \A b \in Buffer : c.released[b] => c.holds[b] < at.layer
    /\ at.kind = "prefill" /\ p.overlap /\ at.layer > 0 => at.begun
    /\ \A j \in 1..Len(Copies(c)) : Copies(c)[j].do = "snapshot" => at.begun /\ at.layer = 0
    /\ at.begun => \A i \in 1..Len(Kernels(c)) : IsLoad(Kernels(c)[i]) =>
          /\ \E k \in 1..Len(Copies(c)) :
                /\ Fences(c, i, k)
                /\ p.splits => \E j \in (k + 1)..Len(Copies(c)) : Copies(c)[j].do = "snapshot"
          /\ p.splits => at.layer = 0

-----------------------------------------------------------------------------
(***************************************************************************)
(* The pool.                                                               *)
(***************************************************************************)
InBuffer(b, s) == s \in Base(b)..(Base(b) + NumExperts - 1)

\* The maps are inverse; what is named is held, but for a buffer that is lent.
MapInv(p, c, v) ==
    /\ \A l \in Layer, e \in Expert : v.slotFor[l][e] # None =>
          v.slotFor[l][e] \in p.slots /\ v.idOf[v.slotFor[l][e]] = <<l, e>>
    /\ \A s \in p.slots : v.idOf[s] # NoId =>
          /\ v.idOf[s] \in Layer \X Expert
          /\ v.slotFor[v.idOf[s][1]][v.idOf[s][2]] = s
          /\ s >= 2 * NumExperts => v.bytes[s] = v.idOf[s]
          /\ \A b \in Buffer : InBuffer(b, s) =>
                /\ v.bytes[s] = v.idOf[s] \/ (p.splits /\ Total(Copies(c), Ready(b)) >= 1)
                /\ Held(c, b) = 0

\* The rows of layer l a gather brings.
Kept(p, v, l) == IF l \in p.layers THEN Resident(v.slotFor, l) ELSE {}

Agree(v) == \A l \in Layer : Resident(v.snap, l) = Resident(v.slotFor, l)

\* The buffer of a first loan holds its rows once they are brought.
BufferInv(p, c, R, v) ==
    \A b \in Buffer : \A l, r : Loan(c, R, b, 1, l, r) =>
        /\ Held(c, b) = 1 => \A e \in r \ Kept(p, v, l) : v.bytes[Base(b) + e] = <<l, e>>
        /\ \/ \E i \in 1..Len(Kernels(c)) : Gathers(c, b, i) /\ Denses(c, b, i) = 0
           \/ \A e \in Kept(p, v, l) : v.bytes[Base(b) + e] = <<l, e>>

\* The GEMMs whose turn it is read what was loaded.
HeadInv(p, c, v) ==
    Kernels(c) # <<>> =>
        LET task == Kernels(c)[1]
        IN  /\ task.do = "gemm" => \A e \in DOMAIN v.route : v.bytes[v.route[e]] = <<task.layer, e>>
            /\ task.do = "dense" /\ ~p.overlap => \A e \in Expert : v.bytes[e] = <<task.layer, e>>

\* The snapshot a loan is filled by says what the map says.
SnapInv(p, c, at, v) ==
    p.splits =>
        /\ (\E b \in Buffer : Loans(c, b) > 0) => Agree(v)
        /\ at.begun /\ (\A j \in 1..Len(Copies(c)) : Copies(c)[j].do # "snapshot") => Agree(v)

PoolInv(p, c, R, v) == MapInv(p, c, v) /\ BufferInv(p, c, R, v) /\ HeadInv(p, c, v)

TypeInv ==
    /\ variant \in Variants /\ size \in variant.sizes /\ overlap \in BOOLEAN
    /\ overlap => size >= 2 * NumExperts /\ variant.movement # "whole"
    /\ pass \in [kind : {"idle", "decode", "prefill", "short"}, layer : 0..NumLayers, begun : BOOLEAN]
    /\ pass.kind = "short" => variant.short
    /\ cache \in Caches
    /\ slotFor \in [Layer -> [Expert -> Int]] /\ snap \in [Layer -> [Expert -> Int]]
    /\ DOMAIN idOf = Slot

Fit(p, c, at, v) ==
    StreamInv(p, c, Expert) /\ PassInv(p, c, at) /\ PoolInv(p, c, Expert, v) /\ SnapInv(p, c, at, v)

IInv == TypeInv /\ Fit(Plan, cache, pass, Pool)

-----------------------------------------------------------------------------
(***************************************************************************)
(* Counting.                                                               *)
(***************************************************************************)
LEMMA EventsDiffer ==
    /\ Nothing # Begin
    /\ \A b, d \in Buffer : /\ Ready(b) # Release(d)
                            /\ Ready(b) = Ready(d) => b = d
                            /\ Release(b) = Release(d) => b = d
    /\ \A b \in Buffer : Ready(b) \notin {Nothing, Begin} /\ Release(b) \notin {Nothing, Begin}
BY DEF Nothing, Begin, Ready, Release

LEMMA EventsAre ==
    Nothing \in Events /\ Begin \in Events /\ \A b \in Buffer : Ready(b) \in Events /\ Release(b) \in Events
BY DEF Events

LEMMA CountNat ==
    ASSUME NEW S, NEW e, NEW i \in Int
    PROVE  IsFiniteSet({j \in 1..i : Event(S[j]) = e}) /\ Count(S, e, i) \in Nat
<1>1. IsFiniteSet(1..i)
    BY FS_Interval
<1>2. {j \in 1..i : Event(S[j]) = e} \in SUBSET (1..i)
    OBVIOUS
<1>3. IsFiniteSet({j \in 1..i : Event(S[j]) = e})
    BY <1>1, <1>2, FS_Subset
<1> QED BY <1>3, FS_CardinalityType DEF Count

LEMMA CountZero ==
    ASSUME NEW S, NEW e
    PROVE  Count(S, e, 0) = 0
<1>1. {j \in 1..0 : Event(S[j]) = e} = {}
    OBVIOUS
<1> QED BY <1>1, FS_EmptySet DEF Count

LEMMA CountStep ==
    ASSUME NEW S, NEW e, NEW i \in Nat \ {0}
    PROVE  Count(S, e, i) = Count(S, e, i - 1) + (IF Event(S[i]) = e THEN 1 ELSE 0)
<1> DEFINE A == {j \in 1..(i - 1) : Event(S[j]) = e}
           B == {j \in 1..i : Event(S[j]) = e}
<1>1. IsFiniteSet(A) /\ Cardinality(A) \in Nat
    BY CountNat DEF Count
<1>2. i \notin A
    OBVIOUS
<1>3. CASE Event(S[i]) = e
    <2>1. B = A \cup {i}
        BY <1>3
    <2> HIDE DEF A, B
    <2>2. Cardinality(B) = Cardinality(A) + 1
        BY <1>1, <1>2, <2>1, FS_AddElement
    <2> QED BY <1>3, <2>2 DEF Count, A, B
<1>4. CASE Event(S[i]) # e
    <2>1. \A j \in B : j # i
        BY <1>4
    <2>2. B = A
        BY <2>1
    <2>3. Count(S, e, i) = Cardinality(B) /\ Count(S, e, i - 1) = Cardinality(A)
        BY DEF Count
    <2> HIDE DEF A, B
    <2> QED BY <1>1, <1>4, <2>2, <2>3
<1> QED BY <1>3, <1>4

LEMMA CountAgree ==
    ASSUME NEW S, NEW T, NEW e, NEW i \in Int,
           \A j \in 1..i : Event(S[j]) = e <=> Event(T[j]) = e
    PROVE  Count(S, e, i) = Count(T, e, i)
<1>1. {j \in 1..i : Event(S[j]) = e} = {j \in 1..i : Event(T[j]) = e}
    OBVIOUS
<1> QED BY <1>1 DEF Count

LEMMA CountMonotone ==
    ASSUME NEW S, NEW e, NEW i \in Nat, NEW k \in Nat, i <= k
    PROVE  /\ Count(S, e, i) <= Count(S, e, k)
           /\ i < k /\ Event(S[k]) = e => Count(S, e, i) < Count(S, e, k)
<1>1. ASSUME NEW m \in Nat, i <= m PROVE Count(S, e, i) <= Count(S, e, m)
    <2> DEFINE A == {j \in 1..i : Event(S[j]) = e}
               B == {j \in 1..m : Event(S[j]) = e}
    <2>1. A \in SUBSET B
        BY <1>1
    <2>2. IsFiniteSet(B) /\ Count(S, e, i) = Cardinality(A) /\ Count(S, e, m) = Cardinality(B)
        BY CountNat DEF Count
    <2> HIDE DEF A, B
    <2> QED BY <2>1, <2>2, FS_Subset
<1>2. ASSUME i < k, Event(S[k]) = e PROVE Count(S, e, i) < Count(S, e, k)
    <2>1. Count(S, e, i) <= Count(S, e, k - 1)
        BY <1>1, <1>2
    <2>2. Count(S, e, k) = Count(S, e, k - 1) + 1
        BY <1>2, CountStep
    <2>3. Count(S, e, i) \in Nat /\ Count(S, e, k - 1) \in Nat
        BY CountNat, k - 1 \in Int, i \in Int
    <2> QED BY <2>1, <2>2, <2>3
<1> QED BY <1>1, <1>2

\* A task is put behind the others, or the first one is taken away.
LEMMA CountAppend ==
    ASSUME NEW S \in Seq(Tasks), NEW t \in Tasks, NEW e
    PROVE  /\ \A i \in 0..Len(S) : Count(Append(S, t), e, i) = Count(S, e, i)
           /\ Count(Append(S, t), e, Len(S) + 1) = Total(S, e) + (IF Event(t) = e THEN 1 ELSE 0)
           /\ Total(Append(S, t), e) = Total(S, e) + (IF Event(t) = e THEN 1 ELSE 0)
<1>1. /\ Len(S) \in Nat /\ Len(Append(S, t)) = Len(S) + 1 /\ Append(S, t)[Len(S) + 1] = t
      /\ \A j \in 1..Len(S) : Append(S, t)[j] = S[j]
    OBVIOUS
<1>2. ASSUME NEW i \in 0..Len(S) PROVE Count(Append(S, t), e, i) = Count(S, e, i)
    <2>1. i \in Int /\ \A j \in 1..i : Append(S, t)[j] = S[j]
        BY <1>1
    <2>2. \A j \in 1..i : Event(Append(S, t)[j]) = e <=> Event(S[j]) = e
        BY <2>1
    <2> QED BY ZenonT(60), <2>1, <2>2, CountAgree
<1>3. Count(Append(S, t), e, Len(S) + 1) = Total(S, e) + (IF Event(t) = e THEN 1 ELSE 0)
    <2> DEFINE n == Len(S) + 1
    <2>1. n \in Nat \ {0} /\ n - 1 = Len(S) /\ Len(S) \in 0..Len(S) /\ Append(S, t)[n] = t
        BY <1>1
    <2> HIDE DEF n
    <2>2. Count(Append(S, t), e, n) = Count(Append(S, t), e, n - 1)
              + (IF Event(Append(S, t)[n]) = e THEN 1 ELSE 0)
        BY <2>1, CountStep
    <2>3. Count(Append(S, t), e, n) = Total(S, e) + (IF Event(t) = e THEN 1 ELSE 0)
        BY <1>2, <2>1, <2>2 DEF Total
    <2> QED BY <2>3 DEF n
<1> QED BY <1>1, <1>2, <1>3 DEF Total

LEMMA CountShift ==
    ASSUME NEW S, NEW T, NEW e, NEW i \in Nat,
           \A j \in 1..i : Event(T[j]) = e <=> Event(S[j + 1]) = e
    PROVE  Count(S, e, i + 1) = Count(T, e, i) + (IF Event(S[1]) = e THEN 1 ELSE 0)
<1> DEFINE A == {j \in 1..i : Event(T[j]) = e}
           B == {j \in 1..(i + 1) : Event(S[j]) = e}
           D == B \ {1}
           f == [j \in A |-> j + 1]
<1>1. IsFiniteSet(A) /\ IsFiniteSet(B)
    <2>1. i \in Int /\ i + 1 \in Int
        OBVIOUS
    <2> QED BY <2>1, CountNat
<1>2. f \in Bijection(A, D)
    <2>1. f \in [A -> D]
        OBVIOUS
    <2>2. \A j, k \in A : f[j] = f[k] => j = k
        OBVIOUS
    <2>3. \A k \in D : \E j \in A : f[j] = k
        <3>1. ASSUME NEW k \in D PROVE k - 1 \in A /\ f[k - 1] = k
            OBVIOUS
        <3> QED BY <3>1
    <2> HIDE DEF f, A, D
    <2> QED BY <2>1, <2>2, <2>3 DEF Bijection, Injection, Surjection, IsInjective
<1>3. Cardinality(D) = Cardinality(A)
    BY <1>1, <1>2, FS_Bijection DEF ExistsBijection
<1>4. Cardinality(D) = IF 1 \in B THEN Cardinality(B) - 1 ELSE Cardinality(B)
    BY <1>1, FS_RemoveElement
<1>5. 1 \in B <=> Event(S[1]) = e
    OBVIOUS
<1>6. Cardinality(A) \in Nat /\ Cardinality(B) \in Nat
    BY <1>1, FS_CardinalityType
<1>7. Count(S, e, i + 1) = Cardinality(B) /\ Count(T, e, i) = Cardinality(A)
    BY DEF Count
<1> HIDE DEF A, B, D, f
<1>8. Cardinality(B) = Cardinality(A) + (IF Event(S[1]) = e THEN 1 ELSE 0)
    BY <1>3, <1>4, <1>5, <1>6
<1> QED BY <1>7, <1>8

LEMMA CountTail ==
    ASSUME NEW S \in Seq(Tasks), S # <<>>, NEW e
    PROVE  /\ \A i \in 0..Len(Tail(S)) :
                  Count(S, e, i + 1) = Count(Tail(S), e, i) + (IF Event(S[1]) = e THEN 1 ELSE 0)
           /\ Total(S, e) = Total(Tail(S), e) + (IF Event(S[1]) = e THEN 1 ELSE 0)
<1> DEFINE T == Tail(S)
<1>1. Len(S) = Len(T) + 1 /\ Len(T) \in Nat /\ \A j \in 1..Len(T) : T[j] = S[j + 1]
    OBVIOUS
<1> HIDE DEF T
<1>2. ASSUME NEW i \in 0..Len(T)
      PROVE  Count(S, e, i + 1) = Count(T, e, i) + (IF Event(S[1]) = e THEN 1 ELSE 0)
    <2>1. i \in Nat /\ \A j \in 1..i : Event(T[j]) = e <=> Event(S[j + 1]) = e
        BY <1>1
    <2> QED BY <2>1, CountShift
<1> QED BY <1>1, <1>2 DEF Total, T

-----------------------------------------------------------------------------
(***************************************************************************)
(* Types and ranges.                                                       *)
(***************************************************************************)
LEMMA Geometry ==
    /\ NumLayers \in Nat \ {0} /\ NumExperts \in Nat \ {0}
    /\ Base(0) = 0 /\ Base(1) = NumExperts
    /\ \A l \in Int : BufferOf(l) \in Buffer /\ BufferOf(l + 1) # BufferOf(l)
BY GeometryAssumption DEF Base, BufferOf, Buffer

LEMMA StreamTypes ==
    ASSUME NEW c \in Caches
    PROVE  /\ Kernels(c) \in Seq(Tasks) /\ Len(Kernels(c)) \in Nat
           /\ \A i \in 1..Len(Kernels(c)) : Kernels(c)[i] \in Tasks
           /\ Copies(c) \in Seq(Tasks) /\ Len(Copies(c)) \in Nat
           /\ \A j \in 1..Len(Copies(c)) : Copies(c)[j] \in Tasks
           /\ \A b \in Buffer : c.released[b] \in BOOLEAN /\ c.holds[b] \in Int
<1>1. Kernels(c) \in Seq(Tasks) /\ Copies(c) \in Seq(Tasks)
    BY DEF Caches, Kernels, Copies
<1>2. \A b \in Buffer : c.released[b] \in BOOLEAN /\ c.holds[b] \in Int
    BY DEF Caches
<1> QED BY <1>1, <1>2

LEMMA LoanTypes ==
    ASSUME NEW c \in Caches, NEW b \in Buffer
    PROVE  /\ \A i \in Int : Denses(c, b, i) \in Nat /\ Fills(c, b, i) \in Nat /\ Begins(c, i) \in Nat
           /\ Total(Kernels(c), Release(b)) \in Nat /\ Total(Copies(c), Ready(b)) \in Nat
           /\ Loans(c, b) \in Nat /\ Held(c, b) \in Int
           /\ Loans(c, b) = Held(c, b) + Total(Copies(c), Ready(b))
<1>1. \A S, e : \A i \in Int : Count(S, e, i) \in Nat
    BY CountNat
<1>2. \A i \in Int : Denses(c, b, i) \in Nat /\ Fills(c, b, i) \in Nat /\ Begins(c, i) \in Nat
    BY <1>1 DEF Denses, Fills, Begins
<1>3. Total(Kernels(c), Release(b)) \in Nat /\ Total(Copies(c), Ready(b)) \in Nat
    BY <1>1, StreamTypes DEF Total
<1>4. c.released[b] \in BOOLEAN
    BY StreamTypes
<1>5. Loans(c, b) \in Nat
    BY <1>3, <1>4 DEF Loans
<1> QED BY <1>2, <1>3, <1>5 DEF Held

\* Where the counts of the events lie.
LEMMA CountRange ==
    ASSUME NEW S \in Seq(Tasks), NEW e, NEW i \in 1..Len(S)
    PROVE  /\ Count(S, e, i) \in Nat /\ Total(S, e) \in Nat /\ Count(S, e, i) <= Total(S, e)
           /\ Event(S[i]) = e => Count(S, e, i) >= 1
           /\ i = 1 => Count(S, e, i) = IF Event(S[1]) = e THEN 1 ELSE 0
<1>1. Len(S) \in Nat /\ i \in Nat /\ i <= Len(S) /\ 0 < i
    OBVIOUS
<1>2. Count(S, e, i) \in Nat /\ Total(S, e) \in Nat /\ Count(S, e, 0) = 0
    <2>1. \A k \in Int : Count(S, e, k) \in Nat
        BY CountNat
    <2> QED BY <1>1, <2>1, CountZero DEF Total
<1>3. Count(S, e, i) <= Total(S, e)
    BY <1>1, CountMonotone DEF Total
<1>4. Event(S[i]) = e => Count(S, e, 0) < Count(S, e, i)
    BY <1>1, CountMonotone
<1>5. i = 1 => Count(S, e, i) = Count(S, e, 0) + IF Event(S[1]) = e THEN 1 ELSE 0
    <2>1. 1 \in Nat \ {0} /\ 1 - 1 = 0
        OBVIOUS
    <2>2. Count(S, e, 1) = Count(S, e, 0) + IF Event(S[1]) = e THEN 1 ELSE 0
        BY <2>1, CountStep
    <2> QED BY <2>2
<1> QED BY <1>2, <1>3, <1>4, <1>5

LEMMA LoanRange ==
    ASSUME NEW c \in Caches, NEW b \in Buffer, NEW R, NEW m, NEW l, NEW r, Loan(c, R, b, m, l, r)
    PROVE  m \in Nat /\ 1 <= m /\ m <= Loans(c, b)
<1>1. CASE \E i \in 1..Len(Kernels(c)) : Event(Kernels(c)[i]) = Release(b) /\ Denses(c, b, i) = m
    <2>1. PICK i \in 1..Len(Kernels(c)) : Event(Kernels(c)[i]) = Release(b) /\ Denses(c, b, i) = m
        BY <1>1
    <2>2. m \in Nat /\ m >= 1 /\ m <= Total(Kernels(c), Release(b)) /\ Total(Kernels(c), Release(b)) \in Nat
        BY <2>1, CountRange, StreamTypes DEF Denses
    <2> QED BY <2>2 DEF Loans
<1>2. CASE ~c.released[b] /\ m = Total(Kernels(c), Release(b)) + 1
    BY <1>2, LoanTypes DEF Loans
<1> QED BY <1>1, <1>2 DEF Loan

-----------------------------------------------------------------------------
(***************************************************************************)
(* A task is sent.                                                         *)
(***************************************************************************)
LEMMA KernelSent ==
    ASSUME NEW c \in Caches, NEW d \in Caches, NEW t \in Tasks, Kernels(d) = Append(Kernels(c), t)
    PROVE  /\ Len(Kernels(c)) \in Nat /\ Len(Kernels(d)) = Len(Kernels(c)) + 1
           /\ Kernels(d)[Len(Kernels(c)) + 1] = t
           /\ \A i \in 1..Len(Kernels(c)) : Kernels(d)[i] = Kernels(c)[i]
           /\ \A i \in 0..Len(Kernels(c)) :
                 /\ Begins(d, i) = Begins(c, i)
                 /\ \A b \in Buffer : Denses(d, b, i) = Denses(c, b, i)
           /\ \A b \in Buffer :
                 LET more == IF Event(t) = Release(b) THEN 1 ELSE 0
                 IN  /\ Denses(d, b, Len(Kernels(c)) + 1) = Total(Kernels(c), Release(b)) + more
                     /\ Total(Kernels(d), Release(b)) = Total(Kernels(c), Release(b)) + more
           /\ Begins(d, Len(Kernels(c)) + 1) =
                 Total(Kernels(c), Begin) + (IF Event(t) = Begin THEN 1 ELSE 0)
           /\ Total(Kernels(d), Begin) =
                 Total(Kernels(c), Begin) + (IF Event(t) = Begin THEN 1 ELSE 0)
<1>1. Kernels(c) \in Seq(Tasks)
    BY StreamTypes
<1>2. /\ Len(Kernels(c)) \in Nat /\ Len(Kernels(d)) = Len(Kernels(c)) + 1
      /\ Kernels(d)[Len(Kernels(c)) + 1] = t
      /\ \A i \in 1..Len(Kernels(c)) : Kernels(d)[i] = Kernels(c)[i]
    BY <1>1
<1>3. \A e : /\ \A i \in 0..Len(Kernels(c)) : Count(Kernels(d), e, i) = Count(Kernels(c), e, i)
             /\ Count(Kernels(d), e, Len(Kernels(c)) + 1) =
                   Total(Kernels(c), e) + (IF Event(t) = e THEN 1 ELSE 0)
             /\ Total(Kernels(d), e) = Total(Kernels(c), e) + (IF Event(t) = e THEN 1 ELSE 0)
    BY SMTT(60), <1>1, CountAppend
<1> QED BY <1>2, <1>3 DEF Denses, Begins

LEMMA CopySent ==
    ASSUME NEW c \in Caches, NEW d \in Caches, NEW t \in Tasks, Copies(d) = Append(Copies(c), t)
    PROVE  /\ Len(Copies(c)) \in Nat /\ Len(Copies(d)) = Len(Copies(c)) + 1
           /\ Copies(d)[Len(Copies(c)) + 1] = t
           /\ \A j \in 1..Len(Copies(c)) : Copies(d)[j] = Copies(c)[j]
           /\ \A b \in Buffer : \A j \in 0..Len(Copies(c)) : Fills(d, b, j) = Fills(c, b, j)
           /\ \A b \in Buffer :
                 LET more == IF Event(t) = Ready(b) THEN 1 ELSE 0
                 IN  /\ Fills(d, b, Len(Copies(c)) + 1) = Total(Copies(c), Ready(b)) + more
                     /\ Total(Copies(d), Ready(b)) = Total(Copies(c), Ready(b)) + more
<1>1. Copies(c) \in Seq(Tasks)
    BY StreamTypes
<1>2. /\ Len(Copies(c)) \in Nat /\ Len(Copies(d)) = Len(Copies(c)) + 1
      /\ Copies(d)[Len(Copies(c)) + 1] = t
      /\ \A j \in 1..Len(Copies(c)) : Copies(d)[j] = Copies(c)[j]
    BY <1>1
<1>3. \A e : /\ \A j \in 0..Len(Copies(c)) : Count(Copies(d), e, j) = Count(Copies(c), e, j)
             /\ Count(Copies(d), e, Len(Copies(c)) + 1) =
                   Total(Copies(c), e) + (IF Event(t) = e THEN 1 ELSE 0)
             /\ Total(Copies(d), e) = Total(Copies(c), e) + (IF Event(t) = e THEN 1 ELSE 0)
    BY SMTT(60), <1>1, CountAppend
<1> QED BY <1>2, <1>3 DEF Fills

\* A task that ends no loan changes none.
LEMMA LoansStay ==
    ASSUME NEW c \in Caches, NEW d \in Caches, NEW t \in Tasks, Kernels(d) = Append(Kernels(c), t),
           d.holds = c.holds, d.released = c.released, \A b \in Buffer : Event(t) # Release(b)
    PROVE  \A b \in Buffer : /\ Loans(d, b) = Loans(c, b)
                             /\ \A R, m, l, r : Loan(d, R, b, m, l, r) <=> Loan(c, R, b, m, l, r)
<1> SUFFICES ASSUME NEW b \in Buffer
             PROVE  /\ Loans(d, b) = Loans(c, b)
                    /\ \A R, m, l, r : Loan(d, R, b, m, l, r) <=> Loan(c, R, b, m, l, r)
    OBVIOUS
<1> DEFINE n == Len(Kernels(c))
<1>1. /\ n \in Nat /\ Len(Kernels(d)) = n + 1 /\ Kernels(d)[n + 1] = t
      /\ \A i \in 1..n : Kernels(d)[i] = Kernels(c)[i] /\ Denses(d, b, i) = Denses(c, b, i)
      /\ Total(Kernels(d), Release(b)) = Total(Kernels(c), Release(b))
    <2>1. n \in Nat
        BY KernelSent
    <2>2. \A i \in 1..n : i \in 0..n
        BY <2>1
    <2>3. /\ Len(Kernels(d)) = n + 1 /\ Kernels(d)[n + 1] = t
          /\ \A i \in 1..n : Kernels(d)[i] = Kernels(c)[i]
          /\ \A i \in 0..n : Denses(d, b, i) = Denses(c, b, i)
          /\ Total(Kernels(d), Release(b)) = Total(Kernels(c), Release(b)) + IF Event(t) = Release(b) THEN 1 ELSE 0
        BY ZenonT(60), KernelSent
    <2>4. Total(Kernels(c), Release(b)) \in Nat
        BY LoanTypes
    <2> QED BY <2>1, <2>2, <2>3, <2>4
<1>2. Loans(d, b) = Loans(c, b)
    BY <1>1 DEF Loans
<1>3. \A i \in 1..Len(Kernels(d)) : Event(Kernels(d)[i]) = Release(b) => i \in 1..n
    BY <1>1
<1>4. \A i \in 1..n : i \in 1..Len(Kernels(d))
    BY <1>1
<1> HIDE DEF n
<1>5. \A R, m, l, r : Loan(d, R, b, m, l, r) <=> Loan(c, R, b, m, l, r)
    BY <1>1, <1>3, <1>4 DEF Loan, n
<1> QED BY <1>2, <1>5

\* A task behind the kernels that has no part in the loans.
LEMMA KernelStream ==
    ASSUME NEW p, NEW R, NEW c \in Caches, NEW d \in Caches, NEW t \in Tasks, StreamInv(p, c, R),
           Kernels(d) = Append(Kernels(c), t), Copies(d) = Copies(c),
           d.holds = c.holds, d.released = c.released,
           KernelShape(p, t), t.do # "gather", \A b \in Buffer : Event(t) # Release(b),
           IsLoad(t) => /\ \A b \in Buffer : c.released[b]
                        /\ \A j \in 1..Len(Copies(c)) : Copies(c)[j].do # "snapshot",
           t.do = "gemm" => Follows(Kernels(d), Len(Kernels(d)), "load"),
           t.do = "dense" /\ ~p.overlap => Follows(Kernels(d), Len(Kernels(d)), "materialize")
    PROVE  /\ StreamInv(p, d, R)
           /\ \A b \in Buffer : Loans(d, b) = Loans(c, b) /\ Held(d, b) = Held(c, b)
<1> DEFINE n == Len(Kernels(c))
<1>1. /\ n \in Nat /\ Len(Kernels(d)) = n + 1 /\ Kernels(d)[n + 1] = t
      /\ \A i \in 1..n : Kernels(d)[i] = Kernels(c)[i] /\ Begins(d, i) = Begins(c, i)
      /\ \A b \in Buffer : /\ \A i \in 1..n : Denses(d, b, i) = Denses(c, b, i)
                           /\ Denses(d, b, n + 1) = Total(Kernels(c), Release(b))
    <2>1. n \in Nat
        BY KernelSent
    <2>2. \A i \in 1..n : i \in 0..n
        BY <2>1
    <2>3. /\ Len(Kernels(d)) = n + 1 /\ Kernels(d)[n + 1] = t
          /\ \A i \in 1..n : Kernels(d)[i] = Kernels(c)[i]
          /\ \A i \in 0..n : /\ Begins(d, i) = Begins(c, i)
                             /\ \A b \in Buffer : Denses(d, b, i) = Denses(c, b, i)
          /\ \A b \in Buffer : Denses(d, b, n + 1) =
                Total(Kernels(c), Release(b)) + IF Event(t) = Release(b) THEN 1 ELSE 0
        BY KernelSent
    <2>4. \A b \in Buffer : Total(Kernels(c), Release(b)) \in Nat
        BY LoanTypes
    <2> QED BY <2>1, <2>2, <2>3, <2>4
<1>2. \A b \in Buffer : /\ Loans(d, b) = Loans(c, b) /\ Held(d, b) = Held(c, b)
                        /\ \A j : Fills(d, b, j) = Fills(c, b, j)
                        /\ \A m, l, r : Loan(d, R, b, m, l, r) <=> Loan(c, R, b, m, l, r)
    BY LoansStay DEF Held, Fills
<1>3. \A i \in 1..Len(Kernels(d)) : i \in 1..n \/ i = n + 1
    BY <1>1
<1>4. \A i \in 1..n : i \in 1..Len(Kernels(d))
    BY <1>1
<1>5. \A i \in 1..n : \A do : Follows(Kernels(c), i, do) => Follows(Kernels(d), i, do)
    BY <1>1 DEF Follows
<1> HIDE DEF n
<1>6. ShapeInv(p, d)
    BY <1>1, <1>3 DEF StreamInv, ShapeInv, n
<1>7. HeldInv(d)
    BY <1>2 DEF StreamInv, HeldInv
<1>8. AheadInv(d)
    BY <1>1, <1>2, <1>3 DEF StreamInv, AheadInv, n
<1>9. PairInv(d, R)
    BY <1>2 DEF StreamInv, PairInv
<1>10. GatherInv(p, d, R)
    <2> SUFFICES ASSUME NEW b \in Buffer
                 PROVE  /\ \A i \in 1..Len(Kernels(d)) : Gathers(d, b, i) =>
                              /\ Denses(d, b, i) < Loans(d, b)
                              /\ \A l, r : Loan(d, R, b, Denses(d, b, i) + 1, l, r) => l = Kernels(d)[i].layer
                        /\ \A m, l, r : Loan(d, R, b, m, l, r) /\ m # 1 /\ l \in p.layers =>
                              \E i \in 1..Len(Kernels(d)) :
                                  Gathers(d, b, i) /\ Kernels(d)[i].layer = l /\ Denses(d, b, i) = m - 1
        BY DEF GatherInv
    <2>1. \A i \in 1..Len(Kernels(d)) : Gathers(d, b, i) => i \in 1..n /\ Gathers(c, b, i)
        BY <1>1, <1>3 DEF Gathers
    <2>2. \A i \in 1..n : Gathers(c, b, i) => Gathers(d, b, i)
        BY <1>1 DEF Gathers
    <2> QED BY <1>1, <1>2, <1>4, <2>1, <2>2 DEF StreamInv, GatherInv, n
<1>11. LoadInv(p, d)
    <2>1. ASSUME NEW i \in 1..n, IsLoad(Kernels(c)[i])
          PROVE  /\ \A j \in 1..Len(Copies(d)) : Copies(d)[j].do # "mark" => Before(d, i, j) \/ After(d, i, j)
                 /\ \A b \in Buffer : Held(d, b) = 1 => Denses(d, b, i) >= 1
                 /\ p.splits => \A b \in Buffer : Denses(d, b, i) = Loans(d, b)
        <3>1. \A j \in 1..Len(Copies(c)) : Before(c, i, j) => Before(d, i, j)
            BY <1>1, <1>2 DEF Before
        <3>2. \A j \in 1..Len(Copies(c)) : After(c, i, j) => After(d, i, j)
            BY <1>1 DEF After, Fences
        <3> QED BY <1>1, <1>2, <2>1, <3>1, <3>2 DEF StreamInv, LoadInv, n
    <2>2. ASSUME IsLoad(t)
          PROVE  /\ \A j \in 1..Len(Copies(d)) : Copies(d)[j].do # "mark" => Before(d, n + 1, j)
                 /\ \A b \in Buffer : Held(d, b) = 1 => Denses(d, b, n + 1) >= 1
                 /\ p.splits => \A b \in Buffer : Denses(d, b, n + 1) = Loans(d, b)
        <3>1. \A b \in Buffer : Denses(d, b, n + 1) = Loans(c, b)
            BY <1>1, <2>2, LoanTypes DEF Loans
        <3>2. \A b \in Buffer : Held(d, b) = 1 => Denses(d, b, n + 1) >= 1
            BY <1>2, <3>1, LoanTypes
        <3>3. ASSUME NEW j \in 1..Len(Copies(d)), Copies(d)[j].do # "mark"
              PROVE  Before(d, n + 1, j)
            <4>1. j \in 1..Len(Copies(c)) /\ Copies(c)[j].do \in {"fill", "misses"} /\ Copies(c)[j] \in Tasks
                BY <2>2, <3>3, StreamTypes DEF StreamInv, ShapeInv, CopyShape
            <4>2. PICK b \in Buffer : Event(Copies(c)[j]) = Ready(b)
                <5>1. BufferOf(Copies(c)[j].layer) \in Buffer
                    <6>1. Copies(c)[j].layer \in Int
                        BY <4>1 DEF Tasks, Layer
                    <6> QED BY <6>1, Geometry
                <5>2. Copies(c)[j].records = Ready(BufferOf(Copies(c)[j].layer))
                    BY <4>1 DEF StreamInv, ShapeInv, CopyShape
                <5> QED BY <5>1, <5>2, EventsDiffer DEF Event
            <4>3. Fills(c, b, j) <= Total(Copies(c), Ready(b)) /\ Fills(c, b, j) \in Nat
                BY <4>1, CountRange, StreamTypes DEF Fills
            <4>4. Fills(d, b, j) + Held(d, b) <= Denses(d, b, n + 1)
                BY <1>2, <3>1, <4>3, LoanTypes
            <4> QED BY <4>2, <4>4 DEF Before
        <3> QED BY <1>2, <3>1, <3>2, <3>3
    <2> QED BY <1>1, <1>3, <2>1, <2>2 DEF LoadInv
<1>12. ChainInv(p, d)
    BY <1>1, <1>3, <1>5 DEF StreamInv, ChainInv, n
<1> QED BY <1>2, <1>6, <1>7, <1>8, <1>9, <1>10, <1>11, <1>12 DEF StreamInv

\* What is sent is queued as it is, but for the count of what it waits for.
Sent(c, s, task) == [task EXCEPT !.ahead = Pending(c.stream[Other(s)], task.awaits)]

LEMMA SendIs ==
    ASSUME NEW c \in Caches, NEW s \in {"compute", "copy"}, NEW task \in Tasks
    PROVE  /\ Sent(c, s, task) \in Tasks /\ Send(c, s, task) \in Caches
           /\ s = "compute" => /\ Kernels(Send(c, s, task)) = Append(Kernels(c), Sent(c, s, task))
                               /\ Copies(Send(c, s, task)) = Copies(c)
           /\ s = "copy" => /\ Copies(Send(c, s, task)) = Append(Copies(c), Sent(c, s, task))
                            /\ Kernels(Send(c, s, task)) = Kernels(c)
           /\ Send(c, s, task).holds = c.holds /\ Send(c, s, task).released = c.released
           /\ Send(c, s, task).failed = c.failed
           /\ \A f \in {"do", "layer", "rows", "base", "awaits", "records"} : Sent(c, s, task)[f] = task[f]
           /\ Sent(c, s, task).ahead = Pending(c.stream[Other(s)], task.awaits)
<1>1. Pending(c.stream[Other(s)], task.awaits) \in Nat
    <2>1. c.stream[Other(s)] \in Seq(Tasks)
        BY DEF Caches, Other
    <2> DEFINE S == c.stream[Other(s)]
               A == {i \in DOMAIN S : S[i].records = task.awaits}
    <2>2. IsFiniteSet(DOMAIN S)
        <3>1. DOMAIN S = 1..Len(S) /\ Len(S) \in Int /\ 1 \in Int
            BY <2>1
        <3> QED BY <3>1, FS_Interval
    <2>3. A \in SUBSET (DOMAIN S)
        OBVIOUS
    <2>4. Cardinality(A) \in Nat
        BY <2>2, <2>3, FS_Subset, FS_CardinalityType
    <2> QED BY <2>4 DEF Pending
<1> DEFINE t == Sent(c, s, task)
<1>2. t \in Tasks
    BY <1>1 DEF Sent, Tasks
<1>3. t.ahead = Pending(c.stream[Other(s)], task.awaits)
      /\ \A f \in {"do", "layer", "rows", "base", "awaits", "records"} : t[f] = task[f]
    BY DEF Sent, Tasks
<1>4. Send(c, s, task) = [c EXCEPT !.stream[s] = Append(@, t)]
    BY DEF Send, Sent
<1> HIDE DEF t
<1>5. \A q \in {"compute", "copy"} : c.stream[q] \in Seq(Tasks)
    BY DEF Caches
<1>6. Append(c.stream[s], t) \in Seq(Tasks)
    BY <1>2, <1>5
<1>7. Send(c, s, task) \in Caches
    BY ZenonT(60), <1>4, <1>6 DEF Caches
<1>8. /\ Send(c, s, task).stream[s] = Append(c.stream[s], t)
      /\ \A q \in {"compute", "copy"} : q # s => Send(c, s, task).stream[q] = c.stream[q]
      /\ Send(c, s, task).holds = c.holds /\ Send(c, s, task).released = c.released
      /\ Send(c, s, task).failed = c.failed
    BY <1>4 DEF Caches
<1> QED BY <1>2, <1>3, <1>7, <1>8 DEF Kernels, Copies, t

\* A wait is for all the records there are.
LEMMA PendingIs ==
    ASSUME NEW p, NEW c \in Caches, ShapeInv(p, c)
    PROVE  /\ \A b \in Buffer : /\ Pending(Copies(c), Ready(b)) = Total(Copies(c), Ready(b))
                                /\ Pending(Kernels(c), Release(b)) = Total(Kernels(c), Release(b))
           /\ Pending(Kernels(c), Begin) = Total(Kernels(c), Begin)
           /\ \A S : Pending(S, Nothing) = 0
<1>1. ASSUME NEW S \in Seq(Tasks), NEW e, e # Nothing,
             \A i \in 1..Len(S) : Event(S[i]) = e <=> S[i].records = e
      PROVE  Pending(S, e) = Total(S, e)
    <2>1. {i \in DOMAIN S : S[i].records = e} = {j \in 1..Len(S) : Event(S[j]) = e}
        BY <1>1
    <2> QED BY <1>1, <2>1 DEF Pending, Total, Count
<1>2. \A i \in 1..Len(Kernels(c)) : Event(Kernels(c)[i]) = Kernels(c)[i].records
    BY DEF ShapeInv, KernelShape, Event, Inert, Begin, Nothing, Release
<1>3. \A b \in Buffer : \A j \in 1..Len(Copies(c)) :
          Event(Copies(c)[j]) = Ready(b) <=> Copies(c)[j].records = Ready(b)
    <2>1. \A j \in 1..Len(Copies(c)) : Event(Copies(c)[j]) # Copies(c)[j].records => Event(Copies(c)[j]) = Begin
        BY DEF ShapeInv, CopyShape, Event, Inert, Begin, Nothing, Ready
    <2>2. \A j \in 1..Len(Copies(c)) : Event(Copies(c)[j]) # Copies(c)[j].records => Copies(c)[j].records = Nothing
        BY DEF Event
    <2> QED BY <2>1, <2>2, EventsDiffer
<1>4. Kernels(c) \in Seq(Tasks) /\ Copies(c) \in Seq(Tasks)
    BY StreamTypes
<1> QED BY <1>1, <1>2, <1>3, <1>4, EventsDiffer DEF Pending

\* What is loaded on demand runs before the copies of this prefill.
Fenced(p, c) ==
    \A i \in 1..Len(Kernels(c)) : IsLoad(Kernels(c)[i]) =>
        ~p.splits /\ \E k \in 1..Len(Copies(c)) : Fences(c, i, k)

\* A loan: the buffer of layer l is taken, its rows are to be brought.
Lent(p, R, c, d, l) ==
    LET b == BufferOf(l)
    IN  /\ c.released[b] /\ ~d.released[b] /\ d.holds[b] = l
        /\ \A q \in Buffer : q # b => d.released[q] = c.released[q] /\ d.holds[q] = c.holds[q]
        /\ IF l \in p.layers
           THEN \E g \in Tasks : /\ g.do = "gather" /\ g.layer = l /\ KernelShape(p, g)
                                 /\ Kernels(d) = Append(Kernels(c), g)
           ELSE Kernels(d) = Kernels(c)
        /\ \E t \in Tasks : /\ t.do \in {"fill", "misses"} /\ t.layer = l /\ t.rows = R
                            /\ CopyShape(p, t) /\ t.ahead = Total(Kernels(c), Release(b))
                            /\ Copies(d) = Append(Copies(c), t)

KernelsLent(p, c, d, l) ==
    /\ \A i \in 1..Len(Kernels(c)) :
          /\ i \in 1..Len(Kernels(d)) /\ Kernels(d)[i] = Kernels(c)[i]
          /\ Begins(d, i) = Begins(c, i) /\ \A b \in Buffer : Denses(d, b, i) = Denses(c, b, i)
    /\ \A i \in 1..Len(Kernels(d)) :
          \/ i \in 1..Len(Kernels(c))
          \/ /\ Kernels(d)[i].do = "gather" /\ Kernels(d)[i].layer = l /\ KernelShape(p, Kernels(d)[i])
             /\ \A b \in Buffer : Denses(d, b, i) = Total(Kernels(c), Release(b))
    /\ \A b \in Buffer : Total(Kernels(d), Release(b)) = Total(Kernels(c), Release(b))
    /\ l \in p.layers => \E i \in 1..Len(Kernels(d)) :
          /\ i \notin 1..Len(Kernels(c)) /\ Kernels(d)[i].do = "gather" /\ Kernels(d)[i].layer = l
          /\ \A b \in Buffer : Denses(d, b, i) = Total(Kernels(c), Release(b))

LEMMA LentKernels ==
    ASSUME NEW p, NEW R, NEW c \in Caches, NEW d \in Caches, NEW l \in Layer, Lent(p, R, c, d, l)
    PROVE  KernelsLent(p, c, d, l)
<1>1. CASE l \notin p.layers
    <2>1. Kernels(d) = Kernels(c)
        BY <1>1 DEF Lent
    <2> QED BY <1>1, <2>1 DEF Denses, Begins, KernelsLent
<1>2. CASE l \in p.layers
    <2>1. PICK g \in Tasks : /\ g.do = "gather" /\ g.layer = l /\ KernelShape(p, g)
                             /\ Kernels(d) = Append(Kernels(c), g)
        BY <1>2 DEF Lent
    <2> DEFINE n == Len(Kernels(c))
    <2>2. \A b \in Buffer : Event(g) # Release(b)
        BY <2>1 DEF KernelShape, Inert, Event, Nothing, Release
    <2>3. n \in Nat
        BY StreamTypes
    <2>4. \A i \in 1..n : i \in 0..n
        BY <2>3
    <2>5. \A b \in Buffer : Total(Kernels(c), Release(b)) \in Nat
        BY LoanTypes
    <2>6. /\ Len(Kernels(d)) = n + 1 /\ Kernels(d)[n + 1] = g
          /\ \A i \in 1..n : Kernels(d)[i] = Kernels(c)[i]
          /\ \A i \in 0..n : Begins(d, i) = Begins(c, i) /\ \A b \in Buffer : Denses(d, b, i) = Denses(c, b, i)
          /\ \A b \in Buffer : /\ Denses(d, b, n + 1) = Total(Kernels(c), Release(b)) + 0
                               /\ Total(Kernels(d), Release(b)) = Total(Kernels(c), Release(b)) + 0
        BY ZenonT(60), <2>1, <2>2, KernelSent
    <2>7. \A i \in 1..Len(Kernels(d)) : i \in 1..n \/ i = n + 1
        BY <2>3, <2>6
    <2>8. n + 1 \in 1..Len(Kernels(d)) /\ n + 1 \notin 1..n /\ \A i \in 1..n : i \in 1..Len(Kernels(d))
        BY <2>3, <2>6
    <2>9. \A b \in Buffer : /\ Denses(d, b, n + 1) = Total(Kernels(c), Release(b))
                            /\ Total(Kernels(d), Release(b)) = Total(Kernels(c), Release(b))
        BY <2>5, <2>6
    <2> HIDE DEF n
    <2>10. \A i \in 1..n :
                 /\ i \in 1..Len(Kernels(d)) /\ Kernels(d)[i] = Kernels(c)[i]
                 /\ Begins(d, i) = Begins(c, i) /\ \A b \in Buffer : Denses(d, b, i) = Denses(c, b, i)
        BY <2>4, <2>6, <2>8
    <2>11. \A i \in 1..Len(Kernels(d)) :
                 \/ i \in 1..n
                 \/ /\ Kernels(d)[i].do = "gather" /\ Kernels(d)[i].layer = l /\ KernelShape(p, Kernels(d)[i])
                    /\ \A b \in Buffer : Denses(d, b, i) = Total(Kernels(c), Release(b))
        BY <2>1, <2>6, <2>7, <2>9
    <2>12. \E i \in 1..Len(Kernels(d)) :
                 /\ i \notin 1..n /\ Kernels(d)[i].do = "gather" /\ Kernels(d)[i].layer = l
                 /\ \A b \in Buffer : Denses(d, b, i) = Total(Kernels(c), Release(b))
        BY <2>1, <2>6, <2>8, <2>9
    <2> QED BY <2>9, <2>10, <2>11, <2>12 DEF n, KernelsLent
<1> QED BY <1>1, <1>2

CopiesLent(p, R, c, d, l) ==
    /\ \A j \in 1..Len(Copies(c)) :
          /\ j \in 1..Len(Copies(d)) /\ Copies(d)[j] = Copies(c)[j]
          /\ \A b \in Buffer : Fills(d, b, j) = Fills(c, b, j)
    /\ \A j \in 1..Len(Copies(d)) :
          \/ j \in 1..Len(Copies(c))
          \/ /\ j = Len(Copies(c)) + 1
             /\ Copies(d)[j].do \in {"fill", "misses"} /\ Copies(d)[j].layer = l
             /\ Copies(d)[j].rows = R /\ CopyShape(p, Copies(d)[j])
             /\ Event(Copies(d)[j]) = Ready(BufferOf(l))
             /\ Copies(d)[j].ahead = Total(Kernels(c), Release(BufferOf(l)))
             /\ Fills(d, BufferOf(l), j) = Total(Copies(c), Ready(BufferOf(l))) + 1
    /\ \A b \in Buffer : Total(Copies(d), Ready(b)) =
          Total(Copies(c), Ready(b)) + (IF b = BufferOf(l) THEN 1 ELSE 0)

LEMMA LentCopies ==
    ASSUME NEW p, NEW R, NEW c \in Caches, NEW d \in Caches, NEW l \in Layer, Lent(p, R, c, d, l)
    PROVE  CopiesLent(p, R, c, d, l)
<1> DEFINE n == Len(Copies(c))
           own == BufferOf(l)
<1>1. PICK t \in Tasks : /\ t.do \in {"fill", "misses"} /\ t.layer = l /\ t.rows = R
                         /\ CopyShape(p, t) /\ t.ahead = Total(Kernels(c), Release(own))
                         /\ Copies(d) = Append(Copies(c), t)
    BY DEF Lent
<1>2. own \in Buffer
    <2>1. l \in Int
        BY DEF Layer
    <2> QED BY <2>1, Geometry
<1>3. Event(t) = Ready(own)
    BY <1>1, <1>2, EventsDiffer DEF CopyShape, Event
<1>4. \A b \in Buffer : Event(t) = Ready(b) <=> b = own
    BY <1>2, <1>3, EventsDiffer
<1>5. n \in Nat
    BY StreamTypes
<1> HIDE DEF own
<1>6. /\ Len(Copies(d)) = n + 1 /\ Copies(d)[n + 1] = t
      /\ \A j \in 1..n : Copies(d)[j] = Copies(c)[j]
      /\ \A b \in Buffer : \A j \in 0..n : Fills(d, b, j) = Fills(c, b, j)
      /\ \A b \in Buffer : /\ Fills(d, b, n + 1) = Total(Copies(c), Ready(b)) + (IF b = own THEN 1 ELSE 0)
                           /\ Total(Copies(d), Ready(b)) = Total(Copies(c), Ready(b)) + (IF b = own THEN 1 ELSE 0)
    <2>1. /\ Len(Copies(d)) = n + 1 /\ Copies(d)[n + 1] = t
          /\ \A j \in 1..n : Copies(d)[j] = Copies(c)[j]
          /\ \A b \in Buffer : \A j \in 0..n : Fills(d, b, j) = Fills(c, b, j)
        BY <1>1, CopySent
    <2>2. ASSUME NEW b \in Buffer
          PROVE  /\ Fills(d, b, n + 1) = Total(Copies(c), Ready(b)) + (IF b = own THEN 1 ELSE 0)
                 /\ Total(Copies(d), Ready(b)) = Total(Copies(c), Ready(b)) + (IF b = own THEN 1 ELSE 0)
        <3>1. Copies(d) = Append(Copies(c), t)
            BY <1>1
        <3>2. \A q \in Buffer :
                 LET more == IF Event(t) = Ready(q) THEN 1 ELSE 0
                 IN  /\ Fills(d, q, Len(Copies(c)) + 1) = Total(Copies(c), Ready(q)) + more
                     /\ Total(Copies(d), Ready(q)) = Total(Copies(c), Ready(q)) + more
            BY ZenonT(60), <3>1, CopySent
        <3> QED BY <1>4, <3>2
    <2> QED BY <2>1, <2>2
<1>7. /\ \A j \in 1..Len(Copies(d)) : j \in 1..n \/ j = n + 1
      /\ \A j \in 1..n : j \in 1..Len(Copies(d)) /\ j \in 0..n
    BY <1>5, <1>6
<1>8. Fills(d, own, n + 1) = Total(Copies(c), Ready(own)) + 1
    BY <1>2, <1>6
<1> HIDE DEF n
<1>9. \A j \in 1..n : /\ j \in 1..Len(Copies(d)) /\ Copies(d)[j] = Copies(c)[j]
                      /\ \A b \in Buffer : Fills(d, b, j) = Fills(c, b, j)
    BY <1>6, <1>7
<1>10. \A j \in 1..Len(Copies(d)) :
          \/ j \in 1..n
          \/ /\ j = n + 1
             /\ Copies(d)[j].do \in {"fill", "misses"} /\ Copies(d)[j].layer = l
             /\ Copies(d)[j].rows = R /\ CopyShape(p, Copies(d)[j])
             /\ Event(Copies(d)[j]) = Ready(own)
             /\ Copies(d)[j].ahead = Total(Kernels(c), Release(own))
             /\ Fills(d, own, j) = Total(Copies(c), Ready(own)) + 1
    <2>1. Copies(d)[n + 1] = t
        BY <1>6
    <2>2. /\ t.do \in {"fill", "misses"} /\ t.layer = l /\ t.rows = R /\ CopyShape(p, t)
          /\ Event(t) = Ready(own) /\ t.ahead = Total(Kernels(c), Release(own))
        BY <1>1, <1>3
    <2> QED BY <1>7, <1>8, <2>1, <2>2
<1> QED BY <1>6, <1>9, <1>10 DEF n, own, CopiesLent

LEMMA LentLoans ==
    ASSUME NEW p, NEW R, NEW c \in Caches, NEW d \in Caches, NEW l \in Layer, Lent(p, R, c, d, l)
    PROVE  \A b \in Buffer :
              /\ Loans(d, b) = Loans(c, b) + (IF b = BufferOf(l) THEN 1 ELSE 0)
              /\ Held(d, b) = Held(c, b)
              /\ b = BufferOf(l) => Loans(c, b) = Total(Kernels(c), Release(b))
              /\ \A m, k, r : Loan(d, R, b, m, k, r) <=>
                    \/ Loan(c, R, b, m, k, r)
                    \/ b = BufferOf(l) /\ m = Loans(c, b) + 1 /\ k = l /\ r = R
<1> SUFFICES ASSUME NEW b \in Buffer
             PROVE  /\ Loans(d, b) = Loans(c, b) + (IF b = BufferOf(l) THEN 1 ELSE 0)
                    /\ Held(d, b) = Held(c, b)
                    /\ b = BufferOf(l) => Loans(c, b) = Total(Kernels(c), Release(b))
                    /\ \A m, k, r : Loan(d, R, b, m, k, r) <=>
                          \/ Loan(c, R, b, m, k, r)
                          \/ b = BufferOf(l) /\ m = Loans(c, b) + 1 /\ k = l /\ r = R
    OBVIOUS
<1>0. KernelsLent(p, c, d, l) /\ CopiesLent(p, R, c, d, l)
    BY LentKernels, LentCopies
<1>1. /\ Total(Kernels(d), Release(b)) = Total(Kernels(c), Release(b))
      /\ Total(Copies(d), Ready(b)) = Total(Copies(c), Ready(b)) + (IF b = BufferOf(l) THEN 1 ELSE 0)
    BY <1>0 DEF KernelsLent, CopiesLent
<1>2. Total(Kernels(c), Release(b)) \in Nat /\ Total(Copies(c), Ready(b)) \in Nat
    BY LoanTypes
<1>3. /\ b = BufferOf(l) => c.released[b] /\ ~d.released[b] /\ d.holds[b] = l
      /\ b # BufferOf(l) => d.released[b] = c.released[b] /\ d.holds[b] = c.holds[b]
    BY DEF Lent
<1>4. b = BufferOf(l) => Loans(c, b) = Total(Kernels(c), Release(b)) /\ Loans(d, b) = Loans(c, b) + 1
    BY <1>1, <1>2, <1>3 DEF Loans
<1>5. b # BufferOf(l) => Loans(d, b) = Loans(c, b)
    BY <1>1, <1>3 DEF Loans
<1>6. Loans(c, b) \in Nat
    BY LoanTypes
<1>7. Held(d, b) = Held(c, b)
    BY <1>1, <1>2, <1>4, <1>5, <1>6 DEF Held
<1>8. \A i \in 1..Len(Kernels(d)) : Event(Kernels(d)[i]) = Release(b) => i \in 1..Len(Kernels(c))
    BY <1>0 DEF KernelsLent, KernelShape, Inert, Event, Nothing, Release
<1>9. \A i \in 1..Len(Kernels(c)) : /\ i \in 1..Len(Kernels(d)) /\ Kernels(d)[i] = Kernels(c)[i]
                                    /\ Denses(d, b, i) = Denses(c, b, i)
    BY <1>0 DEF KernelsLent
<1>10. \A m, k, r : Loan(d, R, b, m, k, r) <=>
          \/ Loan(c, R, b, m, k, r)
          \/ b = BufferOf(l) /\ m = Loans(c, b) + 1 /\ k = l /\ r = R
    <2> SUFFICES ASSUME NEW m, NEW k, NEW r
                 PROVE  Loan(d, R, b, m, k, r) <=>
                            \/ Loan(c, R, b, m, k, r)
                            \/ b = BufferOf(l) /\ m = Loans(c, b) + 1 /\ k = l /\ r = R
        OBVIOUS
    <2> DEFINE Queued(q) == \E i \in 1..Len(Kernels(q)) :
                  /\ Event(Kernels(q)[i]) = Release(b) /\ Denses(q, b, i) = m
                  /\ Kernels(q)[i].layer = k /\ Kernels(q)[i].rows = r
               Open(q) == ~q.released[b] /\ m = Total(Kernels(q), Release(b)) + 1 /\ q.holds[b] = k /\ r = R
    <2>1. Queued(d) <=> Queued(c)
        BY <1>8, <1>9
    <2>2. Open(d) <=> Open(c) \/ (b = BufferOf(l) /\ m = Loans(c, b) + 1 /\ k = l /\ r = R)
        <3>1. CASE b = BufferOf(l)
            BY <1>1, <1>3, <1>4, <3>1
        <3>2. CASE b # BufferOf(l)
            BY <1>1, <1>3, <3>2
        <3> QED BY <3>1, <3>2
    <2>3. \A q : Loan(q, R, b, m, k, r) <=> Queued(q) \/ Open(q)
        BY DEF Loan
    <2> HIDE DEF Queued, Open
    <2> QED BY <2>1, <2>2, <2>3
<1> QED BY <1>4, <1>5, <1>6, <1>7, <1>10

LEMMA LentStream ==
    ASSUME NEW p, NEW R, NEW c \in Caches, NEW d \in Caches, NEW l \in Layer, Lent(p, R, c, d, l),
           StreamInv(p, c, R), Fenced(p, c)
    PROVE  StreamInv(p, d, R) /\ Fenced(p, d)
<1> DEFINE own == BufferOf(l)
           n == Len(Kernels(c))
           m == Len(Copies(c))
<1>0. KernelsLent(p, c, d, l) /\ CopiesLent(p, R, c, d, l)
    BY LentKernels, LentCopies
<1>1. own \in Buffer
    <2>1. l \in Int
        BY DEF Layer
    <2> QED BY <2>1, Geometry
<1>2. \A b \in Buffer : Loans(c, b) \in Nat /\ Held(c, b) \in Int /\ Total(Copies(c), Ready(b)) \in Nat
                        /\ Loans(c, b) = Held(c, b) + Total(Copies(c), Ready(b))
    BY LoanTypes
<1>3. \A b \in Buffer :
              /\ Loans(d, b) = Loans(c, b) + (IF b = own THEN 1 ELSE 0)
              /\ Held(d, b) = Held(c, b)
              /\ b = own => Loans(c, b) = Total(Kernels(c), Release(b))
              /\ \A q, k, r : Loan(d, R, b, q, k, r) <=>
                    \/ Loan(c, R, b, q, k, r)
                    \/ b = own /\ q = Loans(c, b) + 1 /\ k = l /\ r = R
    BY LentLoans
<1>4. \A i \in 1..n :
                 /\ i \in 1..Len(Kernels(d)) /\ Kernels(d)[i] = Kernels(c)[i]
                 /\ Begins(d, i) = Begins(c, i) /\ \A b \in Buffer : Denses(d, b, i) = Denses(c, b, i)
    BY <1>0 DEF KernelsLent
<1>5. \A i \in 1..Len(Kernels(d)) :
                 \/ i \in 1..n
                 \/ /\ Kernels(d)[i].do = "gather" /\ Kernels(d)[i].layer = l /\ KernelShape(p, Kernels(d)[i])
                    /\ \A b \in Buffer : Denses(d, b, i) = Total(Kernels(c), Release(b))
    BY <1>0 DEF KernelsLent
<1>6. l \in p.layers => \E i \in 1..Len(Kernels(d)) :
                 /\ i \notin 1..n /\ Kernels(d)[i].do = "gather" /\ Kernels(d)[i].layer = l
                 /\ Denses(d, own, i) = Loans(c, own)
    BY <1>0, <1>1, <1>3 DEF KernelsLent
<1>7. \A j \in 1..m : /\ j \in 1..Len(Copies(d)) /\ Copies(d)[j] = Copies(c)[j]
                      /\ \A b \in Buffer : Fills(d, b, j) = Fills(c, b, j)
    BY <1>0 DEF CopiesLent
<1>8. \A j \in 1..Len(Copies(d)) :
                 \/ j \in 1..m
                 \/ /\ j = m + 1
                    /\ Copies(d)[j].do \in {"fill", "misses"} /\ Copies(d)[j].layer = l
                    /\ Copies(d)[j].rows = R /\ CopyShape(p, Copies(d)[j])
                    /\ Event(Copies(d)[j]) = Ready(own)
                    /\ Copies(d)[j].ahead = Loans(c, own)
                    /\ Fills(d, own, j) = Total(Copies(c), Ready(own)) + 1
    BY <1>0, <1>1, <1>3 DEF CopiesLent
<1>9. m \in Nat /\ n \in Nat
    BY StreamTypes
<1> HIDE DEF own, n, m
<1>10. \A i \in 1..Len(Kernels(d)) : Kernels(d)[i].do # "gather" => i \in 1..n
    BY <1>5
<1>11. ShapeInv(p, d)
    BY <1>4, <1>5, <1>7, <1>8 DEF StreamInv, ShapeInv, n, m
<1>12. HeldInv(d)
    BY <1>3 DEF StreamInv, HeldInv
<1>13. AheadInv(d)
    <2> SUFFICES ASSUME NEW b \in Buffer
                 PROVE  /\ \A i \in 1..Len(Kernels(d)) : Event(Kernels(d)[i]) = Release(b) =>
                              Kernels(d)[i].ahead = Denses(d, b, i) - Held(d, b)
                        /\ \A j \in 1..Len(Copies(d)) : Event(Copies(d)[j]) = Ready(b) =>
                              Copies(d)[j].ahead = Fills(d, b, j) - 1 + Held(d, b)
        BY DEF AheadInv
    <2>1. \A i \in 1..Len(Kernels(d)) : Event(Kernels(d)[i]) = Release(b) => i \in 1..n
        BY <1>5 DEF KernelShape, Inert, Event, Nothing, Release
    <2>2. \A i \in 1..n : Event(Kernels(c)[i]) = Release(b) => Kernels(c)[i].ahead = Denses(c, b, i) - Held(c, b)
        BY DEF StreamInv, AheadInv, n
    <2>3. \A j \in 1..m : Event(Copies(c)[j]) = Ready(b) => Copies(c)[j].ahead = Fills(c, b, j) - 1 + Held(c, b)
        BY DEF StreamInv, AheadInv, m
    <2>4. \A j \in 1..Len(Copies(d)) : j \notin 1..m /\ Event(Copies(d)[j]) = Ready(b) =>
              Copies(d)[j].ahead = Fills(d, b, j) - 1 + Held(d, b)
        <3> SUFFICES ASSUME NEW j \in 1..Len(Copies(d)), j \notin 1..m, Event(Copies(d)[j]) = Ready(b)
                     PROVE  Copies(d)[j].ahead = Fills(d, b, j) - 1 + Held(d, b)
            OBVIOUS
        <3>1. b = own
            BY <1>1, <1>8, EventsDiffer
        <3>2. Copies(d)[j].ahead = Loans(c, b) /\ Fills(d, b, j) = Total(Copies(c), Ready(b)) + 1
            BY <1>8, <3>1
        <3> QED BY <1>2, <1>3, <3>2
    <2> QED BY <1>3, <1>4, <1>7, <2>1, <2>2, <2>3, <2>4
<1>14. PairInv(d, R)
    <2> SUFFICES ASSUME NEW b \in Buffer, NEW j \in 1..Len(Copies(d)), Event(Copies(d)[j]) = Ready(b),
                        NEW k, NEW r, Loan(d, R, b, Fills(d, b, j) + Held(d, b), k, r)
                 PROVE  Copies(d)[j].layer = k /\ r \subseteq Copies(d)[j].rows
        BY DEF PairInv
    <2>1. CASE j \in 1..m
        <3>1. Fills(c, b, j) <= Total(Copies(c), Ready(b)) /\ Fills(c, b, j) \in Nat
            BY <2>1, CountRange, StreamTypes DEF Fills, m
        <3>2. Fills(c, b, j) + Held(c, b) # Loans(c, b) + 1
            BY <1>2, <3>1
        <3>3. Loan(c, R, b, Fills(c, b, j) + Held(c, b), k, r)
            BY <1>3, <1>7, <2>1, <3>2
        <3> QED BY <1>7, <2>1, <3>3 DEF StreamInv, PairInv, m
    <2>2. CASE j \notin 1..m
        <3>1. b = own
            BY <1>1, <1>8, <2>2, EventsDiffer
        <3>2. Fills(d, b, j) + Held(d, b) = Loans(c, b) + 1
            BY <1>2, <1>3, <1>8, <2>2, <3>1
        <3>3. ~Loan(c, R, b, Loans(c, b) + 1, k, r)
            BY <1>2, LoanRange
        <3>4. k = l /\ r = R
            BY <1>3, <3>2, <3>3
        <3> QED BY <1>8, <2>2, <3>4
    <2> QED BY <2>1, <2>2
<1>15. GatherInv(p, d, R)
    <2> SUFFICES ASSUME NEW b \in Buffer
                 PROVE  /\ \A i \in 1..Len(Kernels(d)) : Gathers(d, b, i) =>
                              /\ Denses(d, b, i) < Loans(d, b)
                              /\ \A k, r : Loan(d, R, b, Denses(d, b, i) + 1, k, r) => k = Kernels(d)[i].layer
                        /\ \A q, k, r : Loan(d, R, b, q, k, r) /\ q # 1 /\ k \in p.layers =>
                              \E i \in 1..Len(Kernels(d)) :
                                  Gathers(d, b, i) /\ Kernels(d)[i].layer = k /\ Denses(d, b, i) = q - 1
        BY DEF GatherInv
    <2>1. ASSUME NEW i \in 1..Len(Kernels(d)), Gathers(d, b, i)
          PROVE  /\ Denses(d, b, i) < Loans(d, b)
                 /\ \A k, r : Loan(d, R, b, Denses(d, b, i) + 1, k, r) => k = Kernels(d)[i].layer
        <3>1. CASE i \in 1..n
            <4>1. Gathers(c, b, i) /\ Denses(d, b, i) = Denses(c, b, i) /\ Kernels(d)[i] = Kernels(c)[i]
                BY <1>4, <2>1, <3>1 DEF Gathers
            <4>2. /\ Denses(c, b, i) < Loans(c, b)
                  /\ \A k, r : Loan(c, R, b, Denses(c, b, i) + 1, k, r) => k = Kernels(c)[i].layer
                BY <3>1, <4>1 DEF StreamInv, GatherInv, n
            <4>3. Denses(c, b, i) \in Nat
                <5>1. i \in Int
                    OBVIOUS
                <5> QED BY <5>1, LoanTypes
            <4>4. Denses(c, b, i) + 1 # Loans(c, b) + 1
                BY <1>2, <4>2, <4>3
            <4>5. Denses(c, b, i) < Loans(d, b)
                BY <1>2, <1>3, <4>2, <4>3
            <4> QED BY <1>3, <4>1, <4>2, <4>4, <4>5
        <3>2. CASE i \notin 1..n
            <4>1. b = own /\ Kernels(d)[i].layer = l
                BY <1>5, <2>1, <3>2 DEF Gathers, own
            <4>2. Denses(d, b, i) = Loans(c, b) /\ Loans(d, b) = Loans(c, b) + 1
                BY <1>3, <1>5, <3>2, <4>1
            <4>3. \A k, r : ~Loan(c, R, b, Loans(c, b) + 1, k, r)
                BY <1>2, LoanRange
            <4>4. Denses(d, b, i) < Loans(d, b)
                BY <1>2, <4>2
            <4> QED BY <1>3, <4>1, <4>2, <4>3, <4>4
        <3> QED BY <3>1, <3>2
    <2>2. ASSUME NEW q, NEW k, NEW r, Loan(d, R, b, q, k, r), q # 1, k \in p.layers
          PROVE  \E i \in 1..Len(Kernels(d)) :
                     Gathers(d, b, i) /\ Kernels(d)[i].layer = k /\ Denses(d, b, i) = q - 1
        <3>1. CASE Loan(c, R, b, q, k, r)
            <4>1. PICK i \in 1..n : Gathers(c, b, i) /\ Kernels(c)[i].layer = k /\ Denses(c, b, i) = q - 1
                BY <2>2, <3>1 DEF StreamInv, GatherInv, n
            <4>2. Gathers(d, b, i) /\ Kernels(d)[i].layer = k /\ Denses(d, b, i) = q - 1
                BY <1>4, <4>1 DEF Gathers
            <4> QED BY <1>4, <4>2
        <3>2. CASE ~Loan(c, R, b, q, k, r)
            <4>1. b = own /\ q = Loans(c, b) + 1 /\ k = l
                BY <1>3, <2>2, <3>2
            <4>2. PICK i \in 1..Len(Kernels(d)) : /\ Kernels(d)[i].do = "gather" /\ Kernels(d)[i].layer = l
                                                  /\ Denses(d, own, i) = Loans(c, own)
                BY <1>6, <2>2, <4>1
            <4>3. Denses(d, b, i) = q - 1
                BY <1>2, <4>1, <4>2
            <4> QED BY <4>1, <4>2, <4>3 DEF Gathers, own
        <3> QED BY <3>1, <3>2
    <2> QED BY <2>1, <2>2
<1>16. Fenced(p, d)
    <2> SUFFICES ASSUME NEW i \in 1..Len(Kernels(d)), IsLoad(Kernels(d)[i])
                 PROVE  ~p.splits /\ \E k \in 1..Len(Copies(d)) : Fences(d, i, k)
        BY DEF Fenced
    <2>1. i \in 1..n
        BY <1>10 DEF IsLoad
    <2>2. ~p.splits /\ \E k \in 1..m : Fences(c, i, k)
        BY <1>4, <2>1 DEF Fenced, n, m
    <2> QED BY <1>4, <1>7, <2>1, <2>2 DEF Fences
<1>17. LoadInv(p, d)
    <2> SUFFICES ASSUME NEW i \in 1..Len(Kernels(d)), IsLoad(Kernels(d)[i])
                 PROVE  /\ \A j \in 1..Len(Copies(d)) : Copies(d)[j].do # "mark" => Before(d, i, j) \/ After(d, i, j)
                        /\ \A b \in Buffer : Held(d, b) = 1 => Denses(d, b, i) >= 1
                        /\ p.splits => \A b \in Buffer : Denses(d, b, i) = Loans(d, b)
        BY DEF LoadInv
    <2>1. i \in 1..n
        BY <1>10 DEF IsLoad
    <2>2. ~p.splits /\ \E k \in 1..m : Fences(c, i, k)
        BY <1>4, <2>1 DEF Fenced, n, m
    <2>3. /\ \A j \in 1..m : Copies(c)[j].do # "mark" => Before(c, i, j) \/ After(c, i, j)
          /\ \A b \in Buffer : Held(c, b) = 1 => Denses(c, b, i) >= 1
        BY <1>4, <2>1 DEF StreamInv, LoadInv, n, m
    <2>4. ASSUME NEW j \in 1..Len(Copies(d)), Copies(d)[j].do # "mark"
          PROVE  Before(d, i, j) \/ After(d, i, j)
        <3>1. CASE j \in 1..m
            <4>1. Before(c, i, j) => Before(d, i, j)
                BY <1>3, <1>4, <1>7, <2>1, <3>1 DEF Before
            <4>2. \A k \in 1..(j - 1) : k \in 1..m
                BY <1>9, <3>1
            <4>3. After(c, i, j) => After(d, i, j)
                BY <1>4, <1>7, <2>1, <4>2 DEF After, Fences
            <4> QED BY <1>7, <2>3, <2>4, <3>1, <4>1, <4>3
        <3>2. CASE j \notin 1..m
            <4>1. PICK k \in 1..m : Fences(c, i, k)
                BY <2>2
            <4>2. k \in 1..(j - 1) /\ Fences(d, i, k)
                BY <1>4, <1>7, <1>8, <1>9, <2>1, <3>2, <4>1 DEF Fences
            <4> QED BY <4>2 DEF After
        <3> QED BY <3>1, <3>2
    <2> QED BY <1>3, <1>4, <2>1, <2>2, <2>3, <2>4
<1>18. ChainInv(p, d)
    <2> SUFFICES ASSUME NEW i \in 1..Len(Kernels(d))
                 PROVE  /\ Kernels(d)[i].do = "gemm" => Follows(Kernels(d), i, "load")
                        /\ Kernels(d)[i].do = "dense" /\ ~p.overlap => Follows(Kernels(d), i, "materialize")
        BY DEF ChainInv
    <2>1. CASE i \in 1..n
        <3>1. i # 1 => i - 1 \in 1..n
            BY <1>9, <2>1
        <3>2. \A do : Follows(Kernels(c), i, do) => Follows(Kernels(d), i, do)
            BY <1>4, <2>1, <3>1 DEF Follows
        <3> QED BY <1>4, <2>1, <3>2 DEF StreamInv, ChainInv, n
    <2>2. CASE i \notin 1..n
        BY <1>5, <2>2
    <2> QED BY <2>1, <2>2
<1> QED BY <1>11, <1>12, <1>13, <1>14, <1>15, <1>16, <1>17, <1>18 DEF StreamInv

\* The GEMMs of the last loan are queued, and the buffer is released.
Ended(p, R, c, d, l) ==
    LET b == BufferOf(l)
    IN  /\ ~c.released[b] /\ c.holds[b] = l /\ d.released[b]
        /\ \A q \in Buffer : q # b => d.released[q] = c.released[q] /\ d.holds[q] = c.holds[q]
        /\ Copies(d) = Copies(c)
        /\ \E t \in Tasks : /\ t.do = "dense" /\ t.layer = l /\ t.rows = R /\ KernelShape(p, t)
                            /\ t.ahead = Total(Copies(c), Ready(b))
                            /\ Kernels(d) = Append(Kernels(c), t)

LoansEnded(p, R, c, d, l) ==
    /\ \A i \in 1..Len(Kernels(c)) :
          /\ i \in 1..Len(Kernels(d)) /\ Kernels(d)[i] = Kernels(c)[i]
          /\ Begins(d, i) = Begins(c, i) /\ \A b \in Buffer : Denses(d, b, i) = Denses(c, b, i)
    /\ \A i \in 1..Len(Kernels(d)) :
          \/ i \in 1..Len(Kernels(c))
          \/ /\ Kernels(d)[i].do = "dense" /\ KernelShape(p, Kernels(d)[i])
             /\ Event(Kernels(d)[i]) = Release(BufferOf(l))
             /\ Kernels(d)[i].ahead = Total(Copies(c), Ready(BufferOf(l)))
             /\ Denses(d, BufferOf(l), i) = Loans(c, BufferOf(l))
    /\ \A b \in Buffer :
          /\ Loans(d, b) = Loans(c, b) /\ Held(d, b) = Held(c, b)
          /\ \A j : Fills(d, b, j) = Fills(c, b, j)
          /\ \A m, k, r : Loan(d, R, b, m, k, r) <=> Loan(c, R, b, m, k, r)

LEMMA EndedLoans ==
    ASSUME NEW p, NEW R, NEW c \in Caches, NEW d \in Caches, NEW l \in Layer, p.overlap, Ended(p, R, c, d, l)
    PROVE  LoansEnded(p, R, c, d, l)
<1> DEFINE n == Len(Kernels(c))
           own == BufferOf(l)
<1>1. PICK t \in Tasks : /\ t.do = "dense" /\ t.layer = l /\ t.rows = R /\ KernelShape(p, t)
                         /\ t.ahead = Total(Copies(c), Ready(own))
                         /\ Kernels(d) = Append(Kernels(c), t)
    BY DEF Ended
<1>2. own \in Buffer
    <2>1. l \in Int
        BY DEF Layer
    <2> QED BY <2>1, Geometry
<1>3. Event(t) = Release(own)
    BY <1>1, <1>2, EventsDiffer DEF KernelShape, Event
<1>4. \A b \in Buffer : Event(t) = Release(b) <=> b = own
    BY <1>2, <1>3, EventsDiffer
<1>5. n \in Nat
    BY StreamTypes
<1>6. ~c.released[own] /\ c.holds[own] = l /\ d.released[own] /\ Copies(d) = Copies(c)
      /\ \A q \in Buffer : q # own => d.released[q] = c.released[q] /\ d.holds[q] = c.holds[q]
    BY DEF Ended
<1> HIDE DEF own
<1>7. /\ Len(Kernels(d)) = n + 1 /\ Kernels(d)[n + 1] = t
      /\ \A i \in 1..n : Kernels(d)[i] = Kernels(c)[i]
      /\ \A i \in 0..n : Begins(d, i) = Begins(c, i) /\ \A b \in Buffer : Denses(d, b, i) = Denses(c, b, i)
      /\ \A b \in Buffer :
            LET more == IF Event(t) = Release(b) THEN 1 ELSE 0
            IN  /\ Denses(d, b, n + 1) = Total(Kernels(c), Release(b)) + more
                /\ Total(Kernels(d), Release(b)) = Total(Kernels(c), Release(b)) + more
    <2>1. Kernels(d) = Append(Kernels(c), t)
        BY <1>1
    <2> QED BY ZenonT(60), <2>1, KernelSent
<1>8. \A b \in Buffer : /\ Denses(d, b, n + 1) = Total(Kernels(c), Release(b)) + (IF b = own THEN 1 ELSE 0)
                        /\ Total(Kernels(d), Release(b)) = Total(Kernels(c), Release(b)) + (IF b = own THEN 1 ELSE 0)
    BY <1>4, <1>7
<1>9. /\ \A i \in 1..Len(Kernels(d)) : i \in 1..n \/ i = n + 1
      /\ \A i \in 1..n : i \in 1..Len(Kernels(d)) /\ i \in 0..n
      /\ n + 1 \in 1..Len(Kernels(d))
    BY <1>5, <1>7
<1>10. \A b \in Buffer : Total(Kernels(c), Release(b)) \in Nat
    BY LoanTypes
<1>11. \A b \in Buffer : Loans(d, b) = Loans(c, b)
    BY <1>6, <1>8, <1>10 DEF Loans
<1>12. Denses(d, own, n + 1) = Loans(c, own) /\ Loans(c, own) = Total(Kernels(c), Release(own)) + 1
    BY <1>2, <1>6, <1>8 DEF Loans
<1> HIDE DEF n
<1>13. \A i \in 1..n : /\ i \in 1..Len(Kernels(d)) /\ Kernels(d)[i] = Kernels(c)[i]
                       /\ Begins(d, i) = Begins(c, i) /\ \A b \in Buffer : Denses(d, b, i) = Denses(c, b, i)
    BY <1>7, <1>9
<1>14. \A i \in 1..Len(Kernels(d)) :
          \/ i \in 1..n
          \/ /\ Kernels(d)[i].do = "dense" /\ KernelShape(p, Kernels(d)[i])
             /\ Event(Kernels(d)[i]) = Release(own)
             /\ Kernels(d)[i].ahead = Total(Copies(c), Ready(own))
             /\ Denses(d, own, i) = Loans(c, own)
    <2>1. t.do = "dense" /\ KernelShape(p, t) /\ t.ahead = Total(Copies(c), Ready(own))
        BY <1>1
    <2> QED BY <1>3, <1>7, <1>9, <1>12, <2>1
<1>15. \A b \in Buffer : Held(d, b) = Held(c, b) /\ \A j : Fills(d, b, j) = Fills(c, b, j)
    BY <1>6, <1>11 DEF Held, Fills
<1>16. ASSUME NEW b \in Buffer, NEW m, NEW k, NEW r
       PROVE  Loan(d, R, b, m, k, r) <=> Loan(c, R, b, m, k, r)
    <2> DEFINE At(q, i) == /\ Event(Kernels(q)[i]) = Release(b) /\ Denses(q, b, i) = m
                           /\ Kernels(q)[i].layer = k /\ Kernels(q)[i].rows = r
               Open(q) == ~q.released[b] /\ m = Total(Kernels(q), Release(b)) + 1 /\ q.holds[b] = k /\ r = R
    <2>1. \A q : Loan(q, R, b, m, k, r) <=> (\E i \in 1..Len(Kernels(q)) : At(q, i)) \/ Open(q)
        BY DEF Loan
    <2>2. \A i \in 1..n : At(d, i) <=> At(c, i)
        BY <1>13
    <2>3. CASE b = own
        <3>1. ~Open(d)
            BY <1>6, <2>3
        <3>2. At(d, n + 1) <=> Open(c)
            <4>1. t.layer = l /\ t.rows = R
                BY <1>1
            <4> QED BY <1>3, <1>6, <1>7, <1>12, <2>3, <4>1
        <3> HIDE DEF At, Open
        <3> QED BY <1>9, <1>13, <2>1, <2>2, <3>1, <3>2 DEF n
    <2>4. CASE b # own
        <3>1. Open(d) <=> Open(c)
            BY <1>6, <1>8, <1>10, <2>4
        <3>2. ~At(d, n + 1)
            BY <1>4, <1>7, <2>4
        <3> HIDE DEF At, Open
        <3> QED BY <1>9, <1>13, <2>1, <2>2, <3>1, <3>2 DEF n
    <2> QED BY <2>3, <2>4
<1> QED BY <1>11, <1>13, <1>14, <1>15, <1>16 DEF n, own, LoansEnded

LEMMA EndedStream ==
    ASSUME NEW p, NEW R, NEW c \in Caches, NEW d \in Caches, NEW l \in Layer, p.overlap, Ended(p, R, c, d, l),
           StreamInv(p, c, R)
    PROVE  StreamInv(p, d, R) /\ (Fenced(p, c) => Fenced(p, d))
<1> DEFINE own == BufferOf(l)
           n == Len(Kernels(c))
<1>0. LoansEnded(p, R, c, d, l)
    BY EndedLoans
<1>1. own \in Buffer
    <2>1. l \in Int
        BY DEF Layer
    <2> QED BY <2>1, Geometry
<1>2. \A b \in Buffer : Loans(c, b) \in Nat /\ Held(c, b) \in Int /\ Total(Copies(c), Ready(b)) \in Nat
                        /\ Loans(c, b) = Held(c, b) + Total(Copies(c), Ready(b))
    BY LoanTypes
<1>3. /\ \A i \in 1..n :
            /\ i \in 1..Len(Kernels(d)) /\ Kernels(d)[i] = Kernels(c)[i]
            /\ Begins(d, i) = Begins(c, i) /\ \A b \in Buffer : Denses(d, b, i) = Denses(c, b, i)
      /\ \A i \in 1..Len(Kernels(d)) :
            \/ i \in 1..n
            \/ /\ Kernels(d)[i].do = "dense" /\ KernelShape(p, Kernels(d)[i])
               /\ Event(Kernels(d)[i]) = Release(own)
               /\ Kernels(d)[i].ahead = Total(Copies(c), Ready(own))
               /\ Denses(d, own, i) = Loans(c, own)
      /\ \A b \in Buffer :
            /\ Loans(d, b) = Loans(c, b) /\ Held(d, b) = Held(c, b)
            /\ \A j : Fills(d, b, j) = Fills(c, b, j)
            /\ \A m, k, r : Loan(d, R, b, m, k, r) <=> Loan(c, R, b, m, k, r)
    BY <1>0 DEF LoansEnded
<1>4. Copies(d) = Copies(c)
    BY DEF Ended
<1>5. n \in Nat
    BY StreamTypes
<1> HIDE DEF own, n
<1>6. \A i \in 1..Len(Kernels(d)) : Kernels(d)[i].do # "dense" => i \in 1..n
    BY <1>3
<1>7. ShapeInv(p, d)
    BY <1>3, <1>4 DEF StreamInv, ShapeInv, n
<1>8. HeldInv(d)
    BY <1>3 DEF StreamInv, HeldInv
<1>9. AheadInv(d)
    <2> SUFFICES ASSUME NEW b \in Buffer
                 PROVE  /\ \A i \in 1..Len(Kernels(d)) : Event(Kernels(d)[i]) = Release(b) =>
                              Kernels(d)[i].ahead = Denses(d, b, i) - Held(d, b)
                        /\ \A j \in 1..Len(Copies(d)) : Event(Copies(d)[j]) = Ready(b) =>
                              Copies(d)[j].ahead = Fills(d, b, j) - 1 + Held(d, b)
        BY DEF AheadInv
    <2>1. \A i \in 1..n : Event(Kernels(c)[i]) = Release(b) => Kernels(c)[i].ahead = Denses(c, b, i) - Held(c, b)
        BY DEF StreamInv, AheadInv, n
    <2>2. \A j \in 1..Len(Copies(c)) : Event(Copies(c)[j]) = Ready(b) =>
              Copies(c)[j].ahead = Fills(c, b, j) - 1 + Held(c, b)
        BY DEF StreamInv, AheadInv
    <2>3. \A i \in 1..Len(Kernels(d)) : i \notin 1..n /\ Event(Kernels(d)[i]) = Release(b) =>
              Kernels(d)[i].ahead = Denses(d, b, i) - Held(d, b)
        <3> SUFFICES ASSUME NEW i \in 1..Len(Kernels(d)), i \notin 1..n, Event(Kernels(d)[i]) = Release(b)
                     PROVE  Kernels(d)[i].ahead = Denses(d, b, i) - Held(d, b)
            OBVIOUS
        <3>1. b = own
            BY <1>1, <1>3, EventsDiffer
        <3>2. Kernels(d)[i].ahead = Total(Copies(c), Ready(b)) /\ Denses(d, b, i) = Loans(c, b)
            BY <1>3, <3>1
        <3> QED BY <1>2, <1>3, <3>2
    <2> QED BY <1>3, <1>4, <2>1, <2>2, <2>3
<1>10. PairInv(d, R)
    BY <1>3, <1>4 DEF StreamInv, PairInv
<1>11. GatherInv(p, d, R)
    <2> SUFFICES ASSUME NEW b \in Buffer
                 PROVE  /\ \A i \in 1..Len(Kernels(d)) : Gathers(d, b, i) =>
                              /\ Denses(d, b, i) < Loans(d, b)
                              /\ \A k, r : Loan(d, R, b, Denses(d, b, i) + 1, k, r) => k = Kernels(d)[i].layer
                        /\ \A q, k, r : Loan(d, R, b, q, k, r) /\ q # 1 /\ k \in p.layers =>
                              \E i \in 1..Len(Kernels(d)) :
                                  Gathers(d, b, i) /\ Kernels(d)[i].layer = k /\ Denses(d, b, i) = q - 1
        BY DEF GatherInv
    <2>1. \A i \in 1..Len(Kernels(d)) : Gathers(d, b, i) => i \in 1..n /\ Gathers(c, b, i)
        BY <1>3, <1>6 DEF Gathers
    <2>2. \A i \in 1..n : Gathers(c, b, i) => Gathers(d, b, i)
        BY <1>3 DEF Gathers
    <2> QED BY <1>3, <2>1, <2>2 DEF StreamInv, GatherInv, n
<1>12. LoadInv(p, d)
    <2> SUFFICES ASSUME NEW i \in 1..Len(Kernels(d)), IsLoad(Kernels(d)[i])
                 PROVE  /\ \A j \in 1..Len(Copies(d)) : Copies(d)[j].do # "mark" => Before(d, i, j) \/ After(d, i, j)
                        /\ \A b \in Buffer : Held(d, b) = 1 => Denses(d, b, i) >= 1
                        /\ p.splits => \A b \in Buffer : Denses(d, b, i) = Loans(d, b)
        BY DEF LoadInv
    <2>1. i \in 1..n
        BY <1>6 DEF IsLoad
    <2>2. \A j : Before(c, i, j) => Before(d, i, j)
        BY <1>3, <1>4, <2>1 DEF Before
    <2>3. \A j : After(c, i, j) => After(d, i, j)
        BY <1>3, <1>4, <2>1 DEF After, Fences
    <2> QED BY <1>3, <1>4, <2>1, <2>2, <2>3 DEF StreamInv, LoadInv, n
<1>13. ChainInv(p, d)
    <2> SUFFICES ASSUME NEW i \in 1..Len(Kernels(d))
                 PROVE  /\ Kernels(d)[i].do = "gemm" => Follows(Kernels(d), i, "load")
                        /\ Kernels(d)[i].do = "dense" /\ ~p.overlap => Follows(Kernels(d), i, "materialize")
        BY DEF ChainInv
    <2>1. CASE i \in 1..n
        <3>1. i # 1 => i - 1 \in 1..n
            BY <1>5, <2>1
        <3>2. \A do : Follows(Kernels(c), i, do) => Follows(Kernels(d), i, do)
            BY <1>3, <2>1, <3>1 DEF Follows
        <3> QED BY <1>3, <2>1, <3>2 DEF StreamInv, ChainInv, n
    <2>2. CASE i \notin 1..n
        BY <1>3, <2>2
    <2> QED BY <2>1, <2>2
<1>14. Fenced(p, c) => Fenced(p, d)
    BY <1>3, <1>4, <1>6 DEF Fenced, Fences, IsLoad, n
<1> QED BY <1>7, <1>8, <1>9, <1>10, <1>11, <1>12, <1>13, <1>14 DEF StreamInv

\* A mark or a snapshot behind the copies.
LEMMA CopyStream ==
    ASSUME NEW p, NEW R, NEW c \in Caches, NEW d \in Caches, NEW t \in Tasks, StreamInv(p, c, R),
           Copies(d) = Append(Copies(c), t), Kernels(d) = Kernels(c), d.released = c.released, d.holds = c.holds,
           CopyShape(p, t), t.do \in {"mark", "snapshot"},
           t.do = "snapshot" => \A i \in 1..Len(Kernels(c)) : IsLoad(Kernels(c)[i]) =>
                \E k \in 1..Len(Copies(c)) : Fences(c, i, k)
    PROVE  /\ StreamInv(p, d, R)
           /\ \A b \in Buffer : /\ Loans(d, b) = Loans(c, b) /\ Held(d, b) = Held(c, b)
                                /\ Total(Copies(d), Ready(b)) = Total(Copies(c), Ready(b))
           /\ \A i, k : k \in 1..Len(Copies(c)) /\ Fences(c, i, k) => Fences(d, i, k)
<1> DEFINE n == Len(Copies(c))
<1>1. \A b \in Buffer : Event(t) # Ready(b)
    BY DEF CopyShape, Inert, Event, Nothing, Begin, Ready
<1>2. n \in Nat /\ \A b \in Buffer : Total(Copies(c), Ready(b)) \in Nat
    BY StreamTypes, LoanTypes
<1>3. /\ Len(Copies(d)) = n + 1 /\ Copies(d)[n + 1] = t
      /\ \A j \in 1..n : Copies(d)[j] = Copies(c)[j]
      /\ \A b \in Buffer : \A j \in 0..n : Fills(d, b, j) = Fills(c, b, j)
      /\ \A b \in Buffer :
            LET more == IF Event(t) = Ready(b) THEN 1 ELSE 0
            IN  /\ Fills(d, b, n + 1) = Total(Copies(c), Ready(b)) + more
                /\ Total(Copies(d), Ready(b)) = Total(Copies(c), Ready(b)) + more
    BY ZenonT(60), CopySent
<1>4. \A b \in Buffer : Total(Copies(d), Ready(b)) = Total(Copies(c), Ready(b))
    BY <1>1, <1>2, <1>3
<1>5. /\ \A j \in 1..Len(Copies(d)) : j \in 1..n \/ j = n + 1
      /\ \A j \in 1..n : j \in 1..Len(Copies(d)) /\ j \in 0..n
    BY <1>2, <1>3
<1>6. \A b \in Buffer : /\ Loans(d, b) = Loans(c, b)
                        /\ \A i : Denses(d, b, i) = Denses(c, b, i)
                        /\ \A m, k, r : Loan(d, R, b, m, k, r) <=> Loan(c, R, b, m, k, r)
    BY DEF Loans, Denses, Loan
<1>7. \A b \in Buffer : Held(d, b) = Held(c, b)
    BY <1>4, <1>6 DEF Held
<1>8. \A i : Begins(d, i) = Begins(c, i)
    BY DEF Begins
<1> HIDE DEF n
<1>9. \A j \in 1..n : /\ Copies(d)[j] = Copies(c)[j] /\ j \in 1..Len(Copies(d))
                      /\ \A b \in Buffer : Fills(d, b, j) = Fills(c, b, j)
    BY <1>3, <1>5
<1>10. \A b \in Buffer : \A j \in 1..Len(Copies(d)) : Event(Copies(d)[j]) = Ready(b) => j \in 1..n
    BY <1>1, <1>3, <1>5
<1>11. ShapeInv(p, d)
    BY <1>3, <1>5 DEF StreamInv, ShapeInv, n
<1>12. HeldInv(d)
    BY <1>7 DEF StreamInv, HeldInv
<1>13. AheadInv(d)
    BY <1>6, <1>7, <1>9, <1>10 DEF StreamInv, AheadInv, n
<1>14. PairInv(d, R)
    BY <1>6, <1>7, <1>9, <1>10 DEF StreamInv, PairInv, n
<1>15. GatherInv(p, d, R)
    BY <1>6 DEF StreamInv, GatherInv, Gathers
<1>16. \A i, k : k \in 1..n /\ Fences(c, i, k) => Fences(d, i, k)
    BY <1>8, <1>9 DEF Fences
<1>17. LoadInv(p, d)
    <2> SUFFICES ASSUME NEW i \in 1..Len(Kernels(c)), IsLoad(Kernels(c)[i])
                 PROVE  /\ \A j \in 1..Len(Copies(d)) : Copies(d)[j].do # "mark" => Before(d, i, j) \/ After(d, i, j)
                        /\ \A b \in Buffer : Held(d, b) = 1 => Denses(d, b, i) >= 1
                        /\ p.splits => \A b \in Buffer : Denses(d, b, i) = Loans(d, b)
        BY DEF LoadInv
    <2>1. ASSUME NEW j \in 1..n, Copies(d)[j].do # "mark" PROVE Before(d, i, j) \/ After(d, i, j)
        <3>1. Before(c, i, j) \/ After(c, i, j)
            BY <1>9, <2>1 DEF StreamInv, LoadInv, n
        <3>2. Before(c, i, j) => Before(d, i, j)
            BY <1>6, <1>7, <1>9, <2>1 DEF Before
        <3>3. \A k \in 1..(j - 1) : k \in 1..n
            BY <1>2, <2>1
        <3>4. After(c, i, j) => After(d, i, j)
            BY <1>16, <3>3 DEF After
        <3> QED BY <3>1, <3>2, <3>4
    <2>2. ASSUME t.do # "mark" PROVE After(d, i, n + 1)
        <3>1. PICK k \in 1..n : Fences(c, i, k)
            BY <2>2 DEF n
        <3>2. k \in 1..((n + 1) - 1)
            BY <1>2, <3>1
        <3> QED BY <1>16, <3>1, <3>2 DEF After
    <2>3. /\ \A b \in Buffer : Held(c, b) = 1 => Denses(c, b, i) >= 1
          /\ p.splits => \A b \in Buffer : Denses(c, b, i) = Loans(c, b)
        BY DEF StreamInv, LoadInv
    <2> QED BY <1>3, <1>5, <1>6, <1>7, <2>1, <2>2, <2>3
<1>18. ChainInv(p, d)
    BY DEF StreamInv, ChainInv
<1> QED BY <1>4, <1>6, <1>7, <1>11, <1>12, <1>13, <1>14, <1>15, <1>16, <1>17, <1>18 DEF StreamInv, n

\* With no buffer out it does not matter what the last ones were for.
LEMMA UnlentStream ==
    ASSUME NEW p, NEW R, NEW Q, NEW c, NEW d, StreamInv(p, c, R), \A b \in Buffer : c.released[b] /\ d.released[b],
           d.stream = c.stream
    PROVE  /\ StreamInv(p, d, Q)
           /\ \A b \in Buffer : /\ Loans(d, b) = Loans(c, b) /\ Held(d, b) = Held(c, b)
                                /\ \A m, k, r : Loan(d, Q, b, m, k, r) <=> Loan(c, R, b, m, k, r)
<1>1. Kernels(d) = Kernels(c) /\ Copies(d) = Copies(c)
    BY DEF Kernels, Copies
<1>2. \A b \in Buffer : \A i : Denses(d, b, i) = Denses(c, b, i) /\ Fills(d, b, i) = Fills(c, b, i)
    BY <1>1 DEF Denses, Fills
<1>3. \A b \in Buffer : /\ Loans(d, b) = Loans(c, b) /\ Held(d, b) = Held(c, b)
                        /\ \A m, k, r : Loan(d, Q, b, m, k, r) <=> Loan(c, R, b, m, k, r)
    BY <1>1, <1>2 DEF Loans, Held, Loan
<1>4. \A i : Begins(d, i) = Begins(c, i)
    BY <1>1 DEF Begins
<1>5. ShapeInv(p, d) /\ HeldInv(d) /\ AheadInv(d) /\ ChainInv(p, d)
    BY <1>1, <1>2, <1>3 DEF StreamInv, ShapeInv, HeldInv, AheadInv, ChainInv
<1>6. PairInv(d, Q)
    BY <1>1, <1>2, <1>3 DEF StreamInv, PairInv
<1>7. GatherInv(p, d, Q)
    BY <1>1, <1>2, <1>3 DEF StreamInv, GatherInv, Gathers
<1>8. LoadInv(p, d)
    <2>1. \A i, j : (Before(c, i, j) => Before(d, i, j)) /\ (After(c, i, j) => After(d, i, j))
        BY <1>1, <1>2, <1>3, <1>4 DEF Before, After, Fences
    <2> QED BY <1>1, <1>2, <1>3, <2>1 DEF StreamInv, LoadInv
<1> QED BY <1>3, <1>5, <1>6, <1>7, <1>8 DEF StreamInv

-----------------------------------------------------------------------------
(***************************************************************************)
(* A task runs: it leaves its stream, the other stream sees its event.     *)
(***************************************************************************)
Saw(S, T, e) ==
    /\ Len(T) = Len(S)
    /\ \A j \in 1..Len(S) :
          /\ T[j].do = S[j].do /\ T[j].layer = S[j].layer /\ T[j].rows = S[j].rows
          /\ T[j].base = S[j].base /\ T[j].awaits = S[j].awaits /\ T[j].records = S[j].records
          /\ T[j].ahead = IF S[j].awaits = e /\ S[j].ahead > 0 THEN S[j].ahead - 1 ELSE S[j].ahead

KernelRan(c, d) ==
    /\ Kernels(c) # <<>> /\ Kernels(c)[1].ahead = 0 /\ Kernels(d) = Tail(Kernels(c))
    /\ Saw(Copies(c), Copies(d), Kernels(c)[1].records)
    /\ d.holds = c.holds /\ d.released = c.released /\ d.failed = c.failed

CopyRan(c, d) ==
    /\ Copies(c) # <<>> /\ Copies(c)[1].ahead = 0 /\ Copies(d) = Tail(Copies(c))
    /\ Saw(Kernels(c), Kernels(d), Copies(c)[1].records)
    /\ d.holds = c.holds /\ d.released = c.released /\ d.failed = c.failed

LEMMA RanIs ==
    ASSUME cache \in Caches
    PROVE  /\ Runnable("compute") => Ran("compute") \in Caches /\ KernelRan(cache, Ran("compute"))
           /\ Runnable("copy") => Ran("copy") \in Caches /\ CopyRan(cache, Ran("copy"))
<1>1. ASSUME NEW s \in {"compute", "copy"}, Runnable(s)
      PROVE  /\ Ran(s) \in Caches /\ cache.stream[s] # <<>> /\ cache.stream[s][1].ahead = 0
             /\ Ran(s).stream[s] = Tail(cache.stream[s])
             /\ Saw(cache.stream[Other(s)], Ran(s).stream[Other(s)], cache.stream[s][1].records)
             /\ Ran(s).holds = cache.holds /\ Ran(s).released = cache.released /\ Ran(s).failed = cache.failed
    <2> DEFINE S == cache.stream[s]
               rest == cache.stream[Other(s)]
               e == Head(S).records
               Seen(task) == IF task.awaits = e /\ task.ahead > 0 THEN [task EXCEPT !.ahead = @ - 1] ELSE task
               left == [i \in DOMAIN rest |-> Seen(rest[i])]
    <2>1. S \in Seq(Tasks) /\ rest \in Seq(Tasks) /\ S # <<>> /\ Head(S).ahead = 0
        BY <1>1 DEF Caches, Other, Runnable
    <2>2. Head(S) = S[1] /\ Tail(S) \in Seq(Tasks)
        BY <2>1
    <2>3. \A task \in Tasks : Seen(task) \in Tasks
        <3> SUFFICES ASSUME NEW task \in Tasks, task.awaits = e, task.ahead > 0
                     PROVE  [task EXCEPT !.ahead = @ - 1] \in Tasks
            OBVIOUS
        <3>1. task.ahead - 1 \in Nat
            BY DEF Tasks
        <3> QED BY <3>1 DEF Tasks
    <2>4. \A i \in 1..Len(rest) : rest[i] \in Tasks
        BY <2>1
    <2>5. left \in Seq(Tasks) /\ Len(left) = Len(rest)
        <3>1. DOMAIN rest = 1..Len(rest) /\ Len(rest) \in Nat
            BY <2>1
        <3>2. \A i \in 1..Len(rest) : Seen(rest[i]) \in Tasks
            BY <2>3, <2>4
        <3> HIDE DEF Seen
        <3> DEFINE k == Len(rest)
        <3>3. left \in [1..k -> Tasks] /\ k \in Nat
            BY <3>1, <3>2
        <3> HIDE DEF left, k
        <3>4. left \in Seq(Tasks) /\ Len(left) = k
            BY <3>3
        <3> QED BY <3>4 DEF k
    <2>6. \A i \in 1..Len(rest) : left[i] = Seen(rest[i])
        BY <2>1
    <2>7. Saw(rest, left, e)
        <3> SUFFICES ASSUME NEW j \in 1..Len(rest)
                     PROVE  /\ left[j].do = rest[j].do /\ left[j].layer = rest[j].layer
                            /\ left[j].rows = rest[j].rows /\ left[j].base = rest[j].base
                            /\ left[j].awaits = rest[j].awaits /\ left[j].records = rest[j].records
                            /\ left[j].ahead = IF rest[j].awaits = e /\ rest[j].ahead > 0
                                               THEN rest[j].ahead - 1 ELSE rest[j].ahead
            BY ZenonT(60), <2>5 DEF Saw
        <3>1. left[j] = Seen(rest[j]) /\ rest[j] \in Tasks
            BY <2>4, <2>6
        <3> HIDE DEF left, rest, e
        <3> QED BY <3>1 DEF Tasks
    <2>8. Ran(s) = [cache EXCEPT !.stream = [q \in {s, Other(s)} |-> IF q = s THEN Tail(S) ELSE left]]
        BY DEF Ran
    <2>9. {s, Other(s)} = {"compute", "copy"} /\ s # Other(s)
        BY DEF Other
    <2> DEFINE new == [q \in {s, Other(s)} |-> IF q = s THEN Tail(S) ELSE left]
    <2> HIDE DEF left, S
    <2>10. new[s] = Tail(S) /\ new[Other(s)] = left /\ new \in [{"compute", "copy"} -> Seq(Tasks)]
        BY <2>2, <2>5, <2>9
    <2> HIDE DEF new
    <2>11. /\ [cache EXCEPT !.stream = new].stream = new /\ [cache EXCEPT !.stream = new] \in Caches
           /\ [cache EXCEPT !.stream = new].holds = cache.holds
           /\ [cache EXCEPT !.stream = new].released = cache.released
           /\ [cache EXCEPT !.stream = new].failed = cache.failed
        BY <2>10 DEF Caches
    <2>12. Ran(s) = [cache EXCEPT !.stream = new]
        BY <2>8 DEF new
    <2> QED BY <2>1, <2>2, <2>7, <2>10, <2>11, <2>12 DEF S
<1>2. Other("compute") = "copy" /\ Other("copy") = "compute"
    BY DEF Other
<1> QED BY <1>1, <1>2 DEF KernelRan, CopyRan, Kernels, Copies

\* The event of a task, and the counts, survive.
LEMMA SawCounts ==
    ASSUME NEW S, NEW T, NEW e, Saw(S, T, e), Len(S) \in Nat
    PROVE  /\ \A j \in 1..Len(S) : Event(T[j]) = Event(S[j])
           /\ \A i \in 0..Len(S) : \A f : Count(T, f, i) = Count(S, f, i)
           /\ \A f : Total(T, f) = Total(S, f)
<1>1. \A j \in 1..Len(S) : Event(T[j]) = Event(S[j])
    BY DEF Saw, Event
<1>2. ASSUME NEW i \in 0..Len(S), NEW f PROVE Count(T, f, i) = Count(S, f, i)
    <2>1. i \in Int /\ \A j \in 1..i : Event(T[j]) = f <=> Event(S[j]) = f
        BY <1>1
    <2> QED BY <2>1, CountAgree
<1>3. ASSUME NEW f PROVE Total(T, f) = Total(S, f)
    <2>1. Len(S) \in 0..Len(S) /\ Len(T) = Len(S)
        BY DEF Saw
    <2> QED BY <1>2, <2>1 DEF Total
<1> QED BY <1>1, <1>2, <1>3

\* Whether the first kernel ends a loan of b, the first copy brings one.
Ends(c, b) == IF Event(Kernels(c)[1]) = Release(b) THEN 1 ELSE 0
Brings(c, b) == IF Event(Copies(c)[1]) = Ready(b) THEN 1 ELSE 0

AfterKernel(R, c, d) ==
    /\ Len(Kernels(d)) \in Nat /\ Len(Kernels(c)) = Len(Kernels(d)) + 1
    /\ Len(Copies(d)) = Len(Copies(c))
    /\ \A i \in 1..Len(Kernels(d)) : Kernels(d)[i] = Kernels(c)[i + 1] /\ i + 1 \in 1..Len(Kernels(c))
    /\ \A i \in 2..Len(Kernels(c)) : Kernels(c)[i] = Kernels(d)[i - 1] /\ i - 1 \in 1..Len(Kernels(d))
    /\ \A i \in 1..Len(Kernels(d)) :
          Begins(c, i + 1) = Begins(d, i) + (IF Event(Kernels(c)[1]) = Begin THEN 1 ELSE 0)
    /\ \A j \in 1..Len(Copies(c)) : Event(Copies(d)[j]) = Event(Copies(c)[j])
    /\ \A b \in Buffer :
          /\ Ends(c, b) \in {0, 1} /\ (Ends(c, b) = 1 => Held(c, b) = 1)
          /\ Loans(c, b) = Loans(d, b) + Ends(c, b) /\ Held(c, b) = Held(d, b) + Ends(c, b)
          /\ Denses(c, b, 1) = Ends(c, b)
          /\ \A i \in 1..Len(Kernels(d)) : Denses(c, b, i + 1) = Denses(d, b, i) + Ends(c, b)
          /\ \A m, l, r : Loan(d, R, b, m, l, r) => m \in Nat /\ m >= 1 /\ Loan(c, R, b, m + Ends(c, b), l, r)
          /\ Total(Copies(d), Ready(b)) = Total(Copies(c), Ready(b))
          /\ \A j \in 1..Len(Copies(c)) : Fills(d, b, j) = Fills(c, b, j)

LEMMA AfterKernelIs ==
    ASSUME NEW R, NEW c \in Caches, NEW d \in Caches, KernelRan(c, d), AheadInv(c)
    PROVE  AfterKernel(R, c, d)
<1> DEFINE n == Len(Kernels(d))
           x == Kernels(c)[1]
<1>1. Kernels(c) \in Seq(Tasks) /\ Kernels(d) \in Seq(Tasks) /\ n \in Nat /\ Len(Copies(c)) \in Nat
    BY StreamTypes
<1>2. Kernels(c) # <<>> /\ x.ahead = 0 /\ Kernels(d) = Tail(Kernels(c))
      /\ Saw(Copies(c), Copies(d), x.records)
      /\ d.holds = c.holds /\ d.released = c.released
    BY DEF KernelRan
<1>3. /\ Len(Kernels(c)) = n + 1 /\ \A i \in 1..n : Kernels(d)[i] = Kernels(c)[i + 1]
    BY <1>1, <1>2
<1>4. \A e : /\ \A i \in 0..n : Count(Kernels(c), e, i + 1) = Count(Kernels(d), e, i) + (IF Event(x) = e THEN 1 ELSE 0)
             /\ Total(Kernels(c), e) = Total(Kernels(d), e) + (IF Event(x) = e THEN 1 ELSE 0)
    <2>1. Kernels(c) \in Seq(Tasks) /\ Kernels(c) # <<>> /\ n = Len(Tail(Kernels(c)))
        BY <1>1, <1>2
    <2>2. \A e : /\ \A i \in 0..Len(Tail(Kernels(c))) : Count(Kernels(c), e, i + 1) =
                       Count(Tail(Kernels(c)), e, i) + (IF Event(Kernels(c)[1]) = e THEN 1 ELSE 0)
                 /\ Total(Kernels(c), e) = Total(Tail(Kernels(c)), e) + (IF Event(Kernels(c)[1]) = e THEN 1 ELSE 0)
        BY <2>1, CountTail
    <2>3. Kernels(d) = Tail(Kernels(c))
        BY <1>2
    <2> QED BY <2>1, <2>2, <2>3
<1>5. /\ Len(Copies(d)) = Len(Copies(c))
      /\ \A j \in 1..Len(Copies(c)) : Event(Copies(d)[j]) = Event(Copies(c)[j])
      /\ \A i \in 0..Len(Copies(c)) : \A f : Count(Copies(d), f, i) = Count(Copies(c), f, i)
      /\ \A f : Total(Copies(d), f) = Total(Copies(c), f)
    <2>1. Len(Copies(d)) = Len(Copies(c))
        BY <1>2 DEF Saw
    <2> QED BY <1>1, <1>2, <2>1, SawCounts
<1> HIDE DEF x, n
<1>6. /\ \A i \in 1..n : Kernels(d)[i] = Kernels(c)[i + 1] /\ i + 1 \in 1..Len(Kernels(c)) /\ i \in 0..n
      /\ \A i \in 2..Len(Kernels(c)) : Kernels(c)[i] = Kernels(d)[i - 1] /\ i - 1 \in 1..n
    BY <1>1, <1>3
<1>7. \A i \in 1..n : Begins(c, i + 1) = Begins(d, i) + (IF Event(x) = Begin THEN 1 ELSE 0)
    BY <1>4, <1>6 DEF Begins
<1>8. ASSUME NEW b \in Buffer
      PROVE  /\ Ends(c, b) \in {0, 1} /\ (Ends(c, b) = 1 => Held(c, b) = 1)
             /\ Loans(c, b) = Loans(d, b) + Ends(c, b) /\ Held(c, b) = Held(d, b) + Ends(c, b)
             /\ Denses(c, b, 1) = Ends(c, b)
             /\ \A i \in 1..n : Denses(c, b, i + 1) = Denses(d, b, i) + Ends(c, b)
             /\ \A m, l, r : Loan(d, R, b, m, l, r) => m \in Nat /\ m >= 1 /\ Loan(c, R, b, m + Ends(c, b), l, r)
             /\ Total(Copies(d), Ready(b)) = Total(Copies(c), Ready(b))
             /\ \A j \in 1..Len(Copies(c)) : Fills(d, b, j) = Fills(c, b, j)
    <2>1. Ends(c, b) \in {0, 1} /\ Ends(c, b) = (IF Event(x) = Release(b) THEN 1 ELSE 0)
        BY DEF Ends, x
    <2>2. /\ \A i \in 1..n : Denses(c, b, i + 1) = Denses(d, b, i) + Ends(c, b)
          /\ Total(Kernels(c), Release(b)) = Total(Kernels(d), Release(b)) + Ends(c, b)
        BY <1>4, <1>6, <2>1 DEF Denses
    <2>3. Denses(c, b, 1) = Ends(c, b)
        <3>1. 1 \in 1..Len(Kernels(c))
            BY <1>1, <1>3
        <3> QED BY <1>1, <2>1, <3>1, CountRange DEF Denses, x
    <2>4. /\ Total(Copies(d), Ready(b)) = Total(Copies(c), Ready(b))
          /\ \A j \in 1..Len(Copies(c)) : Fills(d, b, j) = Fills(c, b, j)
        <3>1. \A j \in 1..Len(Copies(c)) : j \in 0..Len(Copies(c))
            BY <1>1
        <3> QED BY <1>5, <3>1 DEF Fills
    <2>5. /\ Total(Kernels(d), Release(b)) \in Nat /\ Total(Kernels(c), Release(b)) \in Nat
          /\ Loans(d, b) \in Nat /\ Loans(c, b) \in Nat /\ Total(Copies(c), Ready(b)) \in Nat
          /\ Held(c, b) \in Int /\ Held(d, b) \in Int
        BY LoanTypes
    <2>6. Loans(c, b) = Loans(d, b) + Ends(c, b)
        BY <1>2, <2>1, <2>2, <2>5 DEF Loans
    <2>7. Held(c, b) = Held(d, b) + Ends(c, b)
        BY <2>1, <2>4, <2>5, <2>6 DEF Held
    <2>8. Ends(c, b) = 1 => Held(c, b) = 1
        <3> HAVE Ends(c, b) = 1
        <3>1. Event(x) = Release(b) /\ 1 \in 1..Len(Kernels(c))
            BY <1>1, <1>3, <2>1
        <3>2. x.ahead = Denses(c, b, 1) - Held(c, b)
            BY <3>1 DEF AheadInv, x
        <3> QED BY <1>2, <2>3, <2>5, <3>2
    <2>9. ASSUME NEW m, NEW l, NEW r, Loan(d, R, b, m, l, r)
          PROVE  m \in Nat /\ m >= 1 /\ Loan(c, R, b, m + Ends(c, b), l, r)
        <3>1. m \in Nat /\ m >= 1
            BY <2>9, LoanRange
        <3>2. CASE \E i \in 1..n :
                      /\ Event(Kernels(d)[i]) = Release(b) /\ Denses(d, b, i) = m
                      /\ Kernels(d)[i].layer = l /\ Kernels(d)[i].rows = r
            <4>1. PICK i \in 1..n :
                      /\ Event(Kernels(d)[i]) = Release(b) /\ Denses(d, b, i) = m
                      /\ Kernels(d)[i].layer = l /\ Kernels(d)[i].rows = r
                BY <3>2
            <4>2. /\ i + 1 \in 1..Len(Kernels(c)) /\ Event(Kernels(c)[i + 1]) = Release(b)
                  /\ Denses(c, b, i + 1) = m + Ends(c, b)
                  /\ Kernels(c)[i + 1].layer = l /\ Kernels(c)[i + 1].rows = r
                BY <1>6, <2>2, <4>1
            <4> QED BY <3>1, <4>2 DEF Loan
        <3>3. CASE ~d.released[b] /\ m = Total(Kernels(d), Release(b)) + 1 /\ d.holds[b] = l /\ r = R
            <4>1. m + Ends(c, b) = Total(Kernels(c), Release(b)) + 1
                BY <2>1, <2>2, <2>5, <3>3
            <4> QED BY <1>2, <3>1, <3>3, <4>1 DEF Loan
        <3> QED BY <2>9, <3>2, <3>3 DEF Loan, n
    <2> QED BY <2>1, <2>2, <2>3, <2>4, <2>6, <2>7, <2>8, <2>9
<1> QED BY <1>1, <1>3, <1>5, <1>6, <1>7, <1>8 DEF AfterKernel, n, x

LEMMA KernelRanStream ==
    ASSUME NEW p, NEW R, NEW c \in Caches, NEW d \in Caches, KernelRan(c, d), StreamInv(p, c, R)
    PROVE  /\ StreamInv(p, d, R)
           /\ \A i \in 1..Len(Kernels(d)) : \A k \in 1..Len(Copies(c)) : Fences(c, i + 1, k) => Fences(d, i, k)
<1> DEFINE n == Len(Kernels(d))
           m == Len(Copies(c))
           x == Kernels(c)[1]
<1>0. AfterKernel(R, c, d)
    BY AfterKernelIs DEF StreamInv
<1>1. /\ n \in Nat /\ Len(Kernels(c)) = n + 1 /\ Len(Copies(d)) = m
      /\ \A i \in 1..n : Kernels(d)[i] = Kernels(c)[i + 1] /\ i + 1 \in 1..Len(Kernels(c))
      /\ \A i \in 2..Len(Kernels(c)) : Kernels(c)[i] = Kernels(d)[i - 1] /\ i - 1 \in 1..n
      /\ \A i \in 1..n : Begins(c, i + 1) = Begins(d, i) + (IF Event(x) = Begin THEN 1 ELSE 0)
      /\ \A j \in 1..m : Event(Copies(d)[j]) = Event(Copies(c)[j])
    BY <1>0 DEF AfterKernel
<1>2. \A b \in Buffer :
          /\ Ends(c, b) \in {0, 1} /\ (Ends(c, b) = 1 => Held(c, b) = 1)
          /\ Loans(c, b) = Loans(d, b) + Ends(c, b) /\ Held(c, b) = Held(d, b) + Ends(c, b)
          /\ Denses(c, b, 1) = Ends(c, b)
          /\ \A i \in 1..n : Denses(c, b, i + 1) = Denses(d, b, i) + Ends(c, b)
          /\ \A q, l, r : Loan(d, R, b, q, l, r) => q \in Nat /\ q >= 1 /\ Loan(c, R, b, q + Ends(c, b), l, r)
          /\ \A j \in 1..m : Fills(d, b, j) = Fills(c, b, j)
    BY <1>0 DEF AfterKernel
<1>3. \A b \in Buffer : /\ Loans(c, b) \in Nat /\ Held(c, b) \in Int /\ Loans(d, b) \in Nat /\ Held(d, b) \in Int
                        /\ \A i \in Int : /\ Denses(c, b, i) \in Nat /\ Fills(c, b, i) \in Nat
                                          /\ Denses(d, b, i) \in Nat /\ Fills(d, b, i) \in Nat
    BY LoanTypes
<1>4. \A i \in Int : Begins(c, i) \in Nat /\ Begins(d, i) \in Nat
    <2>1. 0 \in Buffer
        BY DEF Buffer
    <2> QED BY <2>1, LoanTypes
<1>5. Saw(Copies(c), Copies(d), x.records) /\ x.ahead = 0
    BY DEF KernelRan
<1>6. m \in Nat /\ \A j \in 1..m : Copies(c)[j] \in Tasks
    BY StreamTypes
<1>7. KernelShape(p, x) /\ 1 \in 1..Len(Kernels(c))
    BY <1>1 DEF StreamInv, ShapeInv
<1>8. x.records = Event(x)
    BY <1>7 DEF KernelShape, Event, Inert, Begin, Nothing, Release
<1> HIDE DEF n, m, x
<1>9. ShapeInv(p, d)
    <2>1. ASSUME NEW i \in 1..n PROVE KernelShape(p, Kernels(d)[i])
        BY <1>1 DEF StreamInv, ShapeInv
    <2>2. ASSUME NEW j \in 1..m PROVE CopyShape(p, Copies(d)[j])
        <3>1. CopyShape(p, Copies(c)[j])
            BY DEF StreamInv, ShapeInv, m
        <3>2. /\ Copies(d)[j].do = Copies(c)[j].do /\ Copies(d)[j].layer = Copies(c)[j].layer
              /\ Copies(d)[j].base = Copies(c)[j].base
              /\ Copies(d)[j].awaits = Copies(c)[j].awaits /\ Copies(d)[j].records = Copies(c)[j].records
              /\ Copies(c)[j].ahead = 0 => Copies(d)[j].ahead = 0
            BY <1>5 DEF Saw, m
        <3> QED BY <3>1, <3>2 DEF CopyShape, Inert
    <2> QED BY <1>1, <2>1, <2>2 DEF ShapeInv, n
<1>10. HeldInv(d)
    BY <1>2, <1>3 DEF StreamInv, HeldInv
<1>11. AheadInv(d)
    <2> SUFFICES ASSUME NEW b \in Buffer
                 PROVE  /\ \A i \in 1..n : Event(Kernels(d)[i]) = Release(b) =>
                              Kernels(d)[i].ahead = Denses(d, b, i) - Held(d, b)
                        /\ \A j \in 1..m : Event(Copies(d)[j]) = Ready(b) =>
                              Copies(d)[j].ahead = Fills(d, b, j) - 1 + Held(d, b)
        BY <1>1 DEF AheadInv, n
    <2>1. ASSUME NEW i \in 1..n, Event(Kernels(d)[i]) = Release(b)
          PROVE  Kernels(d)[i].ahead = Denses(d, b, i) - Held(d, b)
        <3>1. Kernels(c)[i + 1].ahead = Denses(c, b, i + 1) - Held(c, b)
            BY <1>1, <2>1 DEF StreamInv, AheadInv
        <3>2. Denses(d, b, i) \in Nat
            <4>1. i \in Int
                OBVIOUS
            <4> QED BY <1>3, <4>1
        <3>3. Kernels(d)[i] = Kernels(c)[i + 1]
            BY <1>1
        <3>4. /\ Denses(c, b, i + 1) = Denses(d, b, i) + Ends(c, b) /\ Held(c, b) = Held(d, b) + Ends(c, b)
              /\ Held(d, b) \in Int /\ Ends(c, b) \in {0, 1}
            BY <1>2, <1>3
        <3> QED BY <3>1, <3>2, <3>3, <3>4
    <2>2. ASSUME NEW j \in 1..m, Event(Copies(d)[j]) = Ready(b)
          PROVE  Copies(d)[j].ahead = Fills(d, b, j) - 1 + Held(d, b)
        <3>1. Event(Copies(c)[j]) = Ready(b) /\ Copies(c)[j].ahead = Fills(c, b, j) - 1 + Held(c, b)
            BY <1>1, <2>2 DEF StreamInv, AheadInv, m
        <3>2. Fills(c, b, j) >= 1 /\ Fills(c, b, j) \in Nat
            BY <3>1, CountRange, StreamTypes DEF Fills, m
        <3>3. Copies(c)[j].awaits = Release(b)
            <4>1. CopyShape(p, Copies(c)[j])
                BY DEF StreamInv, ShapeInv, m
            <4>2. BufferOf(Copies(c)[j].layer) \in Buffer
                <5>1. Copies(c)[j].layer \in Int
                    BY <1>6 DEF Tasks, Layer
                <5> QED BY <5>1, Geometry
            <4> QED BY <3>1, <4>1, <4>2, EventsDiffer DEF CopyShape, Event, Inert, Begin, Nothing, Ready, Release
        <3>4. Copies(d)[j].ahead = IF Release(b) = x.records /\ Copies(c)[j].ahead > 0
                                   THEN Copies(c)[j].ahead - 1 ELSE Copies(c)[j].ahead
            BY <1>5, <3>3 DEF Saw, m
        <3>5. Ends(c, b) = IF x.records = Release(b) THEN 1 ELSE 0
            BY <1>8 DEF Ends, x
        <3>6. Fills(d, b, j) = Fills(c, b, j)
            BY <1>2
        <3> QED BY <1>2, <1>3, <3>1, <3>2, <3>4, <3>5, <3>6
    <2> QED BY <2>1, <2>2
<1>12. PairInv(d, R)
    <2> SUFFICES ASSUME NEW b \in Buffer, NEW j \in 1..m, Event(Copies(d)[j]) = Ready(b),
                        NEW k, NEW r, Loan(d, R, b, Fills(d, b, j) + Held(d, b), k, r)
                 PROVE  Copies(d)[j].layer = k /\ r \subseteq Copies(d)[j].rows
        BY <1>1 DEF PairInv
    <2>1. Fills(d, b, j) = Fills(c, b, j) /\ Fills(c, b, j) \in Nat
        <3>1. j \in Int
            OBVIOUS
        <3> QED BY <1>2, <1>3, <3>1
    <2>2. Loan(c, R, b, (Fills(d, b, j) + Held(d, b)) + Ends(c, b), k, r)
        BY <1>2
    <2>3. (Fills(d, b, j) + Held(d, b)) + Ends(c, b) = Fills(c, b, j) + Held(c, b)
        BY <1>2, <1>3, <2>1
    <2>4. Copies(c)[j].layer = k /\ r \subseteq Copies(c)[j].rows
        BY <1>1, <2>2, <2>3 DEF StreamInv, PairInv, m
    <2> QED BY <1>5, <2>4 DEF Saw, m
<1>13. GatherInv(p, d, R)
    <2> SUFFICES ASSUME NEW b \in Buffer
                 PROVE  /\ \A i \in 1..n : Gathers(d, b, i) =>
                              /\ Denses(d, b, i) < Loans(d, b)
                              /\ \A k, r : Loan(d, R, b, Denses(d, b, i) + 1, k, r) => k = Kernels(d)[i].layer
                        /\ \A q, k, r : Loan(d, R, b, q, k, r) /\ q # 1 /\ k \in p.layers =>
                              \E i \in 1..n :
                                  Gathers(d, b, i) /\ Kernels(d)[i].layer = k /\ Denses(d, b, i) = q - 1
        BY DEF GatherInv, n
    <2>1. ASSUME NEW i \in 1..n, Gathers(d, b, i)
          PROVE  /\ Denses(d, b, i) < Loans(d, b)
                 /\ \A k, r : Loan(d, R, b, Denses(d, b, i) + 1, k, r) => k = Kernels(d)[i].layer
        <3>1. Gathers(c, b, i + 1) /\ i + 1 \in 1..Len(Kernels(c))
            BY <1>1, <2>1 DEF Gathers
        <3>2. /\ Denses(c, b, i + 1) < Loans(c, b)
              /\ \A k, r : Loan(c, R, b, Denses(c, b, i + 1) + 1, k, r) => k = Kernels(c)[i + 1].layer
            BY <3>1 DEF StreamInv, GatherInv
        <3>3. Denses(d, b, i) \in Nat
            <4>1. i \in Int
                OBVIOUS
            <4> QED BY <1>3, <4>1
        <3>4. Denses(d, b, i) < Loans(d, b) /\ (Denses(d, b, i) + 1) + Ends(c, b) = Denses(c, b, i + 1) + 1
            BY <1>2, <1>3, <3>2, <3>3
        <3> QED BY <1>1, <1>2, <3>2, <3>4
    <2>2. ASSUME NEW q, NEW k, NEW r, Loan(d, R, b, q, k, r), q # 1, k \in p.layers
          PROVE  \E i \in 1..n : Gathers(d, b, i) /\ Kernels(d)[i].layer = k /\ Denses(d, b, i) = q - 1
        <3>1. q \in Nat /\ q >= 2 /\ Loan(c, R, b, q + Ends(c, b), k, r) /\ q + Ends(c, b) # 1
            BY <1>2, <2>2
        <3>2. PICK i \in 1..Len(Kernels(c)) : /\ Gathers(c, b, i) /\ Kernels(c)[i].layer = k
                                              /\ Denses(c, b, i) = (q + Ends(c, b)) - 1
            BY <2>2, <3>1 DEF StreamInv, GatherInv
        <3>3. i # 1
            BY <1>2, <3>1, <3>2
        <3>4. i \in 2..Len(Kernels(c)) /\ (i - 1) + 1 = i
            BY <1>1, <3>3
        <3>5. i - 1 \in 1..n /\ Kernels(c)[i] = Kernels(d)[i - 1]
            BY <1>1, <3>4
        <3>6. Denses(c, b, i) = Denses(d, b, i - 1) + Ends(c, b) /\ Denses(d, b, i - 1) \in Nat
            <4>1. i - 1 \in Int
                OBVIOUS
            <4>2. Denses(c, b, (i - 1) + 1) = Denses(d, b, i - 1) + Ends(c, b)
                BY <1>2, <3>5
            <4> QED BY <1>3, <3>4, <4>1, <4>2
        <3>7. Denses(d, b, i - 1) = q - 1
            BY <1>2, <3>1, <3>2, <3>6
        <3> QED BY <3>2, <3>5, <3>7 DEF Gathers
    <2> QED BY <2>1, <2>2
<1>14. \A i \in 1..n : \A k \in 1..m : Fences(c, i + 1, k) => Fences(d, i, k)
    <2> SUFFICES ASSUME NEW i \in 1..n, NEW k \in 1..m, Fences(c, i + 1, k)
                 PROVE  Fences(d, i, k)
        OBVIOUS
    <2>1. Copies(c)[k].do = "mark" /\ Copies(c)[k].ahead > Begins(c, i + 1)
        BY DEF Fences
    <2>2. Copies(c)[k].awaits = Begin
        BY <2>1 DEF StreamInv, ShapeInv, CopyShape, m
    <2>3. /\ Copies(d)[k].do = "mark"
          /\ Copies(d)[k].ahead = IF Begin = x.records /\ Copies(c)[k].ahead > 0
                                  THEN Copies(c)[k].ahead - 1 ELSE Copies(c)[k].ahead
        BY <1>5, <2>1, <2>2 DEF Saw, m
    <2>4. Copies(c)[k].ahead \in Nat
        BY <1>6 DEF Tasks
    <2>5. Begins(c, i + 1) = Begins(d, i) + (IF x.records = Begin THEN 1 ELSE 0)
        BY <1>1, <1>8
    <2>6. Begins(d, i) \in Nat
        <3>1. i \in Int
            OBVIOUS
        <3> QED BY <1>4, <3>1
    <2>7. Copies(d)[k].ahead > Begins(d, i)
        BY <2>1, <2>3, <2>4, <2>5, <2>6
    <2> QED BY <2>3, <2>7 DEF Fences
<1>15. LoadInv(p, d)
    <2> SUFFICES ASSUME NEW i \in 1..n, IsLoad(Kernels(d)[i])
                 PROVE  /\ \A j \in 1..m : Copies(d)[j].do # "mark" => Before(d, i, j) \/ After(d, i, j)
                        /\ \A b \in Buffer : Held(d, b) = 1 => Denses(d, b, i) >= 1
                        /\ p.splits => \A b \in Buffer : Denses(d, b, i) = Loans(d, b)
        BY <1>1 DEF LoadInv, n
    <2>1. /\ \A j \in 1..m : Copies(c)[j].do # "mark" => Before(c, i + 1, j) \/ After(c, i + 1, j)
          /\ \A b \in Buffer : Held(c, b) = 1 => Denses(c, b, i + 1) >= 1
          /\ p.splits => \A b \in Buffer : Denses(c, b, i + 1) = Loans(c, b)
        BY <1>1 DEF StreamInv, LoadInv, m
    <2>2. \A b \in Buffer : Denses(c, b, i + 1) = Denses(d, b, i) + Ends(c, b) /\ Denses(d, b, i) \in Nat
        <3>1. i \in Int
            OBVIOUS
        <3> QED BY <1>2, <1>3, <3>1
    <2>3. ASSUME NEW j \in 1..m PROVE Before(c, i + 1, j) => Before(d, i, j)
        <3> HAVE Before(c, i + 1, j)
        <3>1. PICK b \in Buffer : /\ Event(Copies(c)[j]) = Ready(b)
                                  /\ Fills(c, b, j) + Held(c, b) <= Denses(c, b, i + 1)
            BY DEF Before
        <3>2. Fills(d, b, j) = Fills(c, b, j) /\ Fills(c, b, j) \in Nat
            <4>1. j \in Int
                OBVIOUS
            <4> QED BY <1>2, <1>3, <4>1
        <3>3. Fills(d, b, j) + Held(d, b) <= Denses(d, b, i)
            BY <1>2, <1>3, <2>2, <3>1, <3>2
        <3> QED BY <1>1, <3>1, <3>3 DEF Before
    <2>4. ASSUME NEW j \in 1..m PROVE After(c, i + 1, j) => After(d, i, j)
        <3>1. \A k \in 1..(j - 1) : k \in 1..m
            BY <1>6
        <3> QED BY <1>14, <3>1 DEF After
    <2>5. \A j \in 1..m : Copies(d)[j].do = Copies(c)[j].do
        BY <1>5 DEF Saw, m
    <2>6. ASSUME NEW b \in Buffer
          PROVE  /\ Held(d, b) = 1 => Denses(d, b, i) >= 1
                 /\ p.splits => Denses(d, b, i) = Loans(d, b)
        <3>1. /\ Held(c, b) = Held(d, b) + Ends(c, b) /\ Held(c, b) \in {0, 1} /\ Ends(c, b) \in {0, 1}
              /\ Held(d, b) \in Int /\ Loans(d, b) \in Nat /\ Loans(c, b) = Loans(d, b) + Ends(c, b)
            BY <1>2, <1>3 DEF StreamInv, HeldInv
        <3>2. /\ Held(c, b) = 1 => Denses(c, b, i + 1) >= 1
              /\ p.splits => Denses(c, b, i + 1) = Loans(c, b)
            BY <2>1
        <3>3. Denses(c, b, i + 1) = Denses(d, b, i) + Ends(c, b) /\ Denses(d, b, i) \in Nat
            BY <2>2
        <3> QED BY <3>1, <3>2, <3>3
    <2> QED BY <2>1, <2>3, <2>4, <2>5, <2>6
<1>16. ChainInv(p, d)
    <2> SUFFICES ASSUME NEW i \in 1..n
                 PROVE  /\ Kernels(d)[i].do = "gemm" => Follows(Kernels(d), i, "load")
                        /\ Kernels(d)[i].do = "dense" /\ ~p.overlap => Follows(Kernels(d), i, "materialize")
        BY DEF ChainInv, n
    <2>1. \A do : Follows(Kernels(c), i + 1, do) => Follows(Kernels(d), i, do)
        <3> SUFFICES ASSUME NEW do, Follows(Kernels(c), i + 1, do), i # 1
                     PROVE  Follows(Kernels(d), i, do)
            BY DEF Follows
        <3>1. i - 1 \in 1..n /\ (i - 1) + 1 = i /\ (i + 1) - 1 = i /\ i + 1 # 1
            BY <1>1
        <3>2. Kernels(d)[i - 1] = Kernels(c)[i] /\ Kernels(d)[i] = Kernels(c)[i + 1]
            BY <1>1, <3>1
        <3> QED BY <3>1, <3>2 DEF Follows
    <2> QED BY <1>1, <2>1 DEF StreamInv, ChainInv
<1> QED BY <1>9, <1>10, <1>11, <1>12, <1>13, <1>14, <1>15, <1>16 DEF StreamInv, n, m

AfterCopy(R, c, d) ==
    /\ Len(Copies(d)) \in Nat /\ Len(Copies(c)) = Len(Copies(d)) + 1
    /\ Len(Kernels(d)) = Len(Kernels(c))
    /\ \A j \in 1..Len(Copies(d)) : Copies(d)[j] = Copies(c)[j + 1] /\ j + 1 \in 1..Len(Copies(c))
    /\ \A j \in 2..Len(Copies(c)) : Copies(c)[j] = Copies(d)[j - 1] /\ j - 1 \in 1..Len(Copies(d))
    /\ \A i \in 1..Len(Kernels(c)) :
          Event(Kernels(d)[i]) = Event(Kernels(c)[i]) /\ Begins(d, i) = Begins(c, i)
    /\ \A b \in Buffer :
          /\ Brings(c, b) \in {0, 1} /\ (Brings(c, b) = 1 => Held(c, b) = 0)
          /\ Loans(d, b) = Loans(c, b) /\ Held(d, b) = Held(c, b) + Brings(c, b)
          /\ Fills(c, b, 1) = Brings(c, b)
          /\ \A j \in 1..Len(Copies(d)) : Fills(c, b, j + 1) = Fills(d, b, j) + Brings(c, b)
          /\ \A i \in 1..Len(Kernels(c)) : Denses(d, b, i) = Denses(c, b, i)
          /\ \A m, l, r : Loan(d, R, b, m, l, r) <=> Loan(c, R, b, m, l, r)
          /\ Total(Copies(c), Ready(b)) = Total(Copies(d), Ready(b)) + Brings(c, b)

LEMMA AfterCopyIs ==
    ASSUME NEW R, NEW c \in Caches, NEW d \in Caches, CopyRan(c, d), AheadInv(c)
    PROVE  AfterCopy(R, c, d)
<1> DEFINE n == Len(Copies(d))
           m == Len(Kernels(c))
           x == Copies(c)[1]
<1>1. Copies(c) \in Seq(Tasks) /\ Copies(d) \in Seq(Tasks) /\ n \in Nat /\ m \in Nat
    BY StreamTypes
<1>2. Copies(c) # <<>> /\ x.ahead = 0 /\ Copies(d) = Tail(Copies(c))
      /\ Saw(Kernels(c), Kernels(d), x.records)
      /\ d.holds = c.holds /\ d.released = c.released
    BY DEF CopyRan
<1>3. /\ Len(Copies(c)) = n + 1 /\ \A j \in 1..n : Copies(d)[j] = Copies(c)[j + 1]
    BY <1>1, <1>2
<1>4. \A e : /\ \A j \in 0..n : Count(Copies(c), e, j + 1) = Count(Copies(d), e, j) + (IF Event(x) = e THEN 1 ELSE 0)
             /\ Total(Copies(c), e) = Total(Copies(d), e) + (IF Event(x) = e THEN 1 ELSE 0)
    <2>1. Copies(c) \in Seq(Tasks) /\ Copies(c) # <<>> /\ n = Len(Tail(Copies(c)))
        BY <1>1, <1>2
    <2>2. \A e : /\ \A j \in 0..Len(Tail(Copies(c))) : Count(Copies(c), e, j + 1) =
                       Count(Tail(Copies(c)), e, j) + (IF Event(Copies(c)[1]) = e THEN 1 ELSE 0)
                 /\ Total(Copies(c), e) = Total(Tail(Copies(c)), e) + (IF Event(Copies(c)[1]) = e THEN 1 ELSE 0)
        BY <2>1, CountTail
    <2>3. Copies(d) = Tail(Copies(c))
        BY <1>2
    <2> QED BY <2>1, <2>2, <2>3
<1>5. /\ Len(Kernels(d)) = m
      /\ \A i \in 1..m : Event(Kernels(d)[i]) = Event(Kernels(c)[i])
      /\ \A i \in 0..m : \A f : Count(Kernels(d), f, i) = Count(Kernels(c), f, i)
      /\ \A f : Total(Kernels(d), f) = Total(Kernels(c), f)
    <2>1. Len(Kernels(d)) = m
        BY <1>2 DEF Saw
    <2> QED BY <1>1, <1>2, <2>1, SawCounts
<1> HIDE DEF x, n, m
<1>6. /\ \A j \in 1..n : Copies(d)[j] = Copies(c)[j + 1] /\ j + 1 \in 1..Len(Copies(c)) /\ j \in 0..n
      /\ \A j \in 2..Len(Copies(c)) : Copies(c)[j] = Copies(d)[j - 1] /\ j - 1 \in 1..n
    BY <1>1, <1>3
<1>7. \A i \in 1..m : i \in 0..m
    BY <1>1
<1>8. \A i \in 1..m : Begins(d, i) = Begins(c, i) /\ \A b \in Buffer : Denses(d, b, i) = Denses(c, b, i)
    BY <1>5, <1>7 DEF Begins, Denses
<1>9. ASSUME NEW b \in Buffer
      PROVE  /\ Brings(c, b) \in {0, 1} /\ (Brings(c, b) = 1 => Held(c, b) = 0)
             /\ Loans(d, b) = Loans(c, b) /\ Held(d, b) = Held(c, b) + Brings(c, b)
             /\ Fills(c, b, 1) = Brings(c, b)
             /\ \A j \in 1..n : Fills(c, b, j + 1) = Fills(d, b, j) + Brings(c, b)
             /\ \A q, l, r : Loan(d, R, b, q, l, r) <=> Loan(c, R, b, q, l, r)
             /\ Total(Copies(c), Ready(b)) = Total(Copies(d), Ready(b)) + Brings(c, b)
    <2>1. Brings(c, b) \in {0, 1} /\ Brings(c, b) = (IF Event(x) = Ready(b) THEN 1 ELSE 0)
        BY DEF Brings, x
    <2>2. /\ \A j \in 1..n : Fills(c, b, j + 1) = Fills(d, b, j) + Brings(c, b)
          /\ Total(Copies(c), Ready(b)) = Total(Copies(d), Ready(b)) + Brings(c, b)
        BY <1>4, <1>6, <2>1 DEF Fills
    <2>3. Fills(c, b, 1) = Brings(c, b)
        <3>1. 1 \in 1..Len(Copies(c))
            BY <1>1, <1>3
        <3> QED BY <1>1, <2>1, <3>1, CountRange DEF Fills, x
    <2>4. Loans(d, b) = Loans(c, b)
        BY <1>2, <1>5 DEF Loans
    <2>5. /\ Total(Copies(d), Ready(b)) \in Nat /\ Total(Copies(c), Ready(b)) \in Nat
          /\ Loans(c, b) \in Nat /\ Held(c, b) \in Int /\ Held(d, b) \in Int
        BY LoanTypes
    <2>6. Held(d, b) = Held(c, b) + Brings(c, b)
        BY <2>1, <2>2, <2>4, <2>5 DEF Held
    <2>7. Brings(c, b) = 1 => Held(c, b) = 0
        <3> HAVE Brings(c, b) = 1
        <3>1. Event(x) = Ready(b) /\ 1 \in 1..Len(Copies(c))
            BY <1>1, <1>3, <2>1
        <3>2. x.ahead = Fills(c, b, 1) - 1 + Held(c, b)
            BY <3>1 DEF AheadInv, x
        <3> QED BY <1>2, <2>3, <2>5, <3>2
    <2>8. ASSUME NEW q, NEW l, NEW r PROVE Loan(d, R, b, q, l, r) <=> Loan(c, R, b, q, l, r)
        <3>1. \A i \in 1..m : Kernels(d)[i].layer = Kernels(c)[i].layer /\ Kernels(d)[i].rows = Kernels(c)[i].rows
            BY <1>2 DEF Saw, m
        <3> QED BY <1>2, <1>5, <1>8, <3>1 DEF Loan, m
    <2> QED BY <2>1, <2>2, <2>3, <2>4, <2>6, <2>7, <2>8
<1> QED BY <1>1, <1>3, <1>5, <1>6, <1>8, <1>9 DEF AfterCopy, n, m

LEMMA CopyRanStream ==
    ASSUME NEW p, NEW R, NEW c \in Caches, NEW d \in Caches, CopyRan(c, d), StreamInv(p, c, R)
    PROVE  /\ StreamInv(p, d, R)
           /\ \A i \in 1..Len(Kernels(c)) : \A k \in 1..Len(Copies(c)) :
                 Fences(c, i, k) => k \in 2..Len(Copies(c)) /\ Fences(d, i, k - 1)
<1> DEFINE n == Len(Copies(d))
           m == Len(Kernels(c))
           x == Copies(c)[1]
<1>0. AfterCopy(R, c, d)
    BY AfterCopyIs DEF StreamInv
<1>1. /\ n \in Nat /\ Len(Copies(c)) = n + 1 /\ Len(Kernels(d)) = m
      /\ \A j \in 1..n : Copies(d)[j] = Copies(c)[j + 1] /\ j + 1 \in 1..Len(Copies(c))
      /\ \A j \in 2..Len(Copies(c)) : Copies(c)[j] = Copies(d)[j - 1] /\ j - 1 \in 1..n
      /\ \A i \in 1..m : Event(Kernels(d)[i]) = Event(Kernels(c)[i]) /\ Begins(d, i) = Begins(c, i)
    BY <1>0 DEF AfterCopy
<1>2. \A b \in Buffer :
          /\ Brings(c, b) \in {0, 1} /\ (Brings(c, b) = 1 => Held(c, b) = 0)
          /\ Loans(d, b) = Loans(c, b) /\ Held(d, b) = Held(c, b) + Brings(c, b)
          /\ Fills(c, b, 1) = Brings(c, b)
          /\ \A j \in 1..n : Fills(c, b, j + 1) = Fills(d, b, j) + Brings(c, b)
          /\ \A i \in 1..m : Denses(d, b, i) = Denses(c, b, i)
          /\ \A q, l, r : Loan(d, R, b, q, l, r) <=> Loan(c, R, b, q, l, r)
    BY <1>0 DEF AfterCopy
<1>3. \A b \in Buffer : /\ Loans(c, b) \in Nat /\ Held(c, b) \in Int /\ Held(d, b) \in Int
                        /\ \A i \in Int : /\ Denses(c, b, i) \in Nat /\ Fills(c, b, i) \in Nat
                                          /\ Fills(d, b, i) \in Nat
    BY LoanTypes
<1>4. Saw(Kernels(c), Kernels(d), x.records) /\ x.ahead = 0
    BY DEF CopyRan
<1>5. m \in Nat /\ \A i \in 1..m : Kernels(c)[i] \in Tasks
    BY StreamTypes
<1>6. CopyShape(p, x) /\ 1 \in 1..Len(Copies(c))
    BY <1>1 DEF StreamInv, ShapeInv
<1>7. \A b \in Buffer : x.records = Ready(b) <=> Event(x) = Ready(b)
    BY <1>6, EventsDiffer DEF CopyShape, Event, Inert, Begin, Nothing, Ready
<1>8. x.records # Nothing => \E b \in Buffer : x.records = Ready(b)
    <2> HAVE x.records # Nothing
    <2>1. x.records = Ready(BufferOf(x.layer))
        BY <1>6 DEF CopyShape, Inert
    <2>2. x.layer \in Int
        BY <1>6, StreamTypes DEF Tasks, Layer
    <2> QED BY <2>1, <2>2, Geometry
<1> HIDE DEF n, m, x
<1>9. \A i \in 1..m : /\ Kernels(d)[i].do = Kernels(c)[i].do /\ Kernels(d)[i].layer = Kernels(c)[i].layer
                      /\ Kernels(d)[i].rows = Kernels(c)[i].rows /\ Kernels(d)[i].base = Kernels(c)[i].base
                      /\ Kernels(d)[i].awaits = Kernels(c)[i].awaits
                      /\ Kernels(d)[i].records = Kernels(c)[i].records
                      /\ Kernels(d)[i].ahead = IF Kernels(c)[i].awaits = x.records /\ Kernels(c)[i].ahead > 0
                                               THEN Kernels(c)[i].ahead - 1 ELSE Kernels(c)[i].ahead
    BY <1>4 DEF Saw, m
<1>10. ShapeInv(p, d)
    <2>1. ASSUME NEW j \in 1..n PROVE CopyShape(p, Copies(d)[j])
        BY <1>1 DEF StreamInv, ShapeInv
    <2>2. ASSUME NEW i \in 1..m PROVE KernelShape(p, Kernels(d)[i])
        <3>1. KernelShape(p, Kernels(c)[i])
            BY DEF StreamInv, ShapeInv, m
        <3>2. Kernels(c)[i].ahead = 0 => Kernels(d)[i].ahead = 0
            BY <1>9
        <3> QED BY <1>9, <3>1, <3>2 DEF KernelShape, Inert
    <2> QED BY <1>1, <2>1, <2>2 DEF ShapeInv, n
<1>11. HeldInv(d)
    BY <1>2, <1>3 DEF StreamInv, HeldInv
<1>12. AheadInv(d)
    <2> SUFFICES ASSUME NEW b \in Buffer
                 PROVE  /\ \A i \in 1..m : Event(Kernels(d)[i]) = Release(b) =>
                              Kernels(d)[i].ahead = Denses(d, b, i) - Held(d, b)
                        /\ \A j \in 1..n : Event(Copies(d)[j]) = Ready(b) =>
                              Copies(d)[j].ahead = Fills(d, b, j) - 1 + Held(d, b)
        BY <1>1 DEF AheadInv, n
    <2>1. ASSUME NEW j \in 1..n, Event(Copies(d)[j]) = Ready(b)
          PROVE  Copies(d)[j].ahead = Fills(d, b, j) - 1 + Held(d, b)
        <3>1. Copies(c)[j + 1].ahead = Fills(c, b, j + 1) - 1 + Held(c, b)
            BY <1>1, <2>1 DEF StreamInv, AheadInv
        <3>2. Fills(d, b, j) \in Nat
            <4>1. j \in Int
                OBVIOUS
            <4> QED BY <1>3, <4>1
        <3>3. Copies(d)[j] = Copies(c)[j + 1]
            BY <1>1
        <3>4. /\ Fills(c, b, j + 1) = Fills(d, b, j) + Brings(c, b) /\ Held(d, b) = Held(c, b) + Brings(c, b)
              /\ Held(c, b) \in Int /\ Brings(c, b) \in {0, 1}
            BY <1>2, <1>3
        <3> QED BY <3>1, <3>2, <3>3, <3>4
    <2>2. ASSUME NEW i \in 1..m, Event(Kernels(d)[i]) = Release(b)
          PROVE  Kernels(d)[i].ahead = Denses(d, b, i) - Held(d, b)
        <3>1. Event(Kernels(c)[i]) = Release(b) /\ Kernels(c)[i].ahead = Denses(c, b, i) - Held(c, b)
            BY <1>1, <2>2 DEF StreamInv, AheadInv, m
        <3>2. Denses(c, b, i) >= 1 /\ Denses(c, b, i) \in Nat
            BY <3>1, CountRange, StreamTypes DEF Denses, m
        <3>3. Kernels(c)[i].awaits = Ready(b)
            <4>1. KernelShape(p, Kernels(c)[i])
                BY DEF StreamInv, ShapeInv, m
            <4>2. BufferOf(Kernels(c)[i].layer) \in Buffer
                <5>1. Kernels(c)[i].layer \in Int
                    BY <1>5 DEF Tasks, Layer
                <5> QED BY <5>1, Geometry
            <4> QED BY <3>1, <4>1, <4>2, EventsDiffer DEF KernelShape, Event, Inert, Begin, Nothing, Ready, Release
        <3>4. Kernels(d)[i].ahead = IF Ready(b) = x.records /\ Kernels(c)[i].ahead > 0
                                    THEN Kernels(c)[i].ahead - 1 ELSE Kernels(c)[i].ahead
            BY <1>9, <3>3
        <3>5. Brings(c, b) = IF x.records = Ready(b) THEN 1 ELSE 0
            BY <1>7 DEF Brings, x
        <3>6. /\ Denses(d, b, i) = Denses(c, b, i) /\ Held(d, b) = Held(c, b) + Brings(c, b)
              /\ Held(c, b) \in Int /\ (Brings(c, b) = 1 => Held(c, b) = 0)
            BY <1>2, <1>3
        <3> QED BY <3>1, <3>2, <3>4, <3>5, <3>6
    <2> QED BY <2>1, <2>2
<1>13. PairInv(d, R)
    <2> SUFFICES ASSUME NEW b \in Buffer, NEW j \in 1..n, Event(Copies(d)[j]) = Ready(b),
                        NEW k, NEW r, Loan(d, R, b, Fills(d, b, j) + Held(d, b), k, r)
                 PROVE  Copies(d)[j].layer = k /\ r \subseteq Copies(d)[j].rows
        BY DEF PairInv, n
    <2>1. Fills(d, b, j) \in Nat
        <3>1. j \in Int
            OBVIOUS
        <3> QED BY <1>3, <3>1
    <2>2. /\ Fills(c, b, j + 1) = Fills(d, b, j) + Brings(c, b) /\ Held(d, b) = Held(c, b) + Brings(c, b)
          /\ Held(c, b) \in Int /\ Brings(c, b) \in {0, 1}
        BY <1>2, <1>3
    <2>3. Fills(c, b, j + 1) + Held(c, b) = Fills(d, b, j) + Held(d, b)
        BY <2>1, <2>2
    <2>4. Loan(c, R, b, Fills(c, b, j + 1) + Held(c, b), k, r)
        BY <1>2, <2>3
    <2> QED BY <1>1, <2>4 DEF StreamInv, PairInv
<1>14. GatherInv(p, d, R)
    <2>1. \A b \in Buffer : \A i \in 1..m : Gathers(d, b, i) <=> Gathers(c, b, i)
        BY <1>9 DEF Gathers
    <2> SUFFICES ASSUME NEW b \in Buffer
                 PROVE  /\ \A i \in 1..m : Gathers(d, b, i) =>
                              /\ Denses(d, b, i) < Loans(d, b)
                              /\ \A k, r : Loan(d, R, b, Denses(d, b, i) + 1, k, r) => k = Kernels(d)[i].layer
                        /\ \A q, k, r : Loan(d, R, b, q, k, r) /\ q # 1 /\ k \in p.layers =>
                              \E i \in 1..m :
                                  Gathers(d, b, i) /\ Kernels(d)[i].layer = k /\ Denses(d, b, i) = q - 1
        BY <1>1 DEF GatherInv
    <2>2. /\ \A i \in 1..m : Gathers(c, b, i) =>
               /\ Denses(c, b, i) < Loans(c, b)
               /\ \A k, r : Loan(c, R, b, Denses(c, b, i) + 1, k, r) => k = Kernels(c)[i].layer
          /\ \A q, k, r : Loan(c, R, b, q, k, r) /\ q # 1 /\ k \in p.layers =>
               \E i \in 1..m : Gathers(c, b, i) /\ Kernels(c)[i].layer = k /\ Denses(c, b, i) = q - 1
        BY DEF StreamInv, GatherInv, m
    <2> QED BY <1>2, <1>9, <2>1, <2>2
<1>15. \A i \in 1..m : \A k \in 1..Len(Copies(c)) : Fences(c, i, k) => k \in 2..Len(Copies(c)) /\ Fences(d, i, k - 1)
    <2> SUFFICES ASSUME NEW i \in 1..m, NEW k \in 1..Len(Copies(c)), Fences(c, i, k)
                 PROVE  k \in 2..Len(Copies(c)) /\ Fences(d, i, k - 1)
        OBVIOUS
    <2>1. Begins(c, i) \in Nat
        <3>1. 0 \in Buffer /\ i \in Int
            BY DEF Buffer
        <3> QED BY <3>1, LoanTypes
    <2>2. k # 1
        BY <1>4, <2>1 DEF Fences, x
    <2>3. k \in 2..Len(Copies(c))
        BY <1>1, <2>2
    <2> QED BY <1>1, <2>3 DEF Fences
<1>16. LoadInv(p, d)
    <2> SUFFICES ASSUME NEW i \in 1..m, IsLoad(Kernels(d)[i])
                 PROVE  /\ \A j \in 1..n : Copies(d)[j].do # "mark" => Before(d, i, j) \/ After(d, i, j)
                        /\ \A b \in Buffer : Held(d, b) = 1 => Denses(d, b, i) >= 1
                        /\ p.splits => \A b \in Buffer : Denses(d, b, i) = Loans(d, b)
        BY <1>1 DEF LoadInv, n
    <2>1. IsLoad(Kernels(c)[i])
        BY <1>9 DEF IsLoad
    <2>2. /\ \A j \in 1..Len(Copies(c)) : Copies(c)[j].do # "mark" => Before(c, i, j) \/ After(c, i, j)
          /\ \A b \in Buffer : Held(c, b) = 1 => Denses(c, b, i) >= 1
          /\ p.splits => \A b \in Buffer : Denses(c, b, i) = Loans(c, b)
        BY <2>1 DEF StreamInv, LoadInv, m
    <2>3. ASSUME NEW j \in 1..n PROVE Before(c, i, j + 1) => Before(d, i, j)
        <3> HAVE Before(c, i, j + 1)
        <3>1. PICK b \in Buffer : /\ Event(Copies(c)[j + 1]) = Ready(b)
                                  /\ Fills(c, b, j + 1) + Held(c, b) <= Denses(c, b, i)
            BY DEF Before
        <3>2. Fills(d, b, j) \in Nat
            <4>1. j \in Int
                OBVIOUS
            <4> QED BY <1>3, <4>1
        <3>3. /\ Fills(c, b, j + 1) = Fills(d, b, j) + Brings(c, b) /\ Held(d, b) = Held(c, b) + Brings(c, b)
              /\ Held(c, b) \in Int /\ Brings(c, b) \in {0, 1} /\ Denses(d, b, i) = Denses(c, b, i)
            BY <1>2, <1>3
        <3>4. Fills(d, b, j) + Held(d, b) <= Denses(d, b, i)
            BY <3>1, <3>2, <3>3
        <3> QED BY <1>1, <3>1, <3>4 DEF Before
    <2>4. ASSUME NEW j \in 1..n PROVE After(c, i, j + 1) => After(d, i, j)
        <3> HAVE After(c, i, j + 1)
        <3>1. PICK k \in 1..((j + 1) - 1) : Fences(c, i, k)
            BY DEF After
        <3>2. k \in 1..Len(Copies(c)) /\ k <= j /\ k \in Int
            BY <1>1, <3>1
        <3>3. k \in 2..Len(Copies(c)) /\ Fences(d, i, k - 1)
            BY <1>15, <3>1, <3>2
        <3>4. k - 1 \in 1..(j - 1)
            BY <3>2, <3>3
        <3> QED BY <3>3, <3>4 DEF After
    <2>5. ASSUME NEW b \in Buffer
          PROVE  Held(d, b) = 1 => Denses(d, b, i) >= 1
        <3> HAVE Held(d, b) = 1
        <3>1. CASE Brings(c, b) = 1
            <4>1. Event(x) = Ready(b)
                BY <3>1 DEF Brings, x
            <4>2. x.do # "mark"
                BY <1>6, <4>1, EventsDiffer DEF CopyShape, Event, Begin, Ready
            <4>3. Before(c, i, 1)
                <5>1. ~After(c, i, 1)
                    BY DEF After
                <5> QED BY <1>6, <2>2, <4>2, <5>1 DEF x
            <4>4. PICK q \in Buffer : Event(x) = Ready(q) /\ Fills(c, q, 1) + Held(c, q) <= Denses(c, q, i)
                BY <4>3 DEF Before, x
            <4>5. q = b
                BY <4>1, <4>4, EventsDiffer
            <4>6. Fills(c, b, 1) = 1 /\ Held(c, b) = 0 /\ Denses(d, b, i) = Denses(c, b, i)
                BY <1>2, <3>1
            <4>7. 1 + 0 <= Denses(d, b, i)
                BY <4>4, <4>5, <4>6
            <4>8. Denses(c, b, i) \in Nat
                <5>1. i \in Int
                    OBVIOUS
                <5> QED BY <1>3, <5>1
            <4> QED BY <4>6, <4>7, <4>8
        <3>2. CASE Brings(c, b) # 1
            BY <1>2, <1>3, <2>2, <3>2
        <3> QED BY <3>1, <3>2
    <2> QED BY <1>1, <1>2, <2>2, <2>3, <2>4, <2>5
<1>17. ChainInv(p, d)
    <2> SUFFICES ASSUME NEW i \in 1..m
                 PROVE  /\ Kernels(d)[i].do = "gemm" => Follows(Kernels(d), i, "load")
                        /\ Kernels(d)[i].do = "dense" /\ ~p.overlap => Follows(Kernels(d), i, "materialize")
        BY <1>1 DEF ChainInv
    <2>1. \A do : Follows(Kernels(c), i, do) => Follows(Kernels(d), i, do)
        <3>1. i # 1 => i - 1 \in 1..m
            BY <1>5
        <3> QED BY <1>9, <3>1 DEF Follows
    <2> QED BY <1>9, <2>1 DEF StreamInv, ChainInv, m
<1> QED BY <1>10, <1>11, <1>12, <1>13, <1>14, <1>15, <1>16, <1>17 DEF StreamInv, m

LEMMA KernelRanPass ==
    ASSUME NEW p, NEW R, NEW at, NEW c \in Caches, NEW d \in Caches, KernelRan(c, d),
           StreamInv(p, c, R), PassInv(p, c, at)
    PROVE  PassInv(p, d, at)
<1>1. /\ Len(Kernels(d)) \in Nat /\ Len(Copies(d)) = Len(Copies(c))
      /\ \A i \in 1..Len(Kernels(d)) : Kernels(d)[i] = Kernels(c)[i + 1] /\ i + 1 \in 1..Len(Kernels(c))
    BY AfterKernelIs DEF AfterKernel, StreamInv
<1>2. \A j \in 1..Len(Copies(c)) : Copies(d)[j].do = Copies(c)[j].do
    BY DEF KernelRan, Saw
<1>3. d.holds = c.holds /\ d.released = c.released /\ d.failed = c.failed
    BY DEF KernelRan
<1>4. \A i \in 1..Len(Kernels(d)) : \A k \in 1..Len(Copies(c)) : Fences(c, i + 1, k) => Fences(d, i, k)
    BY KernelRanStream
<1>5. at.begun => \A i \in 1..Len(Kernels(d)) : IsLoad(Kernels(d)[i]) =>
          /\ \E k \in 1..Len(Copies(d)) :
                /\ Fences(d, i, k)
                /\ p.splits => \E j \in (k + 1)..Len(Copies(d)) : Copies(d)[j].do = "snapshot"
          /\ p.splits => at.layer = 0
    <2> SUFFICES ASSUME at.begun, NEW i \in 1..Len(Kernels(d)), IsLoad(Kernels(d)[i])
                 PROVE  /\ \E k \in 1..Len(Copies(d)) :
                              /\ Fences(d, i, k)
                              /\ p.splits => \E j \in (k + 1)..Len(Copies(d)) : Copies(d)[j].do = "snapshot"
                        /\ p.splits => at.layer = 0
        OBVIOUS
    <2>1. IsLoad(Kernels(c)[i + 1]) /\ i + 1 \in 1..Len(Kernels(c))
        BY <1>1
    <2>2. /\ p.splits => at.layer = 0
          /\ \E k \in 1..Len(Copies(c)) :
                /\ Fences(c, i + 1, k)
                /\ p.splits => \E j \in (k + 1)..Len(Copies(c)) : Copies(c)[j].do = "snapshot"
        BY <2>1 DEF PassInv
    <2>3. PICK k \in 1..Len(Copies(c)) :
                /\ Fences(c, i + 1, k)
                /\ p.splits => \E j \in (k + 1)..Len(Copies(c)) : Copies(c)[j].do = "snapshot"
        BY <2>2
    <2>4. \A j \in (k + 1)..Len(Copies(c)) : j \in 1..Len(Copies(c))
        OBVIOUS
    <2> QED BY <1>1, <1>2, <1>4, <2>2, <2>3, <2>4
<1> QED BY <1>1, <1>2, <1>3, <1>5 DEF PassInv

LEMMA CopyRanPass ==
    ASSUME NEW p, NEW R, NEW at, NEW c \in Caches, NEW d \in Caches, CopyRan(c, d),
           StreamInv(p, c, R), PassInv(p, c, at)
    PROVE  PassInv(p, d, at)
<1>1. /\ Len(Copies(d)) \in Nat /\ Len(Copies(c)) = Len(Copies(d)) + 1 /\ Len(Kernels(d)) = Len(Kernels(c))
      /\ \A j \in 1..Len(Copies(d)) : Copies(d)[j] = Copies(c)[j + 1] /\ j + 1 \in 1..Len(Copies(c))
      /\ \A j \in 2..Len(Copies(c)) : Copies(c)[j] = Copies(d)[j - 1] /\ j - 1 \in 1..Len(Copies(d))
    BY AfterCopyIs DEF AfterCopy, StreamInv
<1>2. \A i \in 1..Len(Kernels(c)) : Kernels(d)[i].do = Kernels(c)[i].do
    BY DEF CopyRan, Saw
<1>3. d.holds = c.holds /\ d.released = c.released /\ d.failed = c.failed
    BY DEF CopyRan
<1>4. \A i \in 1..Len(Kernels(c)) : \A k \in 1..Len(Copies(c)) :
                 Fences(c, i, k) => k \in 2..Len(Copies(c)) /\ Fences(d, i, k - 1)
    BY CopyRanStream
<1>5. at.begun => \A i \in 1..Len(Kernels(d)) : IsLoad(Kernels(d)[i]) =>
          /\ \E k \in 1..Len(Copies(d)) :
                /\ Fences(d, i, k)
                /\ p.splits => \E j \in (k + 1)..Len(Copies(d)) : Copies(d)[j].do = "snapshot"
          /\ p.splits => at.layer = 0
    <2> SUFFICES ASSUME at.begun, NEW i \in 1..Len(Kernels(d)), IsLoad(Kernels(d)[i])
                 PROVE  /\ \E k \in 1..Len(Copies(d)) :
                              /\ Fences(d, i, k)
                              /\ p.splits => \E j \in (k + 1)..Len(Copies(d)) : Copies(d)[j].do = "snapshot"
                        /\ p.splits => at.layer = 0
        OBVIOUS
    <2>1. IsLoad(Kernels(c)[i]) /\ i \in 1..Len(Kernels(c))
        BY <1>1, <1>2 DEF IsLoad
    <2>2. /\ p.splits => at.layer = 0
          /\ \E k \in 1..Len(Copies(c)) :
                /\ Fences(c, i, k)
                /\ p.splits => \E j \in (k + 1)..Len(Copies(c)) : Copies(c)[j].do = "snapshot"
        BY <2>1 DEF PassInv
    <2>3. PICK k \in 1..Len(Copies(c)) :
                /\ Fences(c, i, k)
                /\ p.splits => \E j \in (k + 1)..Len(Copies(c)) : Copies(c)[j].do = "snapshot"
        BY <2>2
    <2>4. k \in 2..Len(Copies(c)) /\ Fences(d, i, k - 1) /\ k - 1 \in 1..Len(Copies(d))
        BY <1>1, <1>4, <2>1, <2>3
    <2>5. ASSUME NEW j \in (k + 1)..Len(Copies(c)), Copies(c)[j].do = "snapshot"
          PROVE  j - 1 \in ((k - 1) + 1)..Len(Copies(d)) /\ Copies(d)[j - 1].do = "snapshot"
        <3>1. j \in 2..Len(Copies(c))
            BY <2>4
        <3> QED BY <1>1, <2>4, <2>5, <3>1
    <2> QED BY <2>2, <2>3, <2>4, <2>5
<1> QED BY <1>1, <1>3, <1>5 DEF PassInv

-----------------------------------------------------------------------------
(***************************************************************************)
(* The host leaves the pool alone: what it queues keeps what is said of it.*)
(***************************************************************************)
LEMMA SentPool ==
    ASSUME NEW p, NEW R, NEW v, NEW c \in Caches, NEW d \in Caches, HeldInv(c), PoolInv(p, c, R, v),
           \A i \in 1..Len(Kernels(c)) :
               /\ i \in 1..Len(Kernels(d)) /\ Kernels(d)[i] = Kernels(c)[i]
               /\ \A b \in Buffer : Denses(d, b, i) = Denses(c, b, i),
           \A b \in Buffer : /\ Held(d, b) = Held(c, b)
                             /\ Total(Copies(d), Ready(b)) >= Total(Copies(c), Ready(b)),
           \A b \in Buffer : \A l, r : Loan(d, R, b, 1, l, r) =>
               \/ Loan(c, R, b, 1, l, r)
               \/ /\ Loans(c, b) = 0
                  /\ l \in p.layers => \E i \in 1..Len(Kernels(d)) : Gathers(d, b, i) /\ Denses(d, b, i) = 0,
           Kernels(c) = <<>> /\ Kernels(d) # <<>> =>
               Kernels(d)[1].do # "gemm" /\ (Kernels(d)[1].do = "dense" => p.overlap)
    PROVE  PoolInv(p, d, R, v)
<1>1. MapInv(p, d, v)
    <2>1. \A b \in Buffer : Total(Copies(c), Ready(b)) \in Nat /\ Total(Copies(d), Ready(b)) \in Nat
        BY LoanTypes
    <2>2. \A b \in Buffer : Total(Copies(c), Ready(b)) >= 1 => Total(Copies(d), Ready(b)) >= 1
        BY <2>1
    <2> QED BY <2>2 DEF PoolInv, MapInv
<1>2. BufferInv(p, d, R, v)
    <2> SUFFICES ASSUME NEW b \in Buffer, NEW l, NEW r, Loan(d, R, b, 1, l, r)
                 PROVE  /\ Held(d, b) = 1 => \A e \in r \ Kept(p, v, l) : v.bytes[Base(b) + e] = <<l, e>>
                        /\ \/ \E i \in 1..Len(Kernels(d)) : Gathers(d, b, i) /\ Denses(d, b, i) = 0
                           \/ \A e \in Kept(p, v, l) : v.bytes[Base(b) + e] = <<l, e>>
        BY DEF BufferInv
    <2>1. CASE Loan(c, R, b, 1, l, r)
        <3>1. /\ Held(c, b) = 1 => \A e \in r \ Kept(p, v, l) : v.bytes[Base(b) + e] = <<l, e>>
              /\ \/ \E i \in 1..Len(Kernels(c)) : Gathers(c, b, i) /\ Denses(c, b, i) = 0
                 \/ \A e \in Kept(p, v, l) : v.bytes[Base(b) + e] = <<l, e>>
            BY <2>1 DEF PoolInv, BufferInv
        <3>2. \A i \in 1..Len(Kernels(c)) : Gathers(c, b, i) => i \in 1..Len(Kernels(d)) /\ Gathers(d, b, i)
            BY DEF Gathers
        <3> QED BY <3>1, <3>2
    <2>2. CASE ~Loan(c, R, b, 1, l, r)
        <3>1. Loans(c, b) = 0 /\ (l \in p.layers =>
                  \E i \in 1..Len(Kernels(d)) : Gathers(d, b, i) /\ Denses(d, b, i) = 0)
            BY <2>2
        <3>2. Held(d, b) # 1
            <4>1. Held(c, b) + Total(Copies(c), Ready(b)) = 0 /\ Total(Copies(c), Ready(b)) \in Nat
                  /\ Held(c, b) \in {0, 1}
                BY <3>1, LoanTypes DEF HeldInv
            <4> QED BY <4>1
        <3>3. l \notin p.layers => Kept(p, v, l) = {}
            BY DEF Kept
        <3> QED BY <3>1, <3>2, <3>3
    <2> QED BY <2>1, <2>2
<1>3. HeadInv(p, d, v)
    <2>1. CASE Kernels(c) = <<>>
        BY <2>1 DEF HeadInv
    <2>2. CASE Kernels(c) # <<>>
        <3>1. 1 \in 1..Len(Kernels(c))
            <4>1. Kernels(c) \in Seq(Tasks)
                BY StreamTypes
            <4> QED BY <2>2, <4>1
        <3> QED BY <2>2, <3>1 DEF PoolInv, HeadInv
    <2> QED BY <2>1, <2>2
<1> QED BY <1>1, <1>2, <1>3 DEF PoolInv

LEMMA KernelPool ==
    ASSUME NEW p, NEW R, NEW v, NEW c \in Caches, NEW d \in Caches, NEW t \in Tasks,
           HeldInv(c), PoolInv(p, c, R, v),
           Kernels(d) = Append(Kernels(c), t), Copies(d) = Copies(c),
           d.holds = c.holds, d.released = c.released, \A b \in Buffer : Event(t) # Release(b),
           t.do \in {"gemm", "dense"} => Kernels(c) # <<>>
    PROVE  PoolInv(p, d, R, v)
<1>1. \A b \in Buffer : /\ Loans(d, b) = Loans(c, b)
                        /\ \A m, l, r : Loan(d, R, b, m, l, r) <=> Loan(c, R, b, m, l, r)
    BY LoansStay
<1>2. \A b \in Buffer : /\ Held(d, b) = Held(c, b) /\ Total(Copies(c), Ready(b)) \in Nat
                        /\ Total(Copies(d), Ready(b)) = Total(Copies(c), Ready(b))
    BY <1>1, LoanTypes DEF Held
<1> DEFINE n == Len(Kernels(c))
<1>3. /\ n \in Nat /\ Len(Kernels(d)) = n + 1 /\ Kernels(d)[n + 1] = t
      /\ \A i \in 1..n : Kernels(d)[i] = Kernels(c)[i]
      /\ \A b \in Buffer : \A i \in 0..n : Denses(d, b, i) = Denses(c, b, i)
    BY KernelSent
<1>4. \A i \in 1..n : /\ i \in 1..Len(Kernels(d)) /\ Kernels(d)[i] = Kernels(c)[i]
                      /\ \A b \in Buffer : Denses(d, b, i) = Denses(c, b, i)
    <2>1. \A i \in 1..n : i \in 1..Len(Kernels(d)) /\ i \in 0..n
        BY <1>3
    <2> QED BY <1>3, <2>1
<1>5. Kernels(c) = <<>> => Kernels(d)[1].do \notin {"gemm", "dense"}
    <2> HAVE Kernels(c) = <<>>
    <2>1. n + 1 = 1
        OBVIOUS
    <2> QED BY <1>3, <2>1
<1>6. \A b \in Buffer : Total(Copies(d), Ready(b)) >= Total(Copies(c), Ready(b))
    BY <1>2
<1> QED BY <1>1, <1>2, <1>4, <1>5, <1>6, SentPool

LEMMA LentPool ==
    ASSUME NEW p, NEW R, NEW v, NEW c \in Caches, NEW d \in Caches, NEW l \in Layer, Lent(p, R, c, d, l),
           HeldInv(c), PoolInv(p, c, R, v)
    PROVE  PoolInv(p, d, R, v)
<1>1. /\ KernelsLent(p, c, d, l) /\ CopiesLent(p, R, c, d, l)
    BY LentKernels, LentCopies
<1>2. \A b \in Buffer :
              /\ Held(d, b) = Held(c, b)
              /\ b = BufferOf(l) => Loans(c, b) = Total(Kernels(c), Release(b))
              /\ \A q, k, r : Loan(d, R, b, q, k, r) <=>
                    \/ Loan(c, R, b, q, k, r)
                    \/ b = BufferOf(l) /\ q = Loans(c, b) + 1 /\ k = l /\ r = R
    BY LentLoans
<1>3. \A b \in Buffer : Total(Copies(c), Ready(b)) \in Nat /\ Loans(c, b) \in Nat
    BY LoanTypes
<1>4. \A i \in 1..Len(Kernels(c)) : /\ i \in 1..Len(Kernels(d)) /\ Kernels(d)[i] = Kernels(c)[i]
                                    /\ \A b \in Buffer : Denses(d, b, i) = Denses(c, b, i)
    BY <1>1 DEF KernelsLent
<1>5. \A b \in Buffer : Total(Copies(d), Ready(b)) >= Total(Copies(c), Ready(b))
    BY <1>1, <1>3 DEF CopiesLent
<1>6. ASSUME NEW b \in Buffer, NEW k, NEW r, Loan(d, R, b, 1, k, r), ~Loan(c, R, b, 1, k, r)
      PROVE  /\ Loans(c, b) = 0
             /\ k \in p.layers => \E i \in 1..Len(Kernels(d)) : Gathers(d, b, i) /\ Denses(d, b, i) = 0
    <2>1. b = BufferOf(l) /\ 1 = Loans(c, b) + 1 /\ k = l /\ Loans(c, b) = Total(Kernels(c), Release(b))
        BY <1>2, <1>6
    <2>2. Loans(c, b) = 0
        BY <1>3, <2>1
    <2>3. l \in p.layers => \E i \in 1..Len(Kernels(d)) :
                 /\ Kernels(d)[i].do = "gather" /\ Kernels(d)[i].layer = l
                 /\ Denses(d, b, i) = Total(Kernels(c), Release(b))
        BY <1>1 DEF KernelsLent
    <2> QED BY <2>1, <2>2, <2>3 DEF Gathers
<1>7. Kernels(c) = <<>> /\ Kernels(d) # <<>> => Kernels(d)[1].do = "gather"
    <2> HAVE Kernels(c) = <<>> /\ Kernels(d) # <<>>
    <2>1. 1 \in 1..Len(Kernels(d)) /\ 1 \notin 1..Len(Kernels(c))
        <3>1. Kernels(d) \in Seq(Tasks)
            BY StreamTypes
        <3> QED BY <3>1
    <2> QED BY <1>1, <2>1 DEF KernelsLent
<1> QED BY <1>2, <1>4, <1>5, <1>6, <1>7, SentPool

LEMMA EndedPool ==
    ASSUME NEW p, NEW R, NEW v, NEW c \in Caches, NEW d \in Caches, NEW l \in Layer, p.overlap,
           Ended(p, R, c, d, l), HeldInv(c), PoolInv(p, c, R, v)
    PROVE  PoolInv(p, d, R, v)
<1>0. LoansEnded(p, R, c, d, l)
    BY EndedLoans
<1>1. /\ \A i \in 1..Len(Kernels(c)) :
            /\ i \in 1..Len(Kernels(d)) /\ Kernels(d)[i] = Kernels(c)[i]
            /\ \A b \in Buffer : Denses(d, b, i) = Denses(c, b, i)
      /\ \A i \in 1..Len(Kernels(d)) : i \in 1..Len(Kernels(c)) \/ Kernels(d)[i].do = "dense"
      /\ \A b \in Buffer :
            /\ Held(d, b) = Held(c, b)
            /\ \A m, k, r : Loan(d, R, b, m, k, r) <=> Loan(c, R, b, m, k, r)
    BY <1>0 DEF LoansEnded
<1>2. \A b \in Buffer : Total(Copies(d), Ready(b)) = Total(Copies(c), Ready(b)) /\ Total(Copies(c), Ready(b)) \in Nat
    BY LoanTypes DEF Ended
<1>3. \A b \in Buffer : Total(Copies(d), Ready(b)) >= Total(Copies(c), Ready(b))
    BY <1>2
<1>4. Kernels(c) = <<>> /\ Kernels(d) # <<>> => Kernels(d)[1].do = "dense"
    <2> HAVE Kernels(c) = <<>> /\ Kernels(d) # <<>>
    <2>1. 1 \in 1..Len(Kernels(d)) /\ 1 \notin 1..Len(Kernels(c))
        <3>1. Kernels(d) \in Seq(Tasks)
            BY StreamTypes
        <3> QED BY <3>1
    <2> QED BY <1>1, <2>1
<1> QED BY <1>1, <1>3, <1>4, SentPool

LEMMA CopyPool ==
    ASSUME NEW p, NEW R, NEW v, NEW c \in Caches, NEW d \in Caches, HeldInv(c), PoolInv(p, c, R, v),
           Kernels(d) = Kernels(c), d.released = c.released, d.holds = c.holds,
           \A b \in Buffer : /\ Held(d, b) = Held(c, b)
                             /\ Total(Copies(d), Ready(b)) = Total(Copies(c), Ready(b))
    PROVE  PoolInv(p, d, R, v)
<1>1. \A b \in Buffer : /\ \A m, l, r : Loan(d, R, b, m, l, r) <=> Loan(c, R, b, m, l, r)
                        /\ \A i : Denses(d, b, i) = Denses(c, b, i)
    BY DEF Loan, Denses
<1>2. \A b \in Buffer : Total(Copies(c), Ready(b)) \in Nat
    BY LoanTypes
<1>3. \A b \in Buffer : Total(Copies(d), Ready(b)) >= Total(Copies(c), Ready(b))
    BY <1>2
<1> QED BY <1>1, <1>3, SentPool

LEMMA UnlentPool ==
    ASSUME NEW p, NEW R, NEW Q, NEW v, NEW c, NEW d, StreamInv(p, c, R), PoolInv(p, c, R, v),
           \A b \in Buffer : c.released[b] /\ d.released[b], d.stream = c.stream
    PROVE  PoolInv(p, d, Q, v)
<1>1. Kernels(d) = Kernels(c) /\ Copies(d) = Copies(c)
    BY DEF Kernels, Copies
<1>2. \A b \in Buffer : /\ Held(d, b) = Held(c, b)
                        /\ \A m, k, r : Loan(d, Q, b, m, k, r) <=> Loan(c, R, b, m, k, r)
                        /\ \A i : Denses(d, b, i) = Denses(c, b, i)
    <2>1. \A b \in Buffer : /\ Loans(d, b) = Loans(c, b) /\ Held(d, b) = Held(c, b)
                            /\ \A m, k, r : Loan(d, Q, b, m, k, r) <=> Loan(c, R, b, m, k, r)
        BY UnlentStream
    <2> QED BY <1>1, <2>1 DEF Denses
<1>3. MapInv(p, d, v)
    BY <1>1, <1>2 DEF PoolInv, MapInv
<1>4. BufferInv(p, d, Q, v)
    BY <1>1, <1>2 DEF PoolInv, BufferInv, Gathers
<1>5. HeadInv(p, d, v)
    BY <1>1 DEF PoolInv, HeadInv
<1> QED BY <1>3, <1>4, <1>5 DEF PoolInv

-----------------------------------------------------------------------------
(***************************************************************************)
(* What the host queues.                                                   *)
(***************************************************************************)
NoSnapshot(c) == \A j \in 1..Len(Copies(c)) : Copies(c)[j].do # "snapshot"

LEMMA TaskIs ==
    ASSUME NEW do \in Kinds, NEW l \in Layer
    PROVE  /\ Task(do, l) \in Tasks /\ Task(do, l).do = do /\ Task(do, l).layer = l
           /\ Task(do, l).rows = Expert /\ Task(do, l).base = 0 /\ Task(do, l).ahead = 0
           /\ Task(do, l).awaits = Nothing /\ Task(do, l).records = Nothing
BY EventsAre DEF Task, Tasks

\* A kernel that neither waits nor records.
Queued(c, d, R, v, do, l) ==
    /\ d \in Caches /\ StreamInv(Plan, d, R) /\ PoolInv(Plan, d, R, v)
    /\ d.holds = c.holds /\ d.released = c.released /\ d.failed = c.failed
    /\ Copies(d) = Copies(c) /\ \A b \in Buffer : Loans(d, b) = Loans(c, b)
    /\ Kernels(d) # <<>> /\ Kernels(d)[Len(Kernels(d))].do = do
    /\ Kernels(d)[Len(Kernels(d))].layer = l

LEMMA SendKernel ==
    ASSUME NEW R, NEW v, NEW c \in Caches, NEW do \in {"load", "gemm", "materialize", "done", "dense"},
           NEW l \in Layer, StreamInv(Plan, c, R), PoolInv(Plan, c, R, v),
           do \in {"materialize", "dense"} => ~Plan.overlap,
           do \in {"load", "gemm"} => NoSnapshot(c) /\ \A b \in Buffer : c.released[b],
           do \in {"gemm", "dense"} =>
               /\ Kernels(c) # <<>> /\ Kernels(c)[Len(Kernels(c))].layer = l
               /\ Kernels(c)[Len(Kernels(c))].do = IF do = "gemm" THEN "load" ELSE "materialize"
    PROVE  Queued(c, Send(c, "compute", Task(do, l)), R, v, do, l)
<1> DEFINE task == Task(do, l)
           t == Sent(c, "compute", task)
           d == Send(c, "compute", task)
<1>1. task \in Tasks /\ task.do = do /\ task.layer = l /\ task.rows = Expert /\ task.base = 0
      /\ task.awaits = Nothing /\ task.records = Nothing
    BY TaskIs DEF Kinds
<1> HIDE DEF task
<1>2. /\ t \in Tasks /\ d \in Caches /\ Kernels(d) = Append(Kernels(c), t) /\ Copies(d) = Copies(c)
      /\ d.holds = c.holds /\ d.released = c.released /\ d.failed = c.failed
      /\ \A f \in {"do", "layer", "rows", "base", "awaits", "records"} : t[f] = task[f]
      /\ t.ahead = Pending(c.stream[Other("compute")], task.awaits)
    BY <1>1, SendIs
<1>3. t.do = do /\ t.layer = l /\ t.rows = Expert /\ t.base = 0 /\ t.awaits = Nothing /\ t.records = Nothing
    BY <1>1, <1>2
<1>4. t.ahead = 0
    BY <1>1, <1>2 DEF Pending
<1> HIDE DEF t, d
<1>5. Inert(t) /\ Event(t) = Nothing /\ KernelShape(Plan, t)
    BY <1>3, <1>4 DEF Inert, Event, KernelShape
<1>6. \A b \in Buffer : Event(t) # Release(b)
    BY <1>5, EventsDiffer
<1>7. Kernels(c) \in Seq(Tasks) /\ Len(Kernels(c)) \in Nat
    BY StreamTypes
<1>8. /\ Kernels(d) # <<>> /\ Len(Kernels(d)) = Len(Kernels(c)) + 1 /\ Kernels(d)[Len(Kernels(d))] = t
      /\ \A i \in 1..Len(Kernels(c)) : Kernels(d)[i] = Kernels(c)[i]
    BY <1>2, <1>7
<1>9. do \in {"gemm", "dense"} =>
          Follows(Kernels(d), Len(Kernels(d)), IF do = "gemm" THEN "load" ELSE "materialize")
    <2> HAVE do \in {"gemm", "dense"}
    <2>1. Len(Kernels(c)) \in 1..Len(Kernels(c)) /\ Len(Kernels(d)) - 1 = Len(Kernels(c))
        BY <1>7, <1>8
    <2> QED BY <1>3, <1>8, <2>1 DEF Follows
<1>10. StreamInv(Plan, d, R) /\ \A b \in Buffer : Loans(d, b) = Loans(c, b)
    <2>1. t.do # "gather" /\ (IsLoad(t) => /\ \A b \in Buffer : c.released[b]
                                           /\ \A j \in 1..Len(Copies(c)) : Copies(c)[j].do # "snapshot")
        BY <1>3 DEF IsLoad, NoSnapshot
    <2>2. /\ t.do = "gemm" => Follows(Kernels(d), Len(Kernels(d)), "load")
          /\ t.do = "dense" /\ ~Plan.overlap => Follows(Kernels(d), Len(Kernels(d)), "materialize")
        BY <1>3, <1>9
    <2>3. /\ d \in Caches /\ t \in Tasks /\ Kernels(d) = Append(Kernels(c), t) /\ Copies(d) = Copies(c)
          /\ d.holds = c.holds /\ d.released = c.released
        BY <1>2
    <2>4. StreamInv(Plan, d, R)
        <3>1. KernelShape(Plan, t) /\ t.do # "gather"
            BY <1>5, <2>1
        <3>2. IsLoad(t) => /\ \A b \in Buffer : c.released[b]
                           /\ \A j \in 1..Len(Copies(c)) : Copies(c)[j].do # "snapshot"
            BY <2>1
        <3> QED BY <1>6, <2>2, <2>3, <3>1, <3>2, KernelStream
    <2>5. \A b \in Buffer : Loans(d, b) = Loans(c, b)
        BY <1>6, <2>3, LoansStay
    <2> QED BY <2>4, <2>5
<1>11. PoolInv(Plan, d, R, v)
    BY <1>2, <1>3, <1>6, KernelPool DEF StreamInv
<1> QED BY <1>2, <1>3, <1>8, <1>10, <1>11 DEF Queued, d, task

LEMMA PlanIs ==
    /\ Plan.overlap = overlap /\ Plan.splits = Splits /\ Plan.slots = Slot
    /\ Plan.sparse = (variant.movement = "sparse")
    /\ \A l \in Layer : l \in Plan.layers <=> Splits /\ Pinned(l)
    /\ Plan.layers \subseteq Layer
BY DEF Plan

\* Where the streams are fit for another layer to be streamed.
Sound(c, R, v) ==
    /\ c \in Caches /\ ~c.failed /\ NoSnapshot(c)
    /\ StreamInv(Plan, c, R) /\ PoolInv(Plan, c, R, v) /\ Fenced(Plan, c)

LEMMA PrefetchIs ==
    ASSUME NEW c \in Caches, NEW l \in Layer, NEW R \in SUBSET Expert, ShapeInv(Plan, c), overlap,
           ~c.failed, c.released[BufferOf(l)], c.holds[BufferOf(l)] # l
    PROVE  /\ Prefetch(c, l, R) \in Caches /\ ~Prefetch(c, l, R).failed
           /\ Lent(Plan, R, c, Prefetch(c, l, R), l)
<1> DEFINE b == BufferOf(l)
           split == Splits /\ Pinned(l)
           gather == [Task("gather", l) EXCEPT !.base = Base(b)]
           c1 == IF split THEN Send(c, "compute", gather) ELSE c
           fill == [Task(IF split THEN "misses" ELSE "fill", l) EXCEPT
                       !.rows = R, !.base = Base(b), !.awaits = Release(b), !.records = Ready(b)]
           c2 == Send(c1, "copy", fill)
           d == [c2 EXCEPT !.holds[b] = l, !.released[b] = FALSE]
<1>1. b \in Buffer /\ l \in Int /\ l < NumLayers /\ Base(b) \in Int
    <2>1. l \in Int /\ l < NumLayers
        BY Geometry DEF Layer
    <2>2. b \in Buffer
        BY <2>1, Geometry
    <2>3. \A q \in Buffer : Base(q) \in Int
        BY Geometry DEF Buffer
    <2> QED BY <2>1, <2>2, <2>3
<1>2. Prefetch(c, l, R) = d
    <2>1. ~(c.failed \/ l >= NumLayers \/ c.holds[b] = l) /\ ~(c.holds[b] # None /\ ~c.released[b])
        BY <1>1, Geometry
    <2>2. c2 = Filled(c, l, R)
        BY DEF Filled
    <2> HIDE DEF c2
    <2> QED BY <2>1, <2>2 DEF Prefetch
<1>3. /\ gather \in Tasks /\ gather.do = "gather" /\ gather.layer = l /\ gather.base = Base(b)
      /\ gather.awaits = Nothing /\ gather.records = Nothing
    <2>1. /\ Task("gather", l) \in Tasks /\ Task("gather", l).do = "gather" /\ Task("gather", l).layer = l
          /\ Task("gather", l).awaits = Nothing /\ Task("gather", l).records = Nothing
        BY TaskIs DEF Kinds
    <2> QED BY <1>1, <2>1 DEF Tasks
<1>4. /\ fill \in Tasks /\ fill.do = (IF split THEN "misses" ELSE "fill") /\ fill.layer = l
      /\ fill.rows = R /\ fill.base = Base(b) /\ fill.awaits = Release(b) /\ fill.records = Ready(b)
    <2> DEFINE do == IF split THEN "misses" ELSE "fill"
    <2>1. do \in Kinds
        BY DEF Kinds
    <2> HIDE DEF do
    <2>2. Task(do, l) \in Tasks /\ Task(do, l).do = do /\ Task(do, l).layer = l
        BY <2>1, TaskIs
    <2>3. Release(b) \in Events /\ Ready(b) \in Events
        BY <1>1, EventsAre
    <2> DEFINE f == [Task(do, l) EXCEPT !.rows = R, !.base = Base(b), !.awaits = Release(b), !.records = Ready(b)]
    <2>4. /\ f \in Tasks /\ f.do = do /\ f.layer = l
          /\ f.rows = R /\ f.base = Base(b) /\ f.awaits = Release(b) /\ f.records = Ready(b)
        BY <1>1, <2>2, <2>3 DEF Tasks
    <2> QED BY <2>4 DEF do
<1> DEFINE g == Sent(c, "compute", gather)
           t == Sent(c1, "copy", fill)
<1> HIDE DEF gather, fill
<1>5. split => /\ c1 \in Caches /\ g \in Tasks /\ Kernels(c1) = Append(Kernels(c), g) /\ Copies(c1) = Copies(c)
               /\ c1.holds = c.holds /\ c1.released = c.released /\ c1.failed = c.failed
               /\ g.do = "gather" /\ g.layer = l /\ KernelShape(Plan, g)
    <2> HAVE split
    <2>1. /\ g \in Tasks /\ c1 \in Caches /\ Kernels(c1) = Append(Kernels(c), g) /\ Copies(c1) = Copies(c)
          /\ c1.holds = c.holds /\ c1.released = c.released /\ c1.failed = c.failed
          /\ \A f \in {"do", "layer", "rows", "base", "awaits", "records"} : g[f] = gather[f]
          /\ g.ahead = Pending(c.stream[Other("compute")], gather.awaits)
        BY <1>3, SendIs
    <2>2. /\ g.do = "gather" /\ g.layer = l /\ g.base = Base(b) /\ g.awaits = Nothing /\ g.records = Nothing
          /\ g.ahead = 0
        BY <1>3, <2>1 DEF Pending
    <2>3. l \in Plan.layers /\ Plan.overlap
        BY PlanIs
    <2> HIDE DEF g
    <2>4. KernelShape(Plan, g)
        BY <2>2, <2>3 DEF KernelShape, Inert
    <2> QED BY <2>1, <2>2, <2>4
<1>6. ~split => c1 = c
    OBVIOUS
<1>7. c1 \in Caches /\ c1.holds = c.holds /\ c1.released = c.released /\ c1.failed = c.failed /\ Copies(c1) = Copies(c)
    BY <1>5, <1>6
<1> HIDE DEF c1
<1>8. /\ t \in Tasks /\ c2 \in Caches /\ Copies(c2) = Append(Copies(c1), t) /\ Kernels(c2) = Kernels(c1)
      /\ c2.holds = c1.holds /\ c2.released = c1.released /\ c2.failed = c1.failed
      /\ \A f \in {"do", "layer", "rows", "base", "awaits", "records"} : t[f] = fill[f]
      /\ t.ahead = Pending(c1.stream[Other("copy")], fill.awaits)
    BY <1>4, <1>7, SendIs
<1>9. ShapeInv(Plan, c1) /\ Total(Kernels(c1), Release(b)) = Total(Kernels(c), Release(b))
    <2>1. CASE split
        <3> DEFINE n == Len(Kernels(c))
        <3>1. Kernels(c1) = Append(Kernels(c), g) /\ g \in Tasks /\ g.do = "gather" /\ KernelShape(Plan, g)
            BY <1>5, <2>1
        <3> HIDE DEF g
        <3>2. n \in Nat /\ Len(Kernels(c1)) = n + 1 /\ Kernels(c1)[n + 1] = g
              /\ \A i \in 1..n : Kernels(c1)[i] = Kernels(c)[i]
            BY <1>7, <3>1, KernelSent
        <3>3. \A i \in 1..Len(Kernels(c1)) : i \in 1..n \/ i = n + 1
            BY <3>2
        <3> HIDE DEF n
        <3>4. ShapeInv(Plan, c1)
            BY <1>7, <3>1, <3>2, <3>3 DEF ShapeInv, n
        <3>5. Event(g) # Release(b)
            BY <3>1 DEF KernelShape, Inert, Event, Nothing, Release
        <3>6. Kernels(c) \in Seq(Tasks) /\ Total(Kernels(c), Release(b)) \in Nat
            BY <1>1, StreamTypes, LoanTypes
        <3>7. Total(Kernels(c1), Release(b)) = Total(Kernels(c), Release(b)) + (IF Event(g) = Release(b) THEN 1 ELSE 0)
            BY <3>1, <3>6, CountAppend
        <3> QED BY <3>4, <3>5, <3>6, <3>7
    <2>2. CASE ~split
        BY <1>6, <2>2
    <2> QED BY <2>1, <2>2
<1>10. t.ahead = Total(Kernels(c), Release(b))
    <2>1. Other("copy") = "compute" /\ fill.awaits = Release(b)
        BY <1>4 DEF Other
    <2>2. Pending(Kernels(c1), Release(b)) = Total(Kernels(c1), Release(b))
        BY <1>1, <1>7, <1>9, PendingIs
    <2> QED BY <1>8, <1>9, <2>1, <2>2 DEF Kernels
<1>11. /\ t.do = (IF split THEN "misses" ELSE "fill") /\ t.layer = l /\ t.rows = R /\ t.base = Base(b)
       /\ t.awaits = Release(b) /\ t.records = Ready(b)
    BY <1>4, <1>8
<1> HIDE DEF t, c2
<1>12. CopyShape(Plan, t)
    BY <1>11, PlanIs DEF CopyShape
<1>13. /\ d \in Caches /\ d.failed = c.failed /\ Kernels(d) = Kernels(c1) /\ Copies(d) = Append(Copies(c), t)
       /\ d.holds[b] = l /\ ~d.released[b]
       /\ \A q \in Buffer : q # b => d.released[q] = c.released[q] /\ d.holds[q] = c.holds[q]
    <2>1. d \in Caches /\ d.failed = c2.failed /\ d.stream = c2.stream
        BY <1>1, <1>8 DEF Caches
    <2>2. /\ d.holds[b] = l /\ ~d.released[b]
          /\ \A q \in Buffer : q # b => d.released[q] = c2.released[q] /\ d.holds[q] = c2.holds[q]
        BY <1>1, <1>8 DEF Caches
    <2> HIDE DEF d
    <2> QED BY <1>7, <1>8, <2>1, <2>2 DEF Kernels, Copies
<1> HIDE DEF d
<1>14. IF l \in Plan.layers
       THEN \E k \in Tasks : /\ k.do = "gather" /\ k.layer = l /\ KernelShape(Plan, k)
                             /\ Kernels(d) = Append(Kernels(c), k)
       ELSE Kernels(d) = Kernels(c)
    BY <1>5, <1>6, <1>13, PlanIs
<1>15. \E k \in Tasks : /\ k.do \in {"fill", "misses"} /\ k.layer = l /\ k.rows = R
                        /\ CopyShape(Plan, k) /\ k.ahead = Total(Kernels(c), Release(b))
                        /\ Copies(d) = Append(Copies(c), k)
    BY <1>8, <1>10, <1>11, <1>12, <1>13
<1> QED BY <1>2, <1>13, <1>14, <1>15 DEF Lent

Took(c, d, R, v, l) ==
    /\ Sound(d, R, v) /\ ~d.released[BufferOf(l)] /\ d.holds[BufferOf(l)] = l
    /\ \A q \in Buffer : q # BufferOf(l) => d.released[q] = c.released[q] /\ d.holds[q] = c.holds[q]

LEMMA PrefetchSound ==
    ASSUME NEW c, NEW v, NEW l \in Layer, NEW R \in SUBSET Expert, overlap, Sound(c, R, v),
           c.released[BufferOf(l)], c.holds[BufferOf(l)] # l
    PROVE  Took(c, Prefetch(c, l, R), R, v, l)
<1> DEFINE d == Prefetch(c, l, R)
<1>1. c \in Caches /\ ~c.failed /\ StreamInv(Plan, c, R) /\ PoolInv(Plan, c, R, v) /\ Fenced(Plan, c)
    BY DEF Sound
<1>2. ShapeInv(Plan, c) /\ HeldInv(c)
    BY <1>1 DEF StreamInv
<1>3. d \in Caches /\ ~d.failed /\ Lent(Plan, R, c, d, l)
    BY <1>1, <1>2, PrefetchIs
<1> HIDE DEF d
<1>4. StreamInv(Plan, d, R) /\ Fenced(Plan, d)
    BY <1>1, <1>3, LentStream
<1>5. PoolInv(Plan, d, R, v)
    BY <1>1, <1>2, <1>3, LentPool
<1>6. NoSnapshot(d)
    <2>1. CopiesLent(Plan, R, c, d, l)
        BY <1>1, <1>3, LentCopies
    <2> QED BY <2>1 DEF CopiesLent, NoSnapshot, Sound
<1>7. /\ ~d.released[BufferOf(l)] /\ d.holds[BufferOf(l)] = l
      /\ \A q \in Buffer : q # BufferOf(l) => d.released[q] = c.released[q] /\ d.holds[q] = c.holds[q]
    BY <1>3 DEF Lent
<1> QED BY <1>3, <1>4, <1>5, <1>6, <1>7 DEF Sound, Took, d

LEMMA ComputedSound ==
    ASSUME NEW c, NEW v, NEW l \in Layer, NEW R \in SUBSET Expert, overlap, Sound(c, R, v),
           ~c.released[BufferOf(l)], c.holds[BufferOf(l)] = l
    PROVE  LET d == Computed(c, l, R)
           IN  /\ Sound(d, R, v) /\ d.released[BufferOf(l)] /\ d.holds = c.holds
               /\ \A q \in Buffer : q # BufferOf(l) => d.released[q] = c.released[q]
<1> DEFINE b == BufferOf(l)
           dense == [Task("dense", l) EXCEPT
                        !.rows = R, !.base = Base(b), !.awaits = Ready(b), !.records = Release(b)]
           c1 == Send(c, "compute", dense)
           t == Sent(c, "compute", dense)
           d == Computed(c, l, R)
<1>1. c \in Caches /\ ~c.failed /\ StreamInv(Plan, c, R) /\ PoolInv(Plan, c, R, v) /\ Fenced(Plan, c)
    BY DEF Sound
<1>2. ShapeInv(Plan, c) /\ HeldInv(c) /\ Plan.overlap
    BY <1>1, PlanIs DEF StreamInv
<1>3. b \in Buffer /\ Base(b) \in Int
    <2>1. l \in Int
        BY DEF Layer
    <2>2. b \in Buffer
        BY <2>1, Geometry
    <2>3. \A q \in Buffer : Base(q) \in Int
        BY Geometry DEF Buffer
    <2> QED BY <2>2, <2>3
<1>4. /\ dense \in Tasks /\ dense.do = "dense" /\ dense.layer = l /\ dense.rows = R /\ dense.base = Base(b)
      /\ dense.awaits = Ready(b) /\ dense.records = Release(b)
    <2>1. Task("dense", l) \in Tasks /\ Task("dense", l).do = "dense" /\ Task("dense", l).layer = l
        BY TaskIs DEF Kinds
    <2>2. Release(b) \in Events /\ Ready(b) \in Events
        BY <1>3, EventsAre
    <2> QED BY <1>3, <2>1, <2>2 DEF Tasks
<1>5. d = [c1 EXCEPT !.released[b] = TRUE]
    BY <1>1 DEF Computed
<1> HIDE DEF dense, d
<1>6. /\ t \in Tasks /\ c1 \in Caches /\ Kernels(c1) = Append(Kernels(c), t) /\ Copies(c1) = Copies(c)
      /\ c1.holds = c.holds /\ c1.released = c.released /\ c1.failed = c.failed
      /\ \A f \in {"do", "layer", "rows", "base", "awaits", "records"} : t[f] = dense[f]
      /\ t.ahead = Pending(c.stream[Other("compute")], dense.awaits)
    BY <1>1, <1>4, SendIs
<1>7. t.ahead = Total(Copies(c), Ready(b))
    <2>1. Other("compute") = "copy"
        BY DEF Other
    <2>2. Pending(Copies(c), Ready(b)) = Total(Copies(c), Ready(b))
        BY <1>1, <1>2, <1>3, PendingIs
    <2> QED BY <1>4, <1>6, <2>1, <2>2 DEF Copies
<1>8. /\ t.do = "dense" /\ t.layer = l /\ t.rows = R /\ t.base = Base(b)
      /\ t.awaits = Ready(b) /\ t.records = Release(b)
    BY <1>4, <1>6
<1> HIDE DEF t, c1
<1>9. KernelShape(Plan, t)
    BY <1>2, <1>8 DEF KernelShape
<1>10. /\ d \in Caches /\ d.failed = c.failed /\ d.holds = c.holds /\ d.released[b]
       /\ Kernels(d) = Append(Kernels(c), t) /\ Copies(d) = Copies(c)
       /\ \A q \in Buffer : q # b => d.released[q] = c.released[q]
    <2>1. /\ d \in Caches /\ d.failed = c1.failed /\ d.holds = c1.holds /\ d.stream = c1.stream
        BY <1>3, <1>5, <1>6 DEF Caches
    <2>2. d.released[b] /\ \A q \in Buffer : q # b => d.released[q] = c1.released[q]
        BY <1>3, <1>5, <1>6 DEF Caches
    <2> QED BY <1>6, <2>1, <2>2 DEF Kernels, Copies
<1>11. Ended(Plan, R, c, d, l)
    BY <1>6, <1>7, <1>8, <1>9, <1>10 DEF Ended
<1>12. StreamInv(Plan, d, R) /\ Fenced(Plan, d)
    BY <1>1, <1>2, <1>10, <1>11, EndedStream
<1>13. PoolInv(Plan, d, R, v)
    BY <1>1, <1>2, <1>10, <1>11, EndedPool
<1>14. NoSnapshot(d)
    BY <1>10 DEF NoSnapshot, Sound
<1>15. d \in Caches /\ ~d.failed
    BY <1>1, <1>10
<1>16. Sound(d, R, v)
    BY <1>12, <1>13, <1>14, <1>15 DEF Sound
<1> QED BY <1>10, <1>16 DEF d

\* One layer streamed: its buffer is released again, the next layer's may be out.
LEMMA StreamedSound ==
    ASSUME NEW c, NEW v, NEW l \in Layer, NEW R \in SUBSET Expert, overlap, Sound(c, R, v),
           variant.movement # "sparse" => R = Expert,
           \A q \in Buffer : ~c.released[q] => BufferOf(l) = q /\ c.holds[q] = l,
           \A q \in Buffer : c.released[q] => c.holds[q] < l
    PROVE  LET d == Streamed(c, l, R)
           IN  /\ Sound(d, R, v)
               /\ \A q \in Buffer : d.released[q] => d.holds[q] < l + 1
               /\ \A q \in Buffer : ~d.released[q] =>
                     /\ variant.movement # "sparse" /\ l + 1 \in Layer
                     /\ BufferOf(l + 1) = q /\ d.holds[q] = l + 1
<1> DEFINE b == BufferOf(l)
           a == BufferOf(l + 1)
           eager == variant.unpinned = {} /\ variant.movement # "sparse"
           late == variant.unpinned # {} /\ variant.movement # "sparse"
           c1 == Prefetch(c, l, R)
           c2 == IF eager THEN Prefetch(c1, l + 1, Expert) ELSE c1
           c3 == Computed(c2, l, R)
           d == IF late THEN Prefetch(c3, l + 1, Expert) ELSE c3
<1>0. Streamed(c, l, R) = d
    BY DEF Streamed
<1>1. l \in Int /\ b \in Buffer /\ a \in Buffer /\ a # b /\ \A q \in Buffer : q = a \/ q = b
    <2>1. l \in Int /\ l + 1 \in Int
        BY DEF Layer
    <2>2. b \in Buffer /\ a \in Buffer /\ a # b
        BY <2>1, Geometry
    <2> QED BY <2>1, <2>2 DEF Buffer
<1>2. l + 1 >= NumLayers <=> l + 1 \notin Layer
    BY <1>1, Geometry DEF Layer
<1>3. c \in Caches /\ \A q \in Buffer : c.holds[q] \in Int /\ c.released[q] \in BOOLEAN
    BY StreamTypes DEF Sound
<1>4. c.released[a] /\ c.holds[a] < l /\ c.holds[a] # l + 1
    BY <1>1, <1>3
<1>5. /\ Sound(c1, R, v) /\ ~c1.released[b] /\ c1.holds[b] = l
      /\ c1.released[a] /\ c1.holds[a] = c.holds[a]
    <2>1. CASE c.released[b]
        <3>1. c.holds[b] # l
            BY <1>1, <1>3, <2>1
        <3>2. Took(c, Prefetch(c, l, R), R, v, l)
            BY <2>1, <3>1, PrefetchSound
        <3> QED BY <1>1, <1>4, <3>2 DEF Took
    <2>2. CASE ~c.released[b]
        <3>1. c.holds[b] = l
            BY <1>1, <2>2
        <3>2. c1 = c
            BY <3>1 DEF Prefetch
        <3> QED BY <1>4, <2>2, <3>1, <3>2
    <2> QED BY <2>1, <2>2
<1> HIDE DEF c1
\* Prefetching the next layer, its buffer free.
<1>6. ASSUME NEW e, Sound(e, R, v), e.released[a], e.holds[a] = c.holds[a], R = Expert
      PROVE  LET f == Prefetch(e, l + 1, Expert)
             IN  /\ Sound(f, R, v) /\ f.released[b] = e.released[b] /\ f.holds[b] = e.holds[b]
                 /\ \/ f.released[a] /\ f.holds[a] = c.holds[a]
                    \/ l + 1 \in Layer /\ ~f.released[a] /\ f.holds[a] = l + 1
    <2>1. CASE l + 1 \in Layer
        <3> DEFINE k == l + 1
        <3> HIDE DEF k
        <3>1. k \in Layer /\ BufferOf(k) = a /\ e.holds[a] # k /\ Expert \in SUBSET Expert
            BY <1>4, <1>6, <2>1 DEF k
        <3>2. Sound(e, Expert, v) /\ e.released[BufferOf(k)] /\ e.holds[BufferOf(k)] # k
            BY <1>6, <3>1
        <3>3. Took(e, Prefetch(e, k, Expert), Expert, v, k)
            BY <3>1, <3>2, PrefetchSound
        <3>4. Took(e, Prefetch(e, k, Expert), R, v, k) /\ k = l + 1
            BY <1>6, <3>3 DEF k
        <3> QED BY <1>1, <2>1, <3>1, <3>4 DEF Took
    <2>2. CASE l + 1 \notin Layer
        <3>1. Prefetch(e, l + 1, Expert) = e
            BY <1>2, <2>2 DEF Prefetch
        <3> QED BY <1>6, <3>1
    <2> QED BY <2>1, <2>2
<1>7. /\ Sound(c2, R, v) /\ ~c2.released[b] /\ c2.holds[b] = l
      /\ \/ c2.released[a] /\ c2.holds[a] = c.holds[a]
         \/ eager /\ l + 1 \in Layer /\ ~c2.released[a] /\ c2.holds[a] = l + 1
    <2>1. CASE eager
        <3>1. R = Expert
            BY <2>1
        <3> QED BY <1>5, <1>6, <2>1, <3>1
    <2>2. CASE ~eager
        BY <1>5, <2>2
    <2> QED BY <2>1, <2>2
<1> HIDE DEF c2
<1>8. /\ Sound(c3, R, v) /\ c3.released[b] /\ c3.holds[b] = l
      /\ c3.released[a] = c2.released[a] /\ c3.holds[a] = c2.holds[a]
    <2>1. /\ Sound(c3, R, v) /\ c3.released[b] /\ c3.holds = c2.holds
          /\ \A q \in Buffer : q # b => c3.released[q] = c2.released[q]
        BY <1>7, ComputedSound
    <2> QED BY <1>1, <1>7, <2>1
<1> HIDE DEF c3
<1>9. /\ Sound(d, R, v) /\ d.released[b] /\ d.holds[b] = l
      /\ \/ d.released[a] /\ d.holds[a] = c.holds[a]
         \/ variant.movement # "sparse" /\ l + 1 \in Layer /\ ~d.released[a] /\ d.holds[a] = l + 1
    <2>1. CASE late
        <3>1. R = Expert /\ ~eager
            BY <2>1
        <3>2. c3.released[a] /\ c3.holds[a] = c.holds[a]
            BY <1>7, <1>8, <3>1
        <3>3. d = Prefetch(c3, l + 1, Expert)
            BY <2>1
        <3> HIDE DEF d
        <3> QED BY <1>6, <1>8, <2>1, <3>1, <3>2, <3>3
    <2>2. CASE ~late
        BY <1>7, <1>8, <2>2
    <2> QED BY <2>1, <2>2
<1> HIDE DEF d
<1>10. \A q \in Buffer : d.released[q] => d.holds[q] < l + 1
    <2>1. d.holds[b] = l /\ (d.released[a] => d.holds[a] = c.holds[a])
        BY <1>9
    <2>2. l < l + 1 /\ c.holds[a] < l + 1
        BY <1>1, <1>3, <1>4
    <2> QED BY <1>1, <2>1, <2>2
<1>11. \A q \in Buffer : ~d.released[q] =>
                     /\ variant.movement # "sparse" /\ l + 1 \in Layer
                     /\ a = q /\ d.holds[q] = l + 1
    BY <1>1, <1>9
<1> QED BY <1>0, <1>9, <1>10, <1>11

-----------------------------------------------------------------------------
(***************************************************************************)
(* What the host enqueues keeps the streams and the pool fit.              *)
(***************************************************************************)
Well(c, v) == c \in Caches /\ ~c.failed /\ StreamInv(Plan, c, Expert) /\ PoolInv(Plan, c, Expert, v)

\* c is d but for what is queued, and no loan changes.
Steady(c, d) ==
    /\ d.holds = c.holds /\ d.released = c.released
    /\ \A b \in Buffer : Loans(d, b) = Loans(c, b)

LEMMA MarkWell ==
    ASSUME NEW c, NEW v, Well(c, v), overlap
    PROVE  LET d == Send(c, "compute", [Task("mark", 0) EXCEPT !.records = Begin])
           IN  /\ Well(d, v) /\ Steady(c, d)
               /\ \A i \in 1..Len(Kernels(d)) :
                     IsLoad(Kernels(d)[i]) => Begins(d, i) < Total(Kernels(d), Begin)
<1> DEFINE mark == [Task("mark", 0) EXCEPT !.records = Begin]
           d == Send(c, "compute", mark)
           t == Sent(c, "compute", mark)
           n == Len(Kernels(c))
<1>1. c \in Caches /\ ~c.failed /\ StreamInv(Plan, c, Expert) /\ PoolInv(Plan, c, Expert, v) /\ Plan.overlap
    BY PlanIs DEF Well
<1>2. mark \in Tasks /\ mark.do = "mark" /\ mark.awaits = Nothing /\ mark.records = Begin
    <2>1. 0 \in Layer
        BY Geometry DEF Layer
    <2>2. Task("mark", 0) \in Tasks /\ Task("mark", 0).do = "mark" /\ Task("mark", 0).awaits = Nothing
        BY <2>1, TaskIs DEF Kinds
    <2> QED BY <2>2, EventsAre DEF Tasks
<1> HIDE DEF mark
<1>3. /\ t \in Tasks /\ d \in Caches /\ Kernels(d) = Append(Kernels(c), t) /\ Copies(d) = Copies(c)
      /\ d.holds = c.holds /\ d.released = c.released /\ d.failed = c.failed
      /\ \A f \in {"do", "layer", "rows", "base", "awaits", "records"} : t[f] = mark[f]
      /\ t.ahead = Pending(c.stream[Other("compute")], mark.awaits)
    BY <1>1, <1>2, SendIs
<1>4. t.do = "mark" /\ t.awaits = Nothing /\ t.records = Begin /\ t.ahead = 0
    BY <1>2, <1>3 DEF Pending
<1> HIDE DEF d, t
<1>5. KernelShape(Plan, t) /\ ~IsLoad(t) /\ Event(t) = Begin /\ \A b \in Buffer : Event(t) # Release(b)
    <2>1. Event(t) = Begin
        BY <1>4, EventsDiffer DEF Event
    <2> QED BY <1>1, <1>4, <2>1, EventsDiffer DEF KernelShape, IsLoad
<1>6. StreamInv(Plan, d, Expert)
    BY <1>1, <1>3, <1>4, <1>5, KernelStream
<1>7. \A b \in Buffer : Loans(d, b) = Loans(c, b)
    BY <1>1, <1>3, <1>5, LoansStay
<1>8. PoolInv(Plan, d, Expert, v)
    BY <1>1, <1>3, <1>4, <1>5, KernelPool DEF StreamInv
<1>9. ASSUME NEW i \in 1..Len(Kernels(d)), IsLoad(Kernels(d)[i])
      PROVE  Begins(d, i) < Total(Kernels(d), Begin)
    <2>1. n \in Nat /\ Len(Kernels(d)) = n + 1 /\ Kernels(d)[n + 1] = t
        BY <1>1, <1>3, KernelSent
    <2>2. i # n + 1
        BY <1>5, <1>9, <2>1
    <2> HIDE DEF n
    <2>3. i \in Nat /\ n + 1 \in Nat /\ i < n + 1
        BY <2>1, <2>2
    <2>4. Count(Kernels(d), Begin, i) < Count(Kernels(d), Begin, n + 1)
        BY <1>5, <2>1, <2>3, CountMonotone
    <2> QED BY <2>1, <2>4 DEF Begins, Total
<1> QED BY <1>1, <1>3, <1>6, <1>7, <1>8, <1>9 DEF Well, Steady, d, mark

\* A mark or a snapshot behind the copies.
LEMMA CopyWell ==
    ASSUME NEW c, NEW v, NEW task \in Tasks, Well(c, v), overlap, task.do \in {"mark", "snapshot"},
           task.records = Nothing, task.awaits = (IF task.do = "mark" THEN Begin ELSE Nothing),
           task.do = "snapshot" => Splits /\ \A i \in 1..Len(Kernels(c)) : IsLoad(Kernels(c)[i]) =>
               \E k \in 1..Len(Copies(c)) : Fences(c, i, k)
    PROVE  LET d == Send(c, "copy", task)
           IN  /\ Well(d, v) /\ Steady(c, d) /\ Kernels(d) = Kernels(c)
               /\ Len(Copies(c)) \in Nat /\ Len(Copies(d)) = Len(Copies(c)) + 1
               /\ Copies(d)[Len(Copies(d))].do = task.do
               /\ task.do = "mark" => Copies(d)[Len(Copies(d))].ahead = Total(Kernels(c), Begin)
               /\ \A i, k : k \in 1..Len(Copies(c)) /\ Fences(c, i, k) => Fences(d, i, k)
<1> DEFINE d == Send(c, "copy", task)
           t == Sent(c, "copy", task)
<1>1. c \in Caches /\ ~c.failed /\ StreamInv(Plan, c, Expert) /\ PoolInv(Plan, c, Expert, v) /\ Plan.overlap
    BY PlanIs DEF Well
<1>2. /\ t \in Tasks /\ d \in Caches /\ Copies(d) = Append(Copies(c), t) /\ Kernels(d) = Kernels(c)
      /\ d.holds = c.holds /\ d.released = c.released /\ d.failed = c.failed
      /\ \A f \in {"do", "layer", "rows", "base", "awaits", "records"} : t[f] = task[f]
      /\ t.ahead = Pending(c.stream[Other("copy")], task.awaits)
    BY <1>1, SendIs
<1>3. t.do = task.do /\ t.awaits = task.awaits /\ t.records = Nothing
    BY <1>2
<1>4. task.do = "mark" => t.ahead = Total(Kernels(c), Begin)
    <2>1. ShapeInv(Plan, c) /\ Other("copy") = "compute"
        BY <1>1 DEF StreamInv, Other
    <2>2. Pending(Kernels(c), Begin) = Total(Kernels(c), Begin)
        BY <1>1, <2>1, PendingIs
    <2> QED BY <1>2, <2>1, <2>2 DEF Kernels
<1>5. task.do = "snapshot" => t.ahead = 0
    BY <1>2 DEF Pending
<1> HIDE DEF d, t
<1>6. CopyShape(Plan, t)
    BY <1>1, <1>3, <1>5, PlanIs DEF CopyShape, Inert
<1>7. /\ StreamInv(Plan, d, Expert)
      /\ \A b \in Buffer : /\ Loans(d, b) = Loans(c, b) /\ Held(d, b) = Held(c, b)
                           /\ Total(Copies(d), Ready(b)) = Total(Copies(c), Ready(b))
      /\ \A i, k : k \in 1..Len(Copies(c)) /\ Fences(c, i, k) => Fences(d, i, k)
    <2>1. t.do \in {"mark", "snapshot"}
          /\ (t.do = "snapshot" => \A i \in 1..Len(Kernels(c)) : IsLoad(Kernels(c)[i]) =>
                 \E k \in 1..Len(Copies(c)) : Fences(c, i, k))
        BY <1>3
    <2> QED BY <1>1, <1>2, <1>6, <2>1, CopyStream
<1>8. PoolInv(Plan, d, Expert, v)
    BY <1>1, <1>2, <1>7, CopyPool DEF StreamInv
<1>9. /\ Len(Copies(c)) \in Nat /\ Len(Copies(d)) = Len(Copies(c)) + 1 /\ Copies(d)[Len(Copies(d))] = t
    BY <1>1, <1>2, CopySent
<1> QED BY <1>1, <1>2, <1>3, <1>4, <1>7, <1>8, <1>9 DEF Well, Steady, d

LEMMA BegunFit ==
    ASSUME NEW c \in Caches, NEW v, NEW at, NEW was, overlap, Fit(Plan, c, was, v),
           ~was.begun, at.begun, at.kind = "prefill", at.layer = 0
    PROVE  Begun(c) \in Caches /\ Fit(Plan, Begun(c), at, v)
<1> DEFINE c1 == [c EXCEPT !.holds = NewCache.holds, !.released = NewCache.released]
           c2 == Send(c1, "compute", [Task("mark", 0) EXCEPT !.records = Begin])
           mark == [Task("mark", 0) EXCEPT !.awaits = Begin]
           c3 == Send(c2, "copy", mark)
           c4 == Send(c3, "copy", Task("snapshot", 0))
           d == IF Splits THEN c4 ELSE c3
<1>1. Begun(c) = d
    BY DEF Begun
<1>2. /\ c1 \in Caches /\ c1.stream = c.stream /\ c1.failed = c.failed
      /\ \A b \in Buffer : c1.holds[b] = None /\ c1.released[b]
    <2>1. /\ NewCache.holds \in [Buffer -> Int] /\ NewCache.released \in [Buffer -> BOOLEAN]
          /\ \A b \in Buffer : NewCache.holds[b] = None /\ NewCache.released[b]
        BY DEF NewCache, None
    <2>2. /\ c1 \in Caches /\ c1.stream = c.stream /\ c1.failed = c.failed
          /\ c1.holds = NewCache.holds /\ c1.released = NewCache.released
        BY <2>1 DEF Caches
    <2> QED BY <2>1, <2>2
<1>3. \A b \in Buffer : c.released[b] /\ c1.released[b]
    BY <1>2 DEF Fit, PassInv
<1> HIDE DEF c1
<1>4. Well(c1, v)
    <2>1. StreamInv(Plan, c1, Expert)
        BY <1>2, <1>3, UnlentStream DEF Fit
    <2>2. PoolInv(Plan, c1, Expert, v)
        BY <1>2, <1>3, UnlentPool DEF Fit
    <2> QED BY <1>2, <2>1, <2>2 DEF Well, Fit, PassInv
<1>5. \A b \in Buffer : Loans(c1, b) = Loans(c, b)
    <2>1. StreamInv(Plan, c, Expert) /\ c1.stream = c.stream
        BY <1>2 DEF Fit
    <2>2. \A b \in Buffer : /\ Loans(c1, b) = Loans(c, b) /\ Held(c1, b) = Held(c, b)
                             /\ \A m, k, r : Loan(c1, Expert, b, m, k, r) <=> Loan(c, Expert, b, m, k, r)
        BY <1>3, <2>1, UnlentStream
    <2> QED BY <2>2
<1>6. /\ Well(c2, v) /\ Steady(c1, c2)
      /\ \A i \in 1..Len(Kernels(c2)) : IsLoad(Kernels(c2)[i]) => Begins(c2, i) < Total(Kernels(c2), Begin)
    BY <1>4, MarkWell
<1> HIDE DEF c2
<1>7. mark \in Tasks /\ mark.do = "mark" /\ mark.awaits = Begin /\ mark.records = Nothing
    <2>1. 0 \in Layer
        BY Geometry DEF Layer
    <2>2. Task("mark", 0) \in Tasks /\ Task("mark", 0).do = "mark" /\ Task("mark", 0).records = Nothing
        BY <2>1, TaskIs DEF Kinds
    <2> QED BY <2>2, EventsAre DEF Tasks
<1> HIDE DEF mark
<1>8. /\ Well(c3, v) /\ Steady(c2, c3) /\ Kernels(c3) = Kernels(c2)
      /\ Len(Copies(c2)) \in Nat /\ Len(Copies(c3)) = Len(Copies(c2)) + 1
      /\ Copies(c3)[Len(Copies(c3))].do = "mark"
      /\ Copies(c3)[Len(Copies(c3))].ahead = Total(Kernels(c2), Begin)
    BY <1>6, <1>7, CopyWell
<1> HIDE DEF c3
<1>9. \A i \in 1..Len(Kernels(c3)) : IsLoad(Kernels(c3)[i]) =>
          Len(Copies(c3)) \in 1..Len(Copies(c3)) /\ Fences(c3, i, Len(Copies(c3)))
    <2> TAKE i \in 1..Len(Kernels(c3))
    <2> HAVE IsLoad(Kernels(c3)[i])
    <2>1. Begins(c3, i) < Total(Kernels(c2), Begin)
        BY <1>6, <1>8 DEF Begins
    <2>2. Begins(c3, i) \in Int /\ Total(Kernels(c2), Begin) \in Int
        <3>1. i \in Int
            OBVIOUS
        <3>2. Len(Kernels(c2)) \in Int
            BY <1>6, StreamTypes DEF Well
        <3>3. Count(Kernels(c3), Begin, i) \in Nat /\ Count(Kernels(c2), Begin, Len(Kernels(c2))) \in Nat
            BY <3>1, <3>2, CountNat
        <3> QED BY <3>3 DEF Begins, Total
    <2> QED BY <1>8, <2>1, <2>2 DEF Fences
<1>10. Splits => /\ Well(c4, v) /\ Steady(c3, c4) /\ Kernels(c4) = Kernels(c3)
                 /\ Len(Copies(c4)) = Len(Copies(c3)) + 1 /\ Copies(c4)[Len(Copies(c4))].do = "snapshot"
                 /\ \A i, k : k \in 1..Len(Copies(c3)) /\ Fences(c3, i, k) => Fences(c4, i, k)
    <2> HAVE Splits
    <2> DEFINE snapshot == Task("snapshot", 0)
    <2>1. /\ snapshot \in Tasks /\ snapshot.do = "snapshot"
          /\ snapshot.records = Nothing /\ snapshot.awaits = Nothing
        <3>1. 0 \in Layer
            BY Geometry DEF Layer
        <3> QED BY <3>1, TaskIs DEF Kinds
    <2>2. \A i \in 1..Len(Kernels(c3)) : IsLoad(Kernels(c3)[i]) =>
              \E k \in 1..Len(Copies(c3)) : Fences(c3, i, k)
        BY <1>9
    <2> HIDE DEF snapshot
    <2>3. LET e == Send(c3, "copy", snapshot)
          IN  /\ Well(e, v) /\ Steady(c3, e) /\ Kernels(e) = Kernels(c3)
              /\ Len(Copies(c3)) \in Nat /\ Len(Copies(e)) = Len(Copies(c3)) + 1
              /\ Copies(e)[Len(Copies(e))].do = snapshot.do
              /\ \A i, k : k \in 1..Len(Copies(c3)) /\ Fences(c3, i, k) => Fences(e, i, k)
        BY <1>8, <2>1, <2>2, CopyWell
    <2> QED BY <2>1, <2>3 DEF snapshot
<1> HIDE DEF c4
<1>11. Well(d, v) /\ \A b \in Buffer : Loans(d, b) = Loans(c, b) /\ d.released[b] /\ d.holds[b] = None
    <2>1. \A b \in Buffer : Loans(c3, b) = Loans(c, b) /\ c3.released[b] /\ c3.holds[b] = None
        BY <1>2, <1>5, <1>6, <1>8 DEF Steady
    <2> QED BY <1>8, <1>10, <2>1 DEF Steady
<1>12. Splits => Len(Copies(d)) \in 1..Len(Copies(d)) /\ Copies(d)[Len(Copies(d))].do = "snapshot"
    BY <1>8, <1>10
<1>13. \A i \in 1..Len(Kernels(d)) : IsLoad(Kernels(d)[i]) =>
           \E k \in 1..Len(Copies(d)) :
                /\ Fences(d, i, k)
                /\ Plan.splits => \E j \in (k + 1)..Len(Copies(d)) : Copies(d)[j].do = "snapshot"
    <2> TAKE i \in 1..Len(Kernels(d))
    <2> HAVE IsLoad(Kernels(d)[i])
    <2> DEFINE k == Len(Copies(c3))
    <2>1. Kernels(d) = Kernels(c3)
        BY <1>10
    <2>2. k \in 1..k /\ Fences(c3, i, k)
        BY <1>9, <2>1
    <2> HIDE DEF k
    <2>3. CASE Splits
        <3>1. Fences(d, i, k) /\ Len(Copies(d)) = k + 1
            BY <1>10, <2>2, <2>3 DEF k
        <3>2. k \in 1..Len(Copies(d)) /\ Len(Copies(d)) \in (k + 1)..Len(Copies(d))
            BY <1>8, <2>2, <3>1 DEF k
        <3> QED BY <1>12, <2>3, <3>1, <3>2
    <2>4. CASE ~Splits
        BY <2>2, <2>4, PlanIs DEF k
    <2> QED BY <2>3, <2>4
<1> HIDE DEF d
<1>14. PassInv(Plan, d, at)
    <2>1. ~d.failed /\ Plan.overlap /\ \A b \in Buffer : d.released[b] /\ d.holds[b] < at.layer
        BY <1>11, PlanIs DEF Well, None
    <2> QED BY <1>13, <2>1 DEF PassInv
<1>15. SnapInv(Plan, d, at, v)
    <2>1. Plan.splits => ~\A j \in 1..Len(Copies(d)) : Copies(d)[j].do # "snapshot"
        BY <1>12, PlanIs
    <2> QED BY <1>11, <2>1 DEF SnapInv, Fit
<1> QED BY <1>1, <1>11, <1>14, <1>15 DEF Fit, Well

LEMMA StreamedFit ==
    ASSUME NEW c \in Caches, NEW v, NEW at, NEW next, NEW l \in Layer, NEW rows \in SUBSET Expert, overlap,
           Fit(Plan, c, at, v), at.begun, at.layer = l, variant.movement # "sparse" => rows = Expert,
           Splits /\ l = 0 => Copies(c) = <<>>,
           next.begun, next.kind = at.kind, next.layer = l + 1
    PROVE  Streamed(c, l, rows) \in Caches /\ Fit(Plan, Streamed(c, l, rows), next, v)
<1> DEFINE d == Streamed(c, l, rows)
<1>1. StreamInv(Plan, c, Expert) /\ PassInv(Plan, c, at) /\ PoolInv(Plan, c, Expert, v) /\ SnapInv(Plan, c, at, v)
    BY DEF Fit
<1>2. NoSnapshot(c)
    <2>1. \A j \in 1..Len(Copies(c)) : Copies(c)[j].do = "snapshot" => Splits /\ l = 0
        BY <1>1, PlanIs DEF StreamInv, ShapeInv, CopyShape, PassInv
    <2> QED BY <2>1 DEF NoSnapshot
<1>3. Fenced(Plan, c)
    <2> SUFFICES ASSUME NEW i \in 1..Len(Kernels(c)), IsLoad(Kernels(c)[i])
                 PROVE  ~Plan.splits /\ \E k \in 1..Len(Copies(c)) : Fences(c, i, k)
        BY DEF Fenced
    <2>1. PICK k \in 1..Len(Copies(c)) : Fences(c, i, k)
        BY <1>1 DEF PassInv
    <2>2. Plan.splits => l = 0
        BY <1>1 DEF PassInv
    <2>3. ~Plan.splits
        BY <2>1, <2>2, PlanIs
    <2> QED BY <2>1, <2>3
<1>4. /\ at.kind = "prefill"
      /\ \A q \in Buffer : c.released[q] => c.holds[q] < l
      /\ \A q \in Buffer : ~c.released[q] =>
            /\ variant.movement # "sparse" /\ BufferOf(l) = q /\ c.holds[q] = l
    BY <1>1, PlanIs DEF PassInv
<1>5. Sound(c, rows, v)
    <2>1. StreamInv(Plan, c, rows) /\ PoolInv(Plan, c, rows, v)
        <3>1. CASE variant.movement = "sparse"
            <4>1. \A b \in Buffer : c.released[b] /\ c.released[b]
                BY <1>4, <3>1
            <4>2. StreamInv(Plan, c, rows)
                BY <1>1, <4>1, UnlentStream
            <4>3. PoolInv(Plan, c, rows, v)
                BY <1>1, <4>1, UnlentPool
            <4> QED BY <4>2, <4>3
        <3>2. CASE variant.movement # "sparse"
            BY <1>1, <3>2
        <3> QED BY <3>1, <3>2
    <2> QED BY <1>1, <1>2, <1>3, <2>1 DEF Sound, PassInv
<1>6. /\ Sound(d, rows, v)
      /\ \A q \in Buffer : d.released[q] => d.holds[q] < l + 1
      /\ \A q \in Buffer : ~d.released[q] =>
            /\ variant.movement # "sparse" /\ l + 1 \in Layer
            /\ BufferOf(l + 1) = q /\ d.holds[q] = l + 1
    BY ZenonT(60), <1>4, <1>5, StreamedSound
<1> HIDE DEF d
<1>7. d \in Caches /\ ~d.failed /\ NoSnapshot(d) /\ Fenced(Plan, d)
    BY <1>6 DEF Sound
<1>8. StreamInv(Plan, d, Expert) /\ PoolInv(Plan, d, Expert, v)
    <2>1. CASE variant.movement = "sparse"
        <3>1. \A b \in Buffer : d.released[b] /\ d.released[b]
            BY <1>6, <2>1
        <3>2. StreamInv(Plan, d, rows) /\ PoolInv(Plan, d, rows, v)
            BY <1>6 DEF Sound
        <3>3. StreamInv(Plan, d, Expert)
            BY <3>1, <3>2, UnlentStream
        <3>4. PoolInv(Plan, d, Expert, v)
            BY <3>1, <3>2, UnlentPool
        <3> QED BY <3>3, <3>4
    <2>2. CASE variant.movement # "sparse"
        BY <1>6, <2>2 DEF Sound
    <2> QED BY <2>1, <2>2
<1>9. PassInv(Plan, d, next)
    <2>1. l \in Nat /\ (l + 1 \in Layer => next.layer \in 1..(NumLayers - 1))
        BY Geometry DEF Layer
    <2>2. \A b \in Buffer :
              \/ d.released[b]
              \/ /\ ~Plan.sparse /\ next.layer \in 1..(NumLayers - 1)
                 /\ BufferOf(next.layer) = b /\ d.holds[b] = next.layer
        BY <1>6, <2>1, PlanIs
    <2>3. \A b \in Buffer : d.released[b] => d.holds[b] < next.layer
        BY <1>6
    <2>4. next.kind = "prefill" /\ Plan.overlap
        BY <1>4, PlanIs
    <2>5. \A i \in 1..Len(Kernels(d)) : IsLoad(Kernels(d)[i]) =>
              /\ ~Plan.splits /\ \E k \in 1..Len(Copies(d)) : Fences(d, i, k)
        BY <1>7 DEF Fenced
    <2> QED BY <1>7, <2>2, <2>3, <2>4, <2>5 DEF PassInv, NoSnapshot
<1>10. SnapInv(Plan, d, next, v)
    <2>1. Plan.splits => Agree(v)
        BY <1>1, <1>2 DEF SnapInv, NoSnapshot
    <2> QED BY <2>1 DEF SnapInv
<1> QED BY <1>7, <1>8, <1>9, <1>10 DEF Fit, d

\* Outside of an overlapped prefill.
LEMMA UnbegunFit ==
    ASSUME NEW c, NEW d, NEW v, NEW at, NEW next, Fit(Plan, c, at, v),
           StreamInv(Plan, d, Expert), PoolInv(Plan, d, Expert, v),
           d.released = c.released, d.failed = c.failed, Copies(d) = Copies(c),
           \A b \in Buffer : Loans(d, b) = Loans(c, b),
           NoSnapshot(c), \A b \in Buffer : c.released[b],
           ~next.begun, ~(next.kind = "prefill" /\ overlap /\ next.layer > 0)
    PROVE  Fit(Plan, d, next, v)
<1>1. PassInv(Plan, d, next)
    BY PlanIs DEF Fit, PassInv, NoSnapshot
<1>2. SnapInv(Plan, d, next, v)
    BY DEF Fit, SnapInv
<1> QED BY <1>1, <1>2 DEF Fit

\* A layer moved whole, without overlap, or loaded on demand.
LEMMA PairFit ==
    ASSUME NEW c \in Caches, NEW v, NEW at, NEW next, NEW l \in Layer, Fit(Plan, c, at, v), ~at.begun,
           ~next.begun, ~(next.kind = "prefill" /\ overlap /\ next.layer > 0)
    PROVE  /\ ~overlap => Materialized(c, l) \in Caches /\ Fit(Plan, Materialized(c, l), next, v)
           /\ OnDemand(c, l) \in Caches /\ Fit(Plan, OnDemand(c, l), next, v)
<1>1. StreamInv(Plan, c, Expert) /\ PoolInv(Plan, c, Expert, v) /\ NoSnapshot(c) /\ \A b \in Buffer : c.released[b]
    BY DEF Fit, PassInv, NoSnapshot
<1>2. ASSUME NEW first \in {"load", "materialize"}, NEW second \in {"gemm", "dense"},
             first = "load" <=> second = "gemm", first = "materialize" => ~overlap
      PROVE  LET d == Send(Send(c, "compute", Task(first, l)), "compute", Task(second, l))
             IN  d \in Caches /\ Fit(Plan, d, next, v)
    <2> DEFINE c1 == Send(c, "compute", Task(first, l))
               d == Send(c1, "compute", Task(second, l))
    <2>1. Queued(c, c1, Expert, v, first, l)
        <3>1. first \in {"load", "gemm", "materialize", "done", "dense"}
              /\ (first \in {"materialize", "dense"} => ~Plan.overlap)
            BY <1>2, PlanIs
        <3>2. first \in {"load", "gemm"} => NoSnapshot(c) /\ \A b \in Buffer : c.released[b]
            BY <1>1
        <3>3. first \in {"gemm", "dense"} =>
                  /\ Kernels(c) # <<>> /\ Kernels(c)[Len(Kernels(c))].layer = l
                  /\ Kernels(c)[Len(Kernels(c))].do = IF first = "gemm" THEN "load" ELSE "materialize"
            OBVIOUS
        <3> QED BY <1>1, <3>1, <3>2, <3>3, SendKernel
    <2> HIDE DEF c1
    <2>2. Queued(c1, d, Expert, v, second, l)
        <3>1. second \in {"load", "gemm", "materialize", "done", "dense"}
              /\ (second \in {"materialize", "dense"} => ~Plan.overlap)
            BY <1>2, PlanIs
        <3>2. second \in {"load", "gemm"} => NoSnapshot(c1) /\ \A b \in Buffer : c1.released[b]
            BY <1>1, <2>1 DEF NoSnapshot, Queued
        <3>3. second \in {"gemm", "dense"} =>
                  /\ Kernels(c1) # <<>> /\ Kernels(c1)[Len(Kernels(c1))].layer = l
                  /\ Kernels(c1)[Len(Kernels(c1))].do = IF second = "gemm" THEN "load" ELSE "materialize"
            BY <1>2, <2>1 DEF Queued
        <3>4. c1 \in Caches /\ StreamInv(Plan, c1, Expert) /\ PoolInv(Plan, c1, Expert, v)
            BY <2>1 DEF Queued
        <3> QED BY <3>1, <3>2, <3>3, <3>4, SendKernel
    <2> HIDE DEF d
    <2>3. Fit(Plan, d, next, v)
        <3>1. /\ d.released = c.released /\ d.failed = c.failed /\ Copies(d) = Copies(c)
              /\ \A b \in Buffer : Loans(d, b) = Loans(c, b)
              /\ StreamInv(Plan, d, Expert) /\ PoolInv(Plan, d, Expert, v) /\ d \in Caches
            BY <2>1, <2>2 DEF Queued
        <3> QED BY <1>1, <3>1, UnbegunFit
    <2> QED BY <2>2, <2>3 DEF Queued, d, c1
<1>3. ~overlap => Materialized(c, l) \in Caches /\ Fit(Plan, Materialized(c, l), next, v)
    BY <1>2 DEF Materialized
<1>4. OnDemand(c, l) \in Caches /\ Fit(Plan, OnDemand(c, l), next, v)
    BY <1>2 DEF OnDemand
<1> QED BY <1>3, <1>4

LEMMA FinishFit ==
    ASSUME NEW c \in Caches, NEW v, NEW at, Fit(Plan, c, at, v), at.layer = NumLayers
    PROVE  LET d == Send(c, "compute", Task("done", 0)) IN d \in Caches /\ Fit(Plan, d, Idle, v)
<1> DEFINE d == Send(c, "compute", Task("done", 0))
<1>1. /\ StreamInv(Plan, c, Expert) /\ PoolInv(Plan, c, Expert, v) /\ NoSnapshot(c)
      /\ \A b \in Buffer : c.released[b]
    <2>1. NumLayers \notin 1..(NumLayers - 1) /\ NumLayers # 0
        BY Geometry
    <2> QED BY <2>1 DEF Fit, PassInv, NoSnapshot
<1>2. 0 \in Layer
    BY Geometry DEF Layer
<1>3. Queued(c, d, Expert, v, "done", 0)
    BY <1>1, <1>2, SendKernel
<1> HIDE DEF d
<1>4. ~Idle.begun /\ ~(Idle.kind = "prefill" /\ overlap /\ Idle.layer > 0)
    BY DEF Idle
<1>5. Fit(Plan, d, Idle, v)
    <2>1. /\ d.released = c.released /\ d.failed = c.failed /\ Copies(d) = Copies(c)
          /\ \A b \in Buffer : Loans(d, b) = Loans(c, b)
          /\ StreamInv(Plan, d, Expert) /\ PoolInv(Plan, d, Expert, v) /\ d \in Caches
        BY <1>3 DEF Queued
    <2> QED BY <1>1, <1>4, <2>1, UnbegunFit
<1> QED BY <1>3, <1>5 DEF Queued, d

-----------------------------------------------------------------------------
(***************************************************************************)
(* What runs on the device keeps the pool fit.                             *)
(***************************************************************************)
\* The first kernel: its shape and its event.
LEMMA HeadIs ==
    ASSUME NEW p, NEW R, NEW c \in Caches, StreamInv(p, c, R), Kernels(c) # <<>>
    PROVE  /\ Kernels(c)[1] \in Tasks /\ KernelShape(p, Kernels(c)[1]) /\ 1 \in 1..Len(Kernels(c))
           /\ Kernels(c)[1].do \notin {"mark", "dense"} => \A b \in Buffer : Ends(c, b) = 0
           /\ Kernels(c)[1].do = "dense" /\ ~p.overlap => \A b \in Buffer : Ends(c, b) = 0
<1>1. 1 \in 1..Len(Kernels(c)) /\ \A i \in 1..Len(Kernels(c)) : Kernels(c)[i] \in Tasks
    <2>1. Kernels(c) \in Seq(Tasks) /\ \A i \in 1..Len(Kernels(c)) : Kernels(c)[i] \in Tasks
        BY StreamTypes
    <2>2. Len(Kernels(c)) \in Nat /\ Len(Kernels(c)) # 0
        BY <2>1
    <2> QED BY <2>1, <2>2
<1>2. KernelShape(p, Kernels(c)[1])
    BY <1>1 DEF StreamInv, ShapeInv
<1>3. Inert(Kernels(c)[1]) => \A b \in Buffer : Ends(c, b) = 0
    BY EventsDiffer DEF Inert, Ends, Event
<1> QED BY <1>1, <1>2, <1>3 DEF KernelShape

\* Behind a task that is neither there is no GEMM over loaded rows.
LEMMA NextHead ==
    ASSUME NEW p, NEW R, NEW c \in Caches, NEW d \in Caches, KernelRan(c, d), StreamInv(p, c, R), Kernels(d) # <<>>
    PROVE  /\ Kernels(d)[1].do = "gemm" =>
                 Kernels(c)[1].do = "load" /\ Kernels(c)[1].layer = Kernels(d)[1].layer
           /\ Kernels(d)[1].do = "dense" /\ ~p.overlap =>
                 Kernels(c)[1].do = "materialize" /\ Kernels(c)[1].layer = Kernels(d)[1].layer
<1>1. Kernels(c) \in Seq(Tasks) /\ Kernels(d) = Tail(Kernels(c)) /\ Kernels(c) # <<>>
    BY StreamTypes DEF KernelRan
<1>2. 2 \in 1..Len(Kernels(c)) /\ Kernels(d)[1] = Kernels(c)[2]
    <2> DEFINE S == Kernels(c)
    <2>1. S \in Seq(Tasks) /\ S # <<>> /\ Tail(S) # <<>>
        BY <1>1
    <2> HIDE DEF S
    <2>2. 2 \in 1..Len(S) /\ Tail(S)[1] = S[2]
        BY <2>1
    <2> QED BY <1>1, <2>2 DEF S
<1>3. ChainInv(p, c)
    BY DEF StreamInv
<1>4. /\ Kernels(c)[2].do = "gemm" => Follows(Kernels(c), 2, "load")
      /\ Kernels(c)[2].do = "dense" /\ ~p.overlap => Follows(Kernels(c), 2, "materialize")
    BY <1>2, <1>3 DEF ChainInv
<1>5. 2 # 1 /\ 2 - 1 = 1
    OBVIOUS
<1> QED BY <1>2, <1>4, <1>5 DEF Follows

\* The loans once a kernel ran that is no gather.
LEMMA KernelBuffers ==
    ASSUME NEW p, NEW R, NEW v, NEW c \in Caches, NEW d \in Caches, KernelRan(c, d), StreamInv(p, c, R),
           BufferInv(p, c, R, v), Kernels(c)[1].do # "gather"
    PROVE  BufferInv(p, d, R, v)
<1>1. AfterKernel(R, c, d)
    BY AfterKernelIs DEF StreamInv
<1>2. ASSUME NEW b \in Buffer, NEW i \in 1..Len(Kernels(c)), Gathers(c, b, i)
      PROVE  /\ i - 1 \in 1..Len(Kernels(d)) /\ Gathers(d, b, i - 1)
             /\ Denses(c, b, i) = Denses(d, b, i - 1) + Ends(c, b)
    <2>1. i # 1
        BY <1>2 DEF Gathers
    <2>2. i \in 2..Len(Kernels(c)) /\ (i - 1) + 1 = i
        BY <2>1
    <2>3. i - 1 \in 1..Len(Kernels(d)) /\ Kernels(c)[i] = Kernels(d)[i - 1]
        BY <1>1, <2>2 DEF AfterKernel
    <2>4. Denses(c, b, (i - 1) + 1) = Denses(d, b, i - 1) + Ends(c, b)
        BY <1>1, <2>3 DEF AfterKernel
    <2> QED BY <1>2, <2>2, <2>3, <2>4 DEF Gathers
<1> SUFFICES ASSUME NEW b \in Buffer, NEW l, NEW r, Loan(d, R, b, 1, l, r)
             PROVE  /\ Held(d, b) = 1 => \A e \in r \ Kept(p, v, l) : v.bytes[Base(b) + e] = <<l, e>>
                    /\ \/ \E i \in 1..Len(Kernels(d)) : Gathers(d, b, i) /\ Denses(d, b, i) = 0
                       \/ \A e \in Kept(p, v, l) : v.bytes[Base(b) + e] = <<l, e>>
    BY DEF BufferInv
<1>3. /\ Ends(c, b) \in {0, 1} /\ (Ends(c, b) = 1 => Held(c, b) = 1) /\ Held(c, b) = Held(d, b) + Ends(c, b)
      /\ Loan(c, R, b, 1 + Ends(c, b), l, r)
    BY <1>1 DEF AfterKernel
<1>4. Held(d, b) \in Int /\ \A i \in 1..Len(Kernels(d)) : Denses(d, b, i) \in Nat
    <2>1. Held(d, b) \in Int /\ \A i \in Int : Denses(d, b, i) \in Nat
        BY LoanTypes
    <2>2. \A i \in 1..Len(Kernels(d)) : i \in Int
        OBVIOUS
    <2> QED BY <2>1, <2>2
<1>5. CASE Ends(c, b) = 0
    <2>1. Held(d, b) = Held(c, b) /\ Loan(c, R, b, 1, l, r)
        BY <1>3, <1>4, <1>5
    <2>2. ASSUME NEW i \in 1..Len(Kernels(c)), Gathers(c, b, i), Denses(c, b, i) = 0
          PROVE  \E k \in 1..Len(Kernels(d)) : Gathers(d, b, k) /\ Denses(d, b, k) = 0
        <3>1. /\ i - 1 \in 1..Len(Kernels(d)) /\ Gathers(d, b, i - 1)
              /\ Denses(c, b, i) = Denses(d, b, i - 1) + Ends(c, b)
            BY <1>2, <2>2
        <3>2. Denses(d, b, i - 1) = 0
            BY <1>4, <1>5, <2>2, <3>1
        <3> QED BY <3>1, <3>2
    <2> QED BY <2>1, <2>2 DEF BufferInv
<1>6. CASE Ends(c, b) = 1
    <2>1. Held(d, b) = 0 /\ Loan(c, R, b, 2, l, r)
        BY <1>3, <1>4, <1>6
    <2>2. CASE l \in p.layers
        <3>1. \E i \in 1..Len(Kernels(c)) :
                  Gathers(c, b, i) /\ Kernels(c)[i].layer = l /\ Denses(c, b, i) = 2 - 1
            BY <2>1, <2>2 DEF StreamInv, GatherInv
        <3>2. PICK i \in 1..Len(Kernels(c)) : Gathers(c, b, i) /\ Denses(c, b, i) = 2 - 1
            BY <3>1
        <3>3. /\ i - 1 \in 1..Len(Kernels(d)) /\ Gathers(d, b, i - 1)
              /\ Denses(c, b, i) = Denses(d, b, i - 1) + Ends(c, b)
            BY <1>2, <3>2
        <3>4. Denses(d, b, i - 1) = 0
            BY <1>4, <1>6, <3>2, <3>3
        <3> QED BY <2>1, <3>3, <3>4
    <2>3. CASE l \notin p.layers
        BY <2>1, <2>3 DEF Kept
    <2> QED BY <2>2, <2>3
<1> QED BY <1>3, <1>5, <1>6

\* The GEMMs and the events change no weights.
LEMMA KernelQuiet ==
    ASSUME NEW p, NEW R, NEW v, NEW c \in Caches, NEW d \in Caches, KernelRan(c, d), StreamInv(p, c, R),
           PoolInv(p, c, R, v), Kernels(c)[1].do \in {"dense", "gemm", "mark", "done"}
    PROVE  PoolInv(p, d, R, v)
<1>1. BufferInv(p, d, R, v)
    BY KernelBuffers DEF PoolInv
<1>2. HeadInv(p, d, v)
    BY NextHead DEF HeadInv
<1>3. \A b \in Buffer : /\ Total(Copies(d), Ready(b)) = Total(Copies(c), Ready(b))
                        /\ Held(c, b) = 0 => Held(d, b) = 0
    <2> TAKE b \in Buffer
    <2>1. AfterKernel(R, c, d)
        BY AfterKernelIs DEF StreamInv
    <2>2. /\ Ends(c, b) \in {0, 1} /\ (Ends(c, b) = 1 => Held(c, b) = 1)
          /\ Held(c, b) = Held(d, b) + Ends(c, b) /\ Total(Copies(d), Ready(b)) = Total(Copies(c), Ready(b))
        BY <2>1 DEF AfterKernel
    <2>3. Held(d, b) \in Int
        BY LoanTypes
    <2> QED BY <2>2, <2>3
<1>4. MapInv(p, d, v)
    BY <1>3 DEF PoolInv, MapInv
<1> QED BY <1>1, <1>2, <1>4 DEF PoolInv

\* The maps are left alone by a mark and a snapshot.
LEMMA CopyQuiet ==
    ASSUME NEW p, NEW R, NEW v, NEW w, NEW c \in Caches, NEW d \in Caches, CopyRan(c, d), StreamInv(p, c, R),
           PoolInv(p, c, R, v), Copies(c)[1].do \in {"mark", "snapshot"},
           w.slotFor = v.slotFor, w.idOf = v.idOf, w.bytes = v.bytes, w.route = v.route
    PROVE  PoolInv(p, d, R, w)
<1>1. AfterCopy(R, c, d) /\ Saw(Kernels(c), Kernels(d), Copies(c)[1].records)
    BY AfterCopyIs DEF StreamInv, CopyRan
<1>2. \A b \in Buffer : Brings(c, b) = 0
    <2>1. 1 \in 1..Len(Copies(c))
        BY <1>1 DEF AfterCopy
    <2>2. CopyShape(p, Copies(c)[1])
        BY <2>1 DEF StreamInv, ShapeInv
    <2>3. Event(Copies(c)[1]) \in {Nothing, Begin}
        BY <2>2 DEF CopyShape, Inert, Event
    <2> QED BY <2>3, EventsDiffer DEF Brings
<1>3. \A b \in Buffer :
          /\ Held(d, b) = Held(c, b) /\ Total(Copies(c), Ready(b)) = Total(Copies(d), Ready(b))
          /\ \A i \in 1..Len(Kernels(c)) : Denses(d, b, i) = Denses(c, b, i)
          /\ \A m, l, r : Loan(d, R, b, m, l, r) <=> Loan(c, R, b, m, l, r)
    <2> TAKE b \in Buffer
    <2>1. /\ Held(d, b) = Held(c, b) + Brings(c, b)
          /\ \A i \in 1..Len(Kernels(c)) : Denses(d, b, i) = Denses(c, b, i)
          /\ \A m, l, r : Loan(d, R, b, m, l, r) <=> Loan(c, R, b, m, l, r)
          /\ Total(Copies(c), Ready(b)) = Total(Copies(d), Ready(b)) + Brings(c, b)
        BY <1>1 DEF AfterCopy
    <2>2. Held(c, b) \in Int /\ Total(Copies(d), Ready(b)) \in Nat
        BY LoanTypes
    <2> QED BY <1>2, <2>1, <2>2
<1>4. /\ Len(Kernels(d)) = Len(Kernels(c))
      /\ \A i \in 1..Len(Kernels(c)) : Kernels(d)[i].do = Kernels(c)[i].do /\ Kernels(d)[i].layer = Kernels(c)[i].layer
    BY <1>1 DEF Saw
<1>5. MapInv(p, d, w)
    BY SMTT(60), <1>3 DEF PoolInv, MapInv
<1>6. BufferInv(p, d, R, w)
    <2>1. \A b \in Buffer, i \in 1..Len(Kernels(c)) : Gathers(c, b, i) => Gathers(d, b, i)
        BY <1>4 DEF Gathers
    <2>2. \A l : Kept(p, w, l) = Kept(p, v, l)
        BY DEF Kept
    <2> QED BY <1>3, <1>4, <2>1, <2>2 DEF PoolInv, BufferInv
<1>7. HeadInv(p, d, w)
    <2> SUFFICES ASSUME Kernels(d) # <<>> PROVE HeadInv(p, d, w)
        BY DEF HeadInv
    <2>1. Kernels(c) # <<>> /\ 1 \in 1..Len(Kernels(c))
        <3>1. Kernels(d) \in Seq(Tasks) /\ Kernels(c) \in Seq(Tasks)
            BY StreamTypes
        <3> QED BY <1>4, <3>1
    <2> QED BY ZenonT(60), <1>4, <2>1 DEF PoolInv, HeadInv
<1> QED BY <1>5, <1>6, <1>7 DEF PoolInv

\* A kernel that leaves the maps as they are.
LEMMA KernelSnap ==
    ASSUME NEW p, NEW R, NEW v, NEW w, NEW at, NEW c \in Caches, NEW d \in Caches, KernelRan(c, d),
           StreamInv(p, c, R), SnapInv(p, c, at, v), w.slotFor = v.slotFor, w.snap = v.snap
    PROVE  SnapInv(p, d, at, w)
<1>1. AfterKernel(R, c, d) /\ Saw(Copies(c), Copies(d), Kernels(c)[1].records)
    BY AfterKernelIs DEF StreamInv, KernelRan
<1>2. \A b \in Buffer : Loans(d, b) > 0 => Loans(c, b) > 0
    <2> TAKE b \in Buffer
    <2>1. Ends(c, b) \in {0, 1} /\ Loans(c, b) = Loans(d, b) + Ends(c, b)
        BY <1>1 DEF AfterKernel
    <2>2. Loans(d, b) \in Nat
        BY LoanTypes
    <2> QED BY <2>1, <2>2
<1>3. (\A j \in 1..Len(Copies(d)) : Copies(d)[j].do # "snapshot") =>
          \A j \in 1..Len(Copies(c)) : Copies(c)[j].do # "snapshot"
    BY <1>1 DEF Saw
<1>4. Agree(v) => Agree(w)
    BY DEF Agree
<1> QED BY <1>2, <1>3, <1>4 DEF SnapInv

\* A copy that leaves the snapshot as good as it was, or makes it.
LEMMA CopySnap ==
    ASSUME NEW p, NEW R, NEW v, NEW w, NEW at, NEW c \in Caches, NEW d \in Caches, CopyRan(c, d),
           StreamInv(p, c, R), SnapInv(p, c, at, v),
           Agree(w) \/ (Copies(c)[1].do # "snapshot" /\ (Agree(v) => Agree(w)))
    PROVE  SnapInv(p, d, at, w)
<1>1. AfterCopy(R, c, d)
    BY AfterCopyIs DEF StreamInv
<1>2. \A b \in Buffer : Loans(d, b) = Loans(c, b)
    BY <1>1 DEF AfterCopy
<1>3. CASE Agree(w)
    BY <1>3 DEF SnapInv
<1>4. CASE Copies(c)[1].do # "snapshot" /\ (Agree(v) => Agree(w))
    <2>1. ASSUME \A j \in 1..Len(Copies(d)) : Copies(d)[j].do # "snapshot", NEW j \in 1..Len(Copies(c))
          PROVE  Copies(c)[j].do # "snapshot"
        <3>1. CASE j = 1
            BY <1>4, <3>1
        <3>2. CASE j # 1
            <4>1. j \in 2..Len(Copies(c))
                BY <3>2
            <4>2. Copies(c)[j] = Copies(d)[j - 1] /\ j - 1 \in 1..Len(Copies(d))
                BY <1>1, <4>1 DEF AfterCopy
            <4> QED BY <2>1, <4>2
        <3> QED BY <3>1, <3>2
    <2> QED BY <1>2, <1>4, <2>1 DEF SnapInv
<1> QED BY <1>3, <1>4

\* Without overlap there are no loans.
LEMMA NoLoans ==
    ASSUME NEW p, NEW R, NEW at, NEW c \in Caches, StreamInv(p, c, R), PassInv(p, c, at), ~p.overlap
    PROVE  /\ ~at.begun /\ Copies(c) = <<>>
           /\ \A b \in Buffer : Loans(c, b) = 0 /\ Held(c, b) = 0 /\ Total(Copies(c), Ready(b)) = 0
<1>1. ~at.begun /\ \A b \in Buffer : c.released[b]
    BY DEF PassInv
<1>2. Copies(c) = <<>>
    <2>1. \A j \in 1..Len(Copies(c)) : FALSE
        BY DEF StreamInv, ShapeInv, CopyShape
    <2>2. Copies(c) \in Seq(Tasks)
        BY StreamTypes
    <2> QED BY <2>1, <2>2
<1>3. \A b \in Buffer : Total(Kernels(c), Release(b)) = 0
    <2> TAKE b \in Buffer
    <2>1. ASSUME NEW i \in 1..Len(Kernels(c)) PROVE Event(Kernels(c)[i]) # Release(b)
        <3>1. KernelShape(p, Kernels(c)[i])
            BY DEF StreamInv, ShapeInv
        <3>2. Event(Kernels(c)[i]) = Nothing
            BY <3>1 DEF KernelShape, Inert, Event
        <3> QED BY <3>2, EventsDiffer
    <2>2. {i \in 1..Len(Kernels(c)) : Event(Kernels(c)[i]) = Release(b)} = {}
        BY <2>1
    <2> QED BY <2>2, FS_EmptySet DEF Total, Count
<1>4. \A b \in Buffer : Total(Copies(c), Ready(b)) = 0
    <2>1. Len(Copies(c)) = 0
        BY <1>2
    <2> QED BY <2>1, CountZero DEF Total
<1> QED BY <1>1, <1>2, <1>3, <1>4 DEF Loans, Held

\* The two maps are inverse.
Exact(map, id) ==
    /\ \A l \in Layer, e \in Expert : map[l][e] # None => map[l][e] \in Slot /\ id[map[l][e]] = <<l, e>>
    /\ \A s \in Slot : id[s] # NoId => id[s] \in Layer \X Expert /\ map[id[s][1]][id[s][2]] = s

LEMMA ExactIs ==
    ASSUME NEW c, NEW v
    PROVE  MapInv(Plan, c, v) <=>
             /\ Exact(v.slotFor, v.idOf)
             /\ \A s \in Slot : v.idOf[s] # NoId =>
                  /\ s >= 2 * NumExperts => v.bytes[s] = v.idOf[s]
                  /\ \A b \in Buffer : InBuffer(b, s) =>
                        /\ v.bytes[s] = v.idOf[s] \/ (Splits /\ Total(Copies(c), Ready(b)) >= 1)
                        /\ Held(c, b) = 0
BY PlanIs DEF MapInv, Exact

\* Rows are given slots that are taken from whoever had them.
Given(l, S, place, map, id, held) ==
    /\ Exact(map, id)
    /\ \A s \in Slot : id[s] # NoId => held[s] = id[s] \/ (id[s] = idOf[s] /\ held[s] = bytes[s])
    /\ \A e \in DOMAIN place : held[place[e]] = <<l, e>> /\ map[l][e] = place[e]
    /\ \A s \in Slot : s \notin S => held[s] = bytes[s]

LEMMA Remaps ==
    ASSUME Exact(slotFor, idOf), NEW l \in Layer, NEW S \in SUBSET Slot, NEW rows \in SUBSET Expert,
           NEW place \in [rows -> S], \A e, f \in rows : place[e] = place[f] => e = f,
           \A e \in rows : slotFor[l][e] # None => slotFor[l][e] \in S
    PROVE  Given(l, S, place, Remapped(l, S, place), Renamed(l, S, place), Written(l, place))
<1> DEFINE Placed(s) == \E e \in rows : place[e] = s
           Who(s) == CHOOSE e \in rows : place[e] = s
           map == Remapped(l, S, place)
           id == Renamed(l, S, place)
           held == Written(l, place)
<1>1. DOMAIN place = rows /\ None \notin S /\ None \notin Slot
    BY DEF Slot, None
<1>2. \A e \in rows : place[e] \in S /\ Placed(place[e]) /\ Who(place[e]) = e
    OBVIOUS
<1>3. \A s : Placed(s) => s \in S /\ Who(s) \in rows /\ place[Who(s)] = s
    OBVIOUS
<1>4. \A s \in Slot : /\ id[s] = IF Placed(s) THEN <<l, Who(s)>> ELSE IF s \in S THEN NoId ELSE idOf[s]
                      /\ held[s] = IF Placed(s) THEN <<l, Who(s)>> ELSE bytes[s]
    BY <1>1 DEF Renamed, Written
<1>5. \A k \in Layer, e \in Expert :
          map[k][e] = IF k = l /\ e \in rows THEN place[e]
                      ELSE IF slotFor[k][e] \in S THEN None ELSE slotFor[k][e]
    BY <1>1 DEF Remapped
<1> HIDE DEF map, id, held, Placed, Who
<1>6. ASSUME NEW k \in Layer, NEW e \in Expert, map[k][e] # None
      PROVE  map[k][e] \in Slot /\ id[map[k][e]] = <<k, e>>
    <2>1. CASE k = l /\ e \in rows
        <3>1. map[k][e] = place[e]
            BY <1>5, <2>1
        <3> QED BY <1>2, <1>4, <2>1, <3>1
    <2>2. CASE ~(k = l /\ e \in rows)
        <3>1. slotFor[k][e] \notin S /\ map[k][e] = slotFor[k][e]
            BY <1>5, <1>6, <2>2
        <3>2. slotFor[k][e] \in Slot /\ idOf[slotFor[k][e]] = <<k, e>>
            BY ZenonT(60), <1>6, <3>1 DEF Exact
        <3>3. ~Placed(slotFor[k][e])
            BY <1>3, <3>1
        <3> QED BY ZenonT(60), <1>4, <3>1, <3>2, <3>3
    <2> QED BY <2>1, <2>2
<1>7. ASSUME NEW s \in Slot, id[s] # NoId
      PROVE  id[s] \in Layer \X Expert /\ map[id[s][1]][id[s][2]] = s
    <2>1. CASE Placed(s)
        <3>1. id[s] = <<l, Who(s)>> /\ Who(s) \in rows /\ place[Who(s)] = s
            BY <1>3, <1>4, <2>1
        <3>2. Who(s) \in Expert /\ map[l][Who(s)] = place[Who(s)]
            BY <1>5, <3>1
        <3> QED BY <3>1, <3>2
    <2>2. CASE ~Placed(s)
        <3>1. s \notin S /\ id[s] = idOf[s]
            BY <1>4, <1>7, <2>2
        <3>2. idOf[s] \in Layer \X Expert /\ slotFor[idOf[s][1]][idOf[s][2]] = s
            BY <1>7, <3>1 DEF Exact
        <3>3. PICK k \in Layer, e \in Expert : idOf[s] = <<k, e>>
            BY <3>2
        <3>4. slotFor[k][e] = s /\ s # None
            BY <1>1, <3>2, <3>3
        <3>5. ~(k = l /\ e \in rows)
            BY <3>1, <3>4
        <3>6. map[k][e] = s
            BY <1>5, <3>1, <3>4, <3>5
        <3> QED BY <3>1, <3>3, <3>6
    <2> QED BY <2>1, <2>2
<1>8. \A s \in Slot : id[s] # NoId => held[s] = id[s] \/ (id[s] = idOf[s] /\ held[s] = bytes[s])
    BY <1>4
<1>9. \A e \in rows : held[place[e]] = <<l, e>> /\ map[l][e] = place[e]
    BY ZenonT(60), <1>2, <1>4, <1>5
<1>10. \A s \in Slot : s \notin S => held[s] = bytes[s]
    BY <1>3, <1>4
<1>11. Exact(map, id)
    BY <1>6, <1>7 DEF Exact
<1>12. Given(l, S, place, map, id, held)
    BY <1>1, <1>8, <1>9, <1>10, <1>11 DEF Given
<1> QED BY <1>12 DEF map, id, held

\* A slot is above the buffers or in one of them.
LEMMA SlotIs ==
    ASSUME NEW s \in Slot
    PROVE  /\ s \in Nat
           /\ s >= 2 * NumExperts \/ \E b \in Buffer : InBuffer(b, s)
           /\ \A b \in Buffer : InBuffer(b, s) => s < 2 * NumExperts
           /\ InBuffer(0, s) => ~InBuffer(1, s)
<1>1. s \in Nat
    BY DEF Slot
<1> QED BY <1>1, Geometry DEF InBuffer, Buffer

LEMMA SizeIs ==
    ASSUME TypeInv
    PROVE  /\ size \in Nat /\ size >= NumExperts /\ Expert \subseteq Slot
           /\ overlap \/ Splits => \A s \in Nat : s < 2 * NumExperts => s \in Slot
<1>1. size \in Nat /\ size >= NumExperts /\ (overlap => size >= 2 * NumExperts)
    BY VariantsAssumption DEF TypeInv
<1> QED BY <1>1, Geometry DEF Expert, Slot, Splits

\* The slots taken for the rows fetched: as many as they are, and none in use.
Fresh(l, hits, fetched, S, place) ==
    /\ S \in SUBSET Slot
    /\ \A e, f \in fetched : place[e] = place[f] => e = f
    /\ \A e \in hits : slotFor[l][e] \notin S

LEMMA VictimsAre ==
    ASSUME TypeInv, Exact(slotFor, idOf), NEW l \in Layer, NEW hits \in SUBSET Expert,
           \A e \in hits : slotFor[l][e] # None, NEW fetched \in SUBSET Expert,
           NEW used, \A e \in hits : slotFor[l][e] \in used, NEW S \in Victims(Cardinality(fetched), used),
           NEW place \in [fetched -> S], \A s \in S : \E e \in fetched : place[e] = s
    PROVE  Fresh(l, hits, fetched, S, place)
<1> DEFINE n == Cardinality(fetched)
           empty == {s \in Slot : idOf[s] = NoId}
           lowest == {s \in empty : Cardinality({t \in empty : t < s}) < n}
<1>1. IsFiniteSet(Slot) /\ IsFiniteSet(fetched) /\ n \in Nat
    <2>1. IsFiniteSet(Slot)
        <3>1. size - 1 \in Int /\ 0 \in Int
            BY SizeIs
        <3> QED BY <3>1, FS_Interval DEF Slot
    <2>2. IsFiniteSet(Expert)
        BY Geometry, FS_Interval DEF Expert
    <2>3. IsFiniteSet(fetched)
        BY <2>2, FS_Subset
    <2> QED BY <2>1, <2>3, FS_CardinalityType
<1>2. PICK more \in kSubset(n - Cardinality(lowest), Slot \ (empty \cup used)) : S = lowest \cup more
    BY DEF Victims
<1>3. /\ more \subseteq Slot \ (empty \cup used) /\ Cardinality(more) = n - Cardinality(lowest)
      /\ lowest \subseteq empty /\ empty \subseteq Slot
    BY <1>2 DEF kSubset
<1> HIDE DEF n, empty, lowest
<1>4. S \in SUBSET Slot /\ lowest \cap more = {}
    BY <1>2, <1>3
<1>5. Cardinality(S) = n
    <2>1. IsFiniteSet(lowest) /\ IsFiniteSet(more)
        <3>1. lowest \in SUBSET Slot /\ more \in SUBSET Slot
            BY <1>3
        <3> QED BY <1>1, <3>1, FS_Subset
    <2>2. Cardinality(S) = Cardinality(lowest) + Cardinality(more) - Cardinality({})
        BY <1>2, <1>4, <2>1, FS_Union
    <2>3. Cardinality({}) = 0 /\ Cardinality(lowest) \in Nat
        BY <2>1, FS_EmptySet, FS_CardinalityType
    <2> QED BY <1>1, <1>3, <2>2, <2>3
<1>6. \A e, f \in fetched : place[e] = place[f] => e = f
    <2>1. place \in Surjection(fetched, S)
        BY DEF Surjection
    <2>2. Cardinality(fetched) = Cardinality(S)
        BY <1>5 DEF n
    <2>3. place \in Injection(fetched, S)
        BY <1>1, <2>1, <2>2, FS_SurjSameCardinalityImpliesInj
    <2> QED BY <2>3 DEF Injection, IsInjective
<1>7. \A e \in hits : slotFor[l][e] \notin S
    <2> TAKE e \in hits
    <2>1. slotFor[l][e] \in used
        OBVIOUS
    <2>2. slotFor[l][e] \in Slot /\ idOf[slotFor[l][e]] = <<l, e>>
        BY DEF Exact
    <2>3. idOf[slotFor[l][e]] # NoId
        BY <2>2 DEF NoId, None, Layer
    <2>4. slotFor[l][e] \notin empty
        BY <2>3 DEF empty
    <2> QED BY <1>2, <1>3, <2>1, <2>4
<1> QED BY <1>4, <1>6, <1>7 DEF Fresh

\* What a load leaves in the pool: the rows it had and those it fetched.
Loaded(l, hits, fetched, S, place, w) ==
    /\ fetched \in SUBSET Expert /\ hits \in SUBSET Expert /\ place \in [fetched -> S]
    /\ Fresh(l, hits, fetched, S, place)
    /\ (\A e \in fetched : slotFor[l][e] = None) /\ (\A e \in hits : slotFor[l][e] # None)
    /\ w.slotFor = Remapped(l, S, place) /\ w.idOf = Renamed(l, S, place) /\ w.bytes = Written(l, place)
    /\ w.route = [e \in hits \cup fetched |-> IF e \in fetched THEN place[e] ELSE slotFor[l][e]]

\* A load on demand, with no copy of a prefill behind its loan.
LEMMA LoadFit ==
    ASSUME NEW at, NEW w, NEW c \in Caches, NEW d \in Caches, KernelRan(c, d), Fit(Plan, c, at, Pool),
           NEW l \in Layer, Kernels(c)[1].do = "load", Kernels(c)[1].layer = l,
           NEW hits, NEW fetched, NEW S, NEW place, Loaded(l, hits, fetched, S, place, w)
    PROVE  PoolInv(Plan, d, Expert, w) /\ SnapInv(Plan, d, at, w)
<1>a. /\ fetched \in SUBSET Expert /\ hits \in SUBSET Expert /\ place \in [fetched -> S]
      /\ Fresh(l, hits, fetched, S, place)
      /\ (\A e \in fetched : slotFor[l][e] = None) /\ (\A e \in hits : slotFor[l][e] # None)
      /\ w.slotFor = Remapped(l, S, place) /\ w.idOf = Renamed(l, S, place) /\ w.bytes = Written(l, place)
      /\ w.route = [e \in hits \cup fetched |-> IF e \in fetched THEN place[e] ELSE slotFor[l][e]]
    BY DEF Loaded
<1> USE <1>a
<1> DEFINE map == Remapped(l, S, place)
           id == Renamed(l, S, place)
           held == Written(l, place)
<1>1. /\ StreamInv(Plan, c, Expert) /\ PassInv(Plan, c, at) /\ MapInv(Plan, c, Pool)
      /\ Kernels(c) # <<>> /\ IsLoad(Kernels(c)[1])
    BY DEF Fit, PoolInv, KernelRan, IsLoad
<1>2. /\ 1 \in 1..Len(Kernels(c)) /\ (\A b \in Buffer : Ends(c, b) = 0) /\ AfterKernel(Expert, c, d)
    BY <1>1, HeadIs, AfterKernelIs DEF StreamInv
<1>3. \A b \in Buffer : /\ Held(c, b) = 0 /\ Held(d, b) = 0 /\ Loans(d, b) = Loans(c, b)
                        /\ Total(Copies(d), Ready(b)) = Total(Copies(c), Ready(b))
                        /\ Splits => Loans(c, b) = 0 /\ Total(Copies(c), Ready(b)) = 0
    <2> TAKE b \in Buffer
    <2>1. Denses(c, b, 1) = 0 /\ Held(c, b) \in {0, 1}
        BY <1>1, <1>2 DEF AfterKernel, StreamInv, HeldInv
    <2>2. Held(c, b) # 1 /\ (Splits => Denses(c, b, 1) = Loans(c, b))
        BY <1>1, <1>2, <2>1, PlanIs DEF StreamInv, LoadInv
    <2>3. /\ Loans(c, b) = Loans(d, b) + Ends(c, b) /\ Held(c, b) = Held(d, b) + Ends(c, b)
          /\ Total(Copies(d), Ready(b)) = Total(Copies(c), Ready(b))
        BY <1>2 DEF AfterKernel
    <2>4. /\ Loans(d, b) \in Nat /\ Held(d, b) \in Int /\ Loans(c, b) = Held(c, b) + Total(Copies(c), Ready(b))
          /\ Total(Copies(c), Ready(b)) \in Nat
        BY LoanTypes
    <2>5. Held(c, b) = 0 /\ Ends(c, b) = 0
        BY <1>2, <2>1, <2>2
    <2> QED BY <2>1, <2>2, <2>3, <2>4, <2>5
<1>4. /\ Exact(slotFor, idOf)
      /\ \A s \in Slot : idOf[s] # NoId =>
            /\ s >= 2 * NumExperts => bytes[s] = idOf[s]
            /\ \A b \in Buffer : InBuffer(b, s) => bytes[s] = idOf[s]
    <2>1. /\ Exact(slotFor, idOf)
          /\ \A s \in Slot : idOf[s] # NoId =>
                /\ s >= 2 * NumExperts => bytes[s] = idOf[s]
                /\ \A b \in Buffer : InBuffer(b, s) =>
                      bytes[s] = idOf[s] \/ (Splits /\ Total(Copies(c), Ready(b)) >= 1)
        BY <1>1, ExactIs DEF Pool
    <2> QED BY <1>3, <2>1
<1>5. /\ Exact(map, id)
      /\ \A s \in Slot : id[s] # NoId => held[s] = id[s] \/ (id[s] = idOf[s] /\ held[s] = bytes[s])
      /\ \A e \in fetched : held[place[e]] = <<l, e>> /\ map[l][e] = place[e]
      /\ \A s \in Slot : s \notin S => held[s] = bytes[s]
    <2>1. \A e \in fetched : slotFor[l][e] # None => slotFor[l][e] \in S
        OBVIOUS
    <2>2. Exact(slotFor, idOf) /\ S \in SUBSET Slot /\ \A e, f \in fetched : place[e] = place[f] => e = f
        BY <1>4 DEF Fresh
    <2>3. Given(l, S, place, map, id, held)
        BY <2>1, <2>2, Remaps
    <2> QED BY <2>3 DEF Given
<1> HIDE DEF map, id, held
<1>6. w.slotFor = map /\ w.idOf = id /\ w.bytes = held
    BY DEF map, id, held
<1>7. MapInv(Plan, d, w)
    <2>1. ASSUME NEW s \in Slot, id[s] # NoId, s >= 2 * NumExperts \/ \E b \in Buffer : InBuffer(b, s)
          PROVE  held[s] = id[s]
        BY <1>4, <1>5, <2>1
    <2> QED BY <1>3, <1>5, <1>6, <2>1, ExactIs
<1>8. BufferInv(Plan, d, Expert, w)
    <2> SUFFICES ASSUME NEW b \in Buffer, NEW k, NEW r, Loan(d, Expert, b, 1, k, r)
                 PROVE  Held(d, b) # 1 /\ Kept(Plan, w, k) = {}
        BY DEF BufferInv
    <2>1. 1 <= Loans(d, b)
        BY LoanRange
    <2>2. ~Splits
        BY <1>3, <2>1
    <2> QED BY <1>3, <2>2, PlanIs DEF Kept
<1>9. HeadInv(Plan, d, w)
    <2> SUFFICES ASSUME Kernels(d) # <<>>
                 PROVE  /\ Kernels(d)[1].do = "gemm" =>
                              \A e \in DOMAIN w.route : w.bytes[w.route[e]] = <<Kernels(d)[1].layer, e>>
                        /\ ~(Kernels(d)[1].do = "dense" /\ ~Plan.overlap)
        BY DEF HeadInv
    <2>1. /\ Kernels(d)[1].do = "gemm" => Kernels(d)[1].layer = l
          /\ ~(Kernels(d)[1].do = "dense" /\ ~Plan.overlap)
        BY <1>1, NextHead
    <2>2. ASSUME NEW e \in hits \cup fetched
          PROVE  held[IF e \in fetched THEN place[e] ELSE slotFor[l][e]] = <<l, e>>
        <3>1. CASE e \in fetched
            BY <1>5, <3>1
        <3>2. CASE e \notin fetched
            <4>1. e \in Expert /\ slotFor[l][e] # None /\ slotFor[l][e] \notin S
                BY <3>2 DEF Fresh
            <4>2. slotFor[l][e] \in Slot /\ idOf[slotFor[l][e]] = <<l, e>>
                BY <1>4, <4>1 DEF Exact
            <4>3. idOf[slotFor[l][e]] # NoId
                BY <4>2 DEF NoId, None, Layer
            <4>4. bytes[slotFor[l][e]] = idOf[slotFor[l][e]]
                BY <1>4, <4>2, <4>3, SlotIs
            <4> QED BY <1>5, <3>2, <4>1, <4>2, <4>4
        <3> QED BY <3>1, <3>2
    <2> QED BY ZenonT(60), <1>6, <2>1, <2>2
<1>10. SnapInv(Plan, d, at, w)
    <2> SUFFICES ASSUME Splits
                 PROVE  /\ \A b \in Buffer : ~(Loans(d, b) > 0)
                        /\ at.begun => \E j \in 1..Len(Copies(d)) : Copies(d)[j].do = "snapshot"
        BY PlanIs DEF SnapInv
    <2>1. \A b \in Buffer : ~(Loans(d, b) > 0)
        BY <1>3
    <2>2. ASSUME at.begun PROVE \E j \in 1..Len(Copies(d)) : Copies(d)[j].do = "snapshot"
        <3>1. PICK k \in 1..Len(Copies(c)) : \E j \in (k + 1)..Len(Copies(c)) : Copies(c)[j].do = "snapshot"
            BY <1>1, <1>2, <2>2, PlanIs DEF PassInv
        <3>2. PICK j \in (k + 1)..Len(Copies(c)) : Copies(c)[j].do = "snapshot"
            BY <3>1
        <3>3. Len(Copies(c)) \in Nat
            BY StreamTypes
        <3>4. j \in 1..Len(Copies(c))
            BY <3>2, <3>3
        <3> QED BY <3>2, <3>4 DEF KernelRan, Saw
    <2> QED BY <2>1, <2>2
<1> QED BY <1>7, <1>8, <1>9, <1>10 DEF PoolInv

\* A layer moved whole into the first slots.
LEMMA MaterializeFit ==
    ASSUME TypeInv, NEW at, NEW w, NEW c \in Caches, NEW d \in Caches, KernelRan(c, d), Fit(Plan, c, at, Pool),
           NEW l \in Layer, Kernels(c)[1].do = "materialize", Kernels(c)[1].layer = l,
           NEW S, S = Expert \cup {s \in Slot : idOf[s][1] = l}, NEW place, place = [e \in Expert |-> e],
           w.slotFor = Remapped(l, S, place), w.idOf = Renamed(l, S, place), w.bytes = Written(l, place)
    PROVE  PoolInv(Plan, d, Expert, w) /\ SnapInv(Plan, d, at, w)
<1> DEFINE map == Remapped(l, S, place)
           id == Renamed(l, S, place)
           held == Written(l, place)
<1>1. /\ StreamInv(Plan, c, Expert) /\ PassInv(Plan, c, at) /\ MapInv(Plan, c, Pool) /\ Kernels(c) # <<>>
    BY DEF Fit, PoolInv, KernelRan
<1>2. ~Plan.overlap /\ AfterKernel(Expert, c, d)
    BY <1>1, HeadIs, AfterKernelIs DEF StreamInv, KernelShape
<1>3. /\ ~at.begun
      /\ \A b \in Buffer : Loans(c, b) = 0 /\ Held(c, b) = 0 /\ Total(Copies(c), Ready(b)) = 0
    BY <1>1, <1>2, NoLoans
<1>4. \A b \in Buffer : Loans(d, b) = 0 /\ Held(d, b) = 0
    <2> TAKE b \in Buffer
    <2>1. /\ Ends(c, b) \in {0, 1} /\ (Ends(c, b) = 1 => Held(c, b) = 1)
          /\ Loans(c, b) = Loans(d, b) + Ends(c, b) /\ Held(c, b) = Held(d, b) + Ends(c, b)
        BY <1>2 DEF AfterKernel
    <2>2. Loans(d, b) \in Nat /\ Held(d, b) \in Int
        BY LoanTypes
    <2> QED BY <1>3, <2>1, <2>2
<1>5. /\ Exact(slotFor, idOf)
      /\ \A s \in Slot : idOf[s] # NoId =>
            /\ s >= 2 * NumExperts => bytes[s] = idOf[s]
            /\ \A b \in Buffer : InBuffer(b, s) => bytes[s] = idOf[s]
    <2>1. /\ Exact(slotFor, idOf)
          /\ \A s \in Slot : idOf[s] # NoId =>
                /\ s >= 2 * NumExperts => bytes[s] = idOf[s]
                /\ \A b \in Buffer : InBuffer(b, s) =>
                      bytes[s] = idOf[s] \/ (Splits /\ Total(Copies(c), Ready(b)) >= 1)
        BY <1>1, ExactIs DEF Pool
    <2> QED BY <1>3, <2>1
<1>6. Given(l, S, place, map, id, held)
    <2>1. S \in SUBSET Slot /\ place \in [Expert -> S] /\ Expert \in SUBSET Expert
        BY SizeIs
    <2>2. \A e, f \in Expert : place[e] = place[f] => e = f
        OBVIOUS
    <2>3. \A e \in Expert : slotFor[l][e] # None => slotFor[l][e] \in S
        BY SMTT(60), <1>5 DEF Exact
    <2> QED BY <1>5, <2>1, <2>2, <2>3, Remaps
<1> HIDE DEF map, id, held
<1>7. w.slotFor = map /\ w.idOf = id /\ w.bytes = held
    BY DEF map, id, held
<1>8. MapInv(Plan, d, w)
    <2>1. ASSUME NEW s \in Slot, id[s] # NoId, s >= 2 * NumExperts \/ \E b \in Buffer : InBuffer(b, s)
          PROVE  held[s] = id[s]
        BY <1>5, <1>6, <2>1 DEF Given
    <2> QED BY <1>4, <1>6, <1>7, <2>1, ExactIs DEF Given
<1>9. BufferInv(Plan, d, Expert, w)
    <2> SUFFICES ASSUME NEW b \in Buffer, NEW k, NEW r, Loan(d, Expert, b, 1, k, r) PROVE FALSE
        BY DEF BufferInv
    <2>1. 1 <= Loans(d, b)
        BY LoanRange
    <2> QED BY <1>4, <2>1
<1>10. HeadInv(Plan, d, w)
    <2> SUFFICES ASSUME Kernels(d) # <<>>
                 PROVE  /\ Kernels(d)[1].do # "gemm"
                        /\ Kernels(d)[1].do = "dense" =>
                              \A e \in Expert : w.bytes[e] = <<Kernels(d)[1].layer, e>>
        BY DEF HeadInv
    <2>1. /\ Kernels(d)[1].do # "gemm"
          /\ Kernels(d)[1].do = "dense" => Kernels(d)[1].layer = l
        BY <1>1, <1>2, NextHead
    <2> QED BY <1>6, <1>7, <2>1 DEF Given
<1>11. SnapInv(Plan, d, at, w)
    BY <1>3, <1>4 DEF SnapInv
<1> QED BY <1>8, <1>9, <1>10, <1>11 DEF PoolInv

\* The rows of a buffer.
LEMMA RowsApart ==
    ASSUME NEW b \in Buffer, NEW q \in Buffer, NEW e \in Expert
    PROVE  /\ InBuffer(b, Base(b) + e) /\ Base(b) + e \in Nat /\ Base(b) + e < 2 * NumExperts
           /\ (Base(b) + e) - Base(q) \in Expert => b = q /\ (Base(b) + e) - Base(q) = e
           /\ \A f \in Expert : Base(b) + e = Base(q) + f => b = q /\ e = f
BY Geometry DEF InBuffer, Base, Buffer, Expert

\* The rows the pool holds are copied to the buffer.
LEMMA GatherFit ==
    ASSUME TypeInv, NEW at, NEW w, NEW c \in Caches, NEW d \in Caches, KernelRan(c, d), Fit(Plan, c, at, Pool),
           NEW task, task = Kernels(c)[1], task.do = "gather",
           w.slotFor = slotFor, w.idOf = idOf, w.route = route, w.snap = snap,
           w.bytes = [s \in Slot |-> IF s - task.base \in Resident(slotFor, task.layer)
                                     THEN bytes[slotFor[task.layer][s - task.base]] ELSE bytes[s]]
    PROVE  PoolInv(Plan, d, Expert, w) /\ SnapInv(Plan, d, at, w)
<1> DEFINE k == task.layer
           a == BufferOf(k)
<1>1. /\ StreamInv(Plan, c, Expert) /\ MapInv(Plan, c, Pool) /\ BufferInv(Plan, c, Expert, Pool)
      /\ SnapInv(Plan, c, at, Pool) /\ Kernels(c) # <<>>
    BY DEF Fit, PoolInv, KernelRan
<1>2. /\ 1 \in 1..Len(Kernels(c)) /\ task \in Tasks /\ (\A b \in Buffer : Ends(c, b) = 0)
      /\ AfterKernel(Expert, c, d) /\ k \in Plan.layers /\ task.base = Base(a)
    BY <1>1, HeadIs, AfterKernelIs DEF StreamInv, KernelShape
<1>3. Splits /\ k \in Layer /\ a \in Buffer
    <2>1. Splits /\ k \in Layer
        BY <1>2, PlanIs DEF Tasks
    <2>2. k \in Int
        BY <2>1 DEF Layer
    <2> QED BY <2>1, <2>2, Geometry
<1> HIDE DEF k, a
<1>4. \A b \in Buffer :
          /\ Held(d, b) = Held(c, b) /\ Total(Copies(d), Ready(b)) = Total(Copies(c), Ready(b))
          /\ Denses(c, b, 1) = 0 /\ \A l, r : Loan(d, Expert, b, 1, l, r) => Loan(c, Expert, b, 1, l, r)
          /\ \A i \in 1..Len(Kernels(d)) : Denses(c, b, i + 1) = Denses(d, b, i)
    <2> TAKE b \in Buffer
    <2>1. /\ Held(c, b) = Held(d, b) + Ends(c, b) /\ Total(Copies(d), Ready(b)) = Total(Copies(c), Ready(b))
          /\ Denses(c, b, 1) = Ends(c, b)
          /\ \A i \in 1..Len(Kernels(d)) : Denses(c, b, i + 1) = Denses(d, b, i) + Ends(c, b)
          /\ \A m, l, r : Loan(d, Expert, b, m, l, r) => Loan(c, Expert, b, m + Ends(c, b), l, r)
        BY <1>2 DEF AfterKernel
    <2>2. Held(d, b) \in Int /\ Ends(c, b) = 0 /\ 1 + 0 = 1
        BY <1>2, LoanTypes
    <2>3. \A i \in 1..Len(Kernels(d)) : Denses(d, b, i) \in Nat
        <3>1. \A i \in Int : Denses(d, b, i) \in Nat
            BY LoanTypes
        <3> QED BY <3>1
    <2>4. \A l, r : Loan(d, Expert, b, 1, l, r) => Loan(c, Expert, b, 1, l, r)
        BY <2>1, <2>2
    <2> QED BY <2>1, <2>2, <2>3, <2>4
<1>5. /\ Exact(slotFor, idOf)
      /\ \A s \in Slot : idOf[s] # NoId =>
            /\ s >= 2 * NumExperts => bytes[s] = idOf[s]
            /\ \A b \in Buffer : InBuffer(b, s) =>
                  /\ bytes[s] = idOf[s] \/ (Splits /\ Total(Copies(c), Ready(b)) >= 1)
                  /\ Held(c, b) = 0
    BY <1>1, ExactIs DEF Pool
<1>6. \A s \in Slot : w.bytes[s] = IF s - Base(a) \in Resident(slotFor, k)
                                   THEN bytes[slotFor[k][s - Base(a)]] ELSE bytes[s]
    BY <1>2 DEF k
<1>7. \A s \in Slot : s - Base(a) \in Resident(slotFor, k) => InBuffer(a, s)
    <2> TAKE s \in Slot
    <2>1. s - Base(a) \in Resident(slotFor, k) => s - Base(a) \in Expert
        BY DEF Resident
    <2>2. s \in Nat /\ Base(a) \in Int /\ NumExperts \in Nat
        BY <1>3, SlotIs, Geometry DEF Base, Buffer
    <2> QED BY <2>1, <2>2 DEF Expert, InBuffer
<1>8. \A b \in Buffer, e \in Expert : Base(b) + e \in Slot
    BY <1>3, RowsApart, SizeIs
\* The buffer of the gather, with the rows it brought.
<1>9. \A e \in Resident(slotFor, k) : w.bytes[Base(a) + e] = <<k, e>>
    <2> TAKE e \in Resident(slotFor, k)
    <2>1. e \in Expert /\ slotFor[k][e] >= 2 * NumExperts
        BY DEF Resident
    <2>2. slotFor[k][e] # None
        BY <2>1, Geometry DEF None
    <2>3. slotFor[k][e] \in Slot /\ idOf[slotFor[k][e]] = <<k, e>> /\ idOf[slotFor[k][e]] # NoId
        BY <1>3, <1>5, <2>1, <2>2 DEF Exact, NoId, None, Layer
    <2>4. bytes[slotFor[k][e]] = <<k, e>>
        BY Zenon, <1>5, <2>1, <2>3
    <2>5. (Base(a) + e) - Base(a) = e /\ Base(a) + e \in Slot
        <3>1. Base(a) \in Int /\ e \in Int
            BY <1>3, <2>1, Geometry DEF Base, Buffer, Expert
        <3> QED BY <1>3, <1>8, <2>1, <3>1
    <2> QED BY <1>6, <2>4, <2>5
<1>10. \A b \in Buffer, e \in Expert : b # a \/ e \notin Resident(slotFor, k) =>
           w.bytes[Base(b) + e] = bytes[Base(b) + e]
    <2> TAKE b \in Buffer, e \in Expert
    <2> HAVE b # a \/ e \notin Resident(slotFor, k)
    <2>1. (Base(b) + e) - Base(a) \in Expert => b = a /\ (Base(b) + e) - Base(a) = e
        BY <1>3, RowsApart
    <2>2. (Base(b) + e) - Base(a) \notin Resident(slotFor, k)
        BY <2>1 DEF Resident
    <2> QED BY <1>6, <1>8, <2>2
<1>11. MapInv(Plan, d, w)
    <2>1. ASSUME NEW s \in Slot, idOf[s] # NoId
          PROVE  /\ s >= 2 * NumExperts => w.bytes[s] = idOf[s]
                 /\ \A b \in Buffer : InBuffer(b, s) =>
                       /\ w.bytes[s] = idOf[s] \/ (Splits /\ Total(Copies(d), Ready(b)) >= 1)
                       /\ Held(d, b) = 0
        <3>1. CASE ~InBuffer(a, s)
            <4>1. w.bytes[s] = bytes[s]
                BY <1>6, <1>7, <3>1
            <4> QED BY ONLY <1>4, <1>5, <2>1, <4>1
        <3>2. CASE InBuffer(a, s)
            <4>1. s < 2 * NumExperts /\ s \in Nat /\ \A b \in Buffer : InBuffer(b, s) => b = a
                BY <1>3, <3>2, SlotIs DEF Buffer
            <4>2. Held(c, a) = 0
                BY <1>3, <1>5, <2>1, <3>2
            <4>3. Total(Copies(c), Ready(a)) >= 1
                <5>1. Gathers(c, a, 1)
                    BY DEF Gathers, a, k
                <5>2. Denses(c, a, 1) < Loans(c, a)
                    BY <1>1, <1>2, <1>3, <5>1 DEF StreamInv, GatherInv
                <5>3. /\ Loans(c, a) = Held(c, a) + Total(Copies(c), Ready(a))
                      /\ Total(Copies(c), Ready(a)) \in Nat
                    BY <1>3, LoanTypes
                <5> QED BY <1>3, <1>4, <4>2, <5>2, <5>3
            <4>4. ~(s >= 2 * NumExperts)
                BY <4>1, Geometry
            <4> QED BY <1>3, <1>4, <4>1, <4>2, <4>3, <4>4
        <3> QED BY ONLY <3>1, <3>2
    <2>2. w.slotFor = slotFor /\ w.idOf = idOf
        OBVIOUS
    <2>3. Exact(w.slotFor, w.idOf)
        BY Zenon, <1>5, <2>2
    <2>4. \A s \in Slot : w.idOf[s] # NoId =>
              /\ s >= 2 * NumExperts => w.bytes[s] = w.idOf[s]
              /\ \A b \in Buffer : InBuffer(b, s) =>
                    /\ w.bytes[s] = w.idOf[s] \/ (Splits /\ Total(Copies(d), Ready(b)) >= 1)
                    /\ Held(d, b) = 0
        BY Zenon, <2>1, <2>2
    <2> QED BY Zenon, <2>3, <2>4, ExactIs
<1>12. BufferInv(Plan, d, Expert, w)
    <2> SUFFICES ASSUME NEW b \in Buffer, NEW l, NEW r, Loan(d, Expert, b, 1, l, r)
                 PROVE  /\ Held(d, b) = 1 => \A e \in r \ Kept(Plan, w, l) : w.bytes[Base(b) + e] = <<l, e>>
                        /\ \/ \E i \in 1..Len(Kernels(d)) : Gathers(d, b, i) /\ Denses(d, b, i) = 0
                           \/ \A e \in Kept(Plan, w, l) : w.bytes[Base(b) + e] = <<l, e>>
        BY Zenon DEF BufferInv
    <2>1. Loan(c, Expert, b, 1, l, r) /\ Held(d, b) = Held(c, b) /\ Kept(Plan, w, l) = Kept(Plan, Pool, l)
        BY <1>4 DEF Kept, Pool
    <2>2. /\ Held(c, b) = 1 => \A e \in r \ Kept(Plan, Pool, l) : bytes[Base(b) + e] = <<l, e>>
          /\ \/ \E i \in 1..Len(Kernels(c)) : Gathers(c, b, i) /\ Denses(c, b, i) = 0
             \/ \A e \in Kept(Plan, Pool, l) : bytes[Base(b) + e] = <<l, e>>
        BY <1>1, <2>1 DEF BufferInv, Pool
    <2>3. r \subseteq Expert /\ Kept(Plan, Pool, l) \subseteq Expert
        <3>1. \A i \in 1..Len(Kernels(c)) : Kernels(c)[i].rows \subseteq Expert
            BY StreamTypes DEF Tasks
        <3> QED BY <2>1, <3>1 DEF Loan, Kept, Resident
    <2>4. CASE b = a
        <3>1. l = k
            <4>1. Gathers(c, a, 1) /\ 0 + 1 = 1
                BY DEF Gathers, a, k
            <4>2. Denses(c, a, 1) + 1 = 1
                BY <1>3, <1>4, <4>1
            <4>3. \A j, q : Loan(c, Expert, a, Denses(c, a, 1) + 1, j, q) => j = Kernels(c)[1].layer
                BY <1>1, <1>2, <1>3, <4>1 DEF StreamInv, GatherInv
            <4> QED BY <2>1, <2>4, <4>2, <4>3 DEF k
        <3>2. Kept(Plan, Pool, l) = Resident(slotFor, k)
            BY <1>2, <3>1 DEF Kept, Pool, k
        <3>3. \A e \in r \ Kept(Plan, Pool, l) : w.bytes[Base(b) + e] = bytes[Base(b) + e]
            BY ONLY <1>10, <2>3, <3>2
        <3>4. \A e \in Kept(Plan, w, l) : w.bytes[Base(b) + e] = <<l, e>>
            BY Zenon, <1>9, <2>1, <2>4, <3>1, <3>2
        <3>5. Held(d, b) = 1 => \A e \in r \ Kept(Plan, w, l) : w.bytes[Base(b) + e] = <<l, e>>
            BY Zenon, <2>1, <2>2, <3>3
        <3> QED BY Zenon, <3>4, <3>5
    <2>5. CASE b # a
        <3>1. \A e \in Expert : w.bytes[Base(b) + e] = bytes[Base(b) + e]
            BY <1>10, <2>5
        <3>2. ASSUME NEW i \in 1..Len(Kernels(c)), Gathers(c, b, i), Denses(c, b, i) = 0
              PROVE  \E j \in 1..Len(Kernels(d)) : Gathers(d, b, j) /\ Denses(d, b, j) = 0
            <4>1. i # 1
                BY <2>5, <3>2 DEF Gathers, a, k
            <4>2. i \in 2..Len(Kernels(c)) /\ (i - 1) + 1 = i
                BY <4>1
            <4>3. i - 1 \in 1..Len(Kernels(d)) /\ Kernels(c)[i] = Kernels(d)[i - 1]
                BY <1>2, <4>2 DEF AfterKernel
            <4>4. Denses(c, b, (i - 1) + 1) = Denses(d, b, i - 1)
                BY <1>4, <4>3
            <4> QED BY <3>2, <4>2, <4>3, <4>4 DEF Gathers
        <3> QED BY Zenon, <2>1, <2>2, <2>3, <3>1, <3>2
    <2> QED BY Zenon, <2>4, <2>5
<1>13. HeadInv(Plan, d, w)
    <2> SUFFICES ASSUME Kernels(d) # <<>>
                 PROVE  Kernels(d)[1].do # "gemm" /\ ~(Kernels(d)[1].do = "dense" /\ ~Plan.overlap)
        BY Zenon DEF HeadInv
    <2>1. Kernels(c)[1].do = "gather"
        OBVIOUS
    <2> QED BY <1>1, <2>1, NextHead
<1>14. SnapInv(Plan, d, at, w)
    <2>1. w.slotFor = Pool.slotFor /\ w.snap = Pool.snap
        BY DEF Pool
    <2> QED BY <1>1, <2>1, KernelSnap
<1> QED BY <1>11, <1>12, <1>13, <1>14 DEF PoolInv

\* A layer is copied to its buffer, whose slots lose their names.
LEMMA FillFit ==
    ASSUME TypeInv, NEW at, NEW w, NEW c \in Caches, NEW d \in Caches, CopyRan(c, d), Fit(Plan, c, at, Pool),
           NEW task, task = Copies(c)[1], task.do \in {"fill", "misses"},
           NEW S, S = {task.base + e : e \in Expert},
           NEW rows, rows = IF task.do = "misses" THEN Expert \ Resident(snap, task.layer) ELSE task.rows,
           w.slotFor = Remapped(None, S, [e \in {} |-> None]),
           w.idOf = [s \in Slot |-> IF s \in S THEN NoId ELSE idOf[s]],
           w.bytes = Written(task.layer, [e \in rows |-> task.base + e]),
           w.route = route, w.snap = snap
    PROVE  PoolInv(Plan, d, Expert, w) /\ SnapInv(Plan, d, at, w)
<1> DEFINE k == task.layer
           a == BufferOf(k)
<1>1. /\ StreamInv(Plan, c, Expert) /\ MapInv(Plan, c, Pool) /\ BufferInv(Plan, c, Expert, Pool)
      /\ SnapInv(Plan, c, at, Pool) /\ Copies(c) # <<>>
    BY DEF Fit, PoolInv, CopyRan
<1>2. /\ 1 \in 1..Len(Copies(c)) /\ task \in Tasks /\ AfterCopy(Expert, c, d)
      /\ Saw(Kernels(c), Kernels(d), Copies(c)[1].records)
    <2>1. AfterCopy(Expert, c, d)
        BY <1>1, AfterCopyIs DEF StreamInv
    <2>2. 1 \in 1..Len(Copies(c))
        BY <2>1 DEF AfterCopy
    <2>3. Copies(c)[1] \in Tasks
        BY <2>2, StreamTypes
    <2> QED BY <2>1, <2>2, <2>3 DEF CopyRan
<1>3. /\ Plan.overlap /\ task.base = Base(a) /\ task.records = Ready(a)
      /\ task.do = "misses" <=> k \in Plan.layers
    BY <1>1, <1>2 DEF StreamInv, ShapeInv, CopyShape
<1>4. k \in Layer /\ a \in Buffer /\ task.rows \subseteq Expert /\ rows \subseteq Expert
    <2>1. k \in Layer /\ task.rows \subseteq Expert
        BY <1>2 DEF Tasks
    <2>2. k \in Int
        BY <2>1 DEF Layer
    <2> QED BY <2>1, <2>2, Geometry
<1>5. overlap /\ \A b \in Buffer, e \in Expert : Base(b) + e \in Slot
    BY <1>3, RowsApart, SizeIs, PlanIs
<1> HIDE DEF k, a
<1>6. \A b \in Buffer : Brings(c, b) = (IF b = a THEN 1 ELSE 0)
    <2>1. Event(Copies(c)[1]) = Ready(a)
        BY <1>3, <1>4, EventsDiffer DEF Event
    <2> QED BY <1>4, <2>1, EventsDiffer DEF Brings
<1>7. /\ Held(c, a) = 0 /\ Held(d, a) = 1 /\ Fills(c, a, 1) = 1
      /\ \A b \in Buffer : b # a =>
            Held(d, b) = Held(c, b) /\ Total(Copies(d), Ready(b)) = Total(Copies(c), Ready(b))
    <2> SUFFICES ASSUME NEW b \in Buffer
                 PROVE  /\ b = a => Held(c, b) = 0 /\ Held(d, b) = 1 /\ Fills(c, b, 1) = 1
                        /\ b # a => /\ Held(d, b) = Held(c, b)
                                    /\ Total(Copies(d), Ready(b)) = Total(Copies(c), Ready(b))
        BY <1>4
    <2>1. /\ Brings(c, b) = 1 => Held(c, b) = 0
          /\ Held(d, b) = Held(c, b) + Brings(c, b) /\ Fills(c, b, 1) = Brings(c, b)
          /\ Total(Copies(c), Ready(b)) = Total(Copies(d), Ready(b)) + Brings(c, b)
        BY <1>2 DEF AfterCopy
    <2>2. Held(c, b) \in Int /\ Total(Copies(d), Ready(b)) \in Nat
        BY LoanTypes
    <2> QED BY <1>6, <2>1, <2>2
<1>8. \A b \in Buffer : /\ Loans(d, b) = Loans(c, b)
                        /\ \A m, l, r : Loan(d, Expert, b, m, l, r) <=> Loan(c, Expert, b, m, l, r)
                        /\ \A i \in 1..Len(Kernels(c)) : Denses(d, b, i) = Denses(c, b, i)
    BY <1>2 DEF AfterCopy
<1>9. /\ Len(Kernels(d)) = Len(Kernels(c))
      /\ \A i \in 1..Len(Kernels(c)) :
            Kernels(d)[i].do = Kernels(c)[i].do /\ Kernels(d)[i].layer = Kernels(c)[i].layer
    BY <1>2 DEF Saw
<1>10. /\ Exact(slotFor, idOf)
       /\ \A s \in Slot : idOf[s] # NoId =>
            /\ s >= 2 * NumExperts => bytes[s] = idOf[s]
            /\ \A b \in Buffer : InBuffer(b, s) =>
                  /\ bytes[s] = idOf[s] \/ (Splits /\ Total(Copies(c), Ready(b)) >= 1)
                  /\ Held(c, b) = 0
    BY <1>1, ExactIs DEF Pool
\* The slots of the buffer, by their names.
<1>11. \A s \in Slot : (s \in S <=> InBuffer(a, s)) /\ (s \in S => s < 2 * NumExperts)
    <2> TAKE s \in Slot
    <2>1. s \in Nat /\ NumExperts \in Nat /\ Base(a) \in Nat /\ Base(a) + NumExperts <= 2 * NumExperts
        <3>1. s \in Nat
            BY SlotIs
        <3>2. NumExperts \in Nat /\ (a = 0 => Base(a) = 0) /\ (a = 1 => Base(a) = NumExperts)
            BY Geometry
        <3> QED BY <1>4, <3>1, <3>2 DEF Buffer
    <2>2. s \in S <=> \E e \in Expert : s = Base(a) + e
        BY <1>3
    <2>3. InBuffer(a, s) => s - Base(a) \in Expert /\ s = Base(a) + (s - Base(a))
        BY <2>1 DEF InBuffer, Expert
    <2>4. \A e \in Expert : s = Base(a) + e => InBuffer(a, s) /\ s < 2 * NumExperts
        BY <2>1 DEF InBuffer, Expert
    <2> QED BY <2>2, <2>3, <2>4
<1>12. \A s \in Slot : w.idOf[s] = IF s \in S THEN NoId ELSE idOf[s]
    OBVIOUS
<1>13. \A l \in Layer, e \in Expert : w.slotFor[l][e] = IF slotFor[l][e] \in S THEN None ELSE slotFor[l][e]
    BY DEF Remapped
<1>14. \A s \in Slot : s \notin S => w.bytes[s] = bytes[s]
    <2> TAKE s \in Slot
    <2> HAVE s \notin S
    <2> DEFINE place == [e \in rows |-> task.base + e]
    <2>1. DOMAIN place = rows /\ \A e \in rows : place[e] # s
        BY <1>4
    <2> HIDE DEF place
    <2>2. Written(task.layer, place)[s] = bytes[s]
        BY <2>1 DEF Written
    <2> QED BY <2>2 DEF place
<1>15. /\ \A e \in rows : w.bytes[Base(a) + e] = <<k, e>>
       /\ \A e \in Expert : e \notin rows => w.bytes[Base(a) + e] = bytes[Base(a) + e]
    <2> DEFINE place == [e \in rows |-> task.base + e]
    <2>1. DOMAIN place = rows /\ \A e \in rows : place[e] = Base(a) + e
        BY <1>3
    <2>2. \A s \in Slot : w.bytes[s] = IF \E e \in rows : place[e] = s
                                       THEN <<k, CHOOSE e \in rows : place[e] = s>> ELSE bytes[s]
        BY <2>1 DEF Written, k
    <2> HIDE DEF place
    <2>3. \A e \in Expert, f \in rows : place[f] = Base(a) + e => f = e
        BY <1>4, <2>1, RowsApart
    <2>4. \A e \in rows : Base(a) + e \in Slot /\ (CHOOSE f \in rows : place[f] = Base(a) + e) = e
        BY <1>4, <1>5, <2>1, <2>3
    <2>5. \A e \in rows : w.bytes[Base(a) + e] = <<k, e>>
        BY ZenonT(60), <2>1, <2>2, <2>4
    <2>6. \A e \in Expert : e \notin rows => w.bytes[Base(a) + e] = bytes[Base(a) + e]
        <3> TAKE e \in Expert
        <3> HAVE e \notin rows
        <3>1. Base(a) + e \in Slot
            BY <1>4, <1>5
        <3>2. ~\E f \in rows : place[f] = Base(a) + e
            BY <2>3
        <3> QED BY <2>2, <3>1, <3>2
    <2> QED BY <2>5, <2>6
<1>16. Exact(w.slotFor, w.idOf)
    <2>1. None \notin Slot
        BY DEF None, Slot
    <2>2. ASSUME NEW l \in Layer, NEW e \in Expert, w.slotFor[l][e] # None
          PROVE  w.slotFor[l][e] \in Slot /\ w.idOf[w.slotFor[l][e]] = <<l, e>>
        <3>1. slotFor[l][e] \notin S /\ w.slotFor[l][e] = slotFor[l][e]
            BY <1>13, <2>2
        <3>2. slotFor[l][e] \in Slot /\ idOf[slotFor[l][e]] = <<l, e>>
            BY <1>10, <2>2, <3>1 DEF Exact
        <3> QED BY Zenon, <1>12, <3>1, <3>2
    <2>3. ASSUME NEW s \in Slot, w.idOf[s] # NoId
          PROVE  w.idOf[s] \in Layer \X Expert /\ w.slotFor[w.idOf[s][1]][w.idOf[s][2]] = s
        <3>1. s \notin S /\ w.idOf[s] = idOf[s]
            BY <1>12, <2>3
        <3>2. idOf[s] \in Layer \X Expert /\ slotFor[idOf[s][1]][idOf[s][2]] = s
            BY <1>10, <2>3, <3>1 DEF Exact
        <3> QED BY <1>13, <3>1, <3>2
    <2> QED BY Zenon, <2>2, <2>3 DEF Exact
<1>17. \A l \in Layer : Resident(w.slotFor, l) = Resident(slotFor, l)
    <2> SUFFICES ASSUME NEW l \in Layer, NEW e \in Expert
                 PROVE  w.slotFor[l][e] >= 2 * NumExperts <=> slotFor[l][e] >= 2 * NumExperts
        BY DEF Resident
    <2>1. CASE slotFor[l][e] \in S
        <3>1. slotFor[l][e] \in Slot /\ slotFor[l][e] < 2 * NumExperts
            <4>1. \A f \in Expert : task.base + f \in Slot
                BY <1>3, <1>4, <1>5
            <4>2. slotFor[l][e] \in Slot
                BY <2>1, <4>1
            <4> QED BY <1>11, <2>1, <4>2
        <3>2. w.slotFor[l][e] = None
            BY <1>13, <2>1
        <3>3. slotFor[l][e] \in Nat
            BY <3>1, SlotIs
        <3>4. NumExperts \in Nat /\ ~(-1 >= 2 * NumExperts) /\ None = -1
            BY Geometry DEF None
        <3>5. ~(slotFor[l][e] >= 2 * NumExperts)
            BY <3>1, <3>3, <3>4
        <3> QED BY <3>2, <3>4, <3>5
    <2>2. CASE slotFor[l][e] \notin S
        BY <1>13, <2>2
    <2> QED BY <2>1, <2>2
<1>18. \A l : Kept(Plan, w, l) = Kept(Plan, Pool, l)
    BY <1>17, PlanIs DEF Kept, Pool
<1>19. MapInv(Plan, d, w)
    <2>1. ASSUME NEW s \in Slot, w.idOf[s] # NoId
          PROVE  /\ s >= 2 * NumExperts => w.bytes[s] = w.idOf[s]
                 /\ \A b \in Buffer : InBuffer(b, s) =>
                       /\ w.bytes[s] = w.idOf[s] \/ (Splits /\ Total(Copies(d), Ready(b)) >= 1)
                       /\ Held(d, b) = 0
        <3>1. s \notin S /\ w.idOf[s] = idOf[s] /\ w.bytes[s] = bytes[s]
            BY <1>12, <1>14, <2>1
        <3>2. ~InBuffer(a, s)
            BY <1>11, <3>1
        <3> QED BY <1>7, <1>10, <2>1, <3>1, <3>2
    <2> QED BY <1>16, <2>1, ExactIs
\* The loan that is filled is the first one; the snapshot leaves it what is kept.
<1>20. Kept(Plan, Pool, k) = IF task.do = "misses" THEN Resident(snap, k) ELSE {}
    <2>1. CASE task.do = "misses"
        <3>1. k \in Plan.layers /\ Splits
            BY <1>3, <1>4, <2>1, PlanIs
        <3>2. Loans(c, a) > 0
            <4>1. /\ Loans(c, a) = Held(c, a) + Total(Copies(c), Ready(a))
                  /\ Total(Copies(c), Ready(a)) \in Nat
                BY <1>4, LoanTypes
            <4>2. Total(Copies(c), Ready(a)) = Total(Copies(d), Ready(a)) + 1
                BY <1>2, <1>4, <1>6 DEF AfterCopy
            <4>3. Total(Copies(d), Ready(a)) \in Nat
                BY <1>4, LoanTypes
            <4> QED BY <1>7, <4>1, <4>2, <4>3
        <3>3. Agree(Pool)
            BY <1>1, <1>4, <3>1, <3>2, PlanIs DEF SnapInv
        <3>4. Resident(snap, k) = Resident(slotFor, k)
            BY <1>4, <3>3 DEF Agree, Pool
        <3> QED BY <2>1, <3>1, <3>4 DEF Kept, Pool
    <2>2. CASE task.do # "misses"
        BY <1>3, <2>2 DEF Kept
    <2> QED BY <2>1, <2>2
<1>21. \A l, r : Loan(c, Expert, a, 1, l, r) => l = k /\ r \subseteq task.rows
    <2>1. Event(Copies(c)[1]) = Ready(a)
        BY <1>3, <1>4, EventsDiffer DEF Event
    <2>2. Fills(c, a, 1) + Held(c, a) = 1
        BY <1>7
    <2>3. \A l, r : Loan(c, Expert, a, Fills(c, a, 1) + Held(c, a), l, r) =>
              Copies(c)[1].layer = l /\ r \subseteq Copies(c)[1].rows
        BY <1>1, <1>2, <1>4, <2>1 DEF StreamInv, PairInv
    <2> QED BY <2>2, <2>3 DEF k
<1>22. BufferInv(Plan, d, Expert, w)
    <2> SUFFICES ASSUME NEW b \in Buffer, NEW l, NEW r, Loan(d, Expert, b, 1, l, r)
                 PROVE  /\ Held(d, b) = 1 => \A e \in r \ Kept(Plan, w, l) : w.bytes[Base(b) + e] = <<l, e>>
                        /\ \/ \E i \in 1..Len(Kernels(d)) : Gathers(d, b, i) /\ Denses(d, b, i) = 0
                           \/ \A e \in Kept(Plan, w, l) : w.bytes[Base(b) + e] = <<l, e>>
        BY DEF BufferInv
    <2>0. Loan(c, Expert, b, 1, l, r) /\ Kept(Plan, w, l) = Kept(Plan, Pool, l)
        BY <1>8, <1>18
    <2>1. /\ Held(c, b) = 1 => \A e \in r \ Kept(Plan, Pool, l) : bytes[Base(b) + e] = <<l, e>>
          /\ \/ \E i \in 1..Len(Kernels(c)) : Gathers(c, b, i) /\ Denses(c, b, i) = 0
             \/ \A e \in Kept(Plan, Pool, l) : bytes[Base(b) + e] = <<l, e>>
        BY <1>1, <2>0 DEF BufferInv, Pool
    <2>2. (\E i \in 1..Len(Kernels(c)) : Gathers(c, b, i) /\ Denses(c, b, i) = 0) =>
              \E i \in 1..Len(Kernels(d)) : Gathers(d, b, i) /\ Denses(d, b, i) = 0
        BY <1>8, <1>9 DEF Gathers
    <2>3. r \subseteq Expert /\ Kept(Plan, Pool, l) \subseteq Expert
        <3>1. \A i \in 1..Len(Kernels(c)) : Kernels(c)[i].rows \subseteq Expert
            BY StreamTypes DEF Tasks
        <3> QED BY <2>0, <3>1 DEF Loan, Kept, Resident
    <2>4. CASE b = a
        <3>1. l = k /\ r \subseteq task.rows
            BY <1>21, <2>0, <2>4
        <3>2. \A e \in r \ Kept(Plan, Pool, l) : e \in rows
            BY <1>20, <2>3, <3>1 DEF k
        <3>3. \A e \in Kept(Plan, Pool, l) : e \in Expert /\ e \notin rows
            BY <1>20, <2>3, <3>1 DEF k
        <3>4. \A e \in r \ Kept(Plan, Pool, l) : w.bytes[Base(b) + e] = <<l, e>>
            BY <1>15, <2>4, <3>1, <3>2
        <3>5. \A e \in Kept(Plan, Pool, l) : w.bytes[Base(b) + e] = bytes[Base(b) + e]
            BY <1>15, <2>4, <3>3
        <3> QED BY <2>0, <2>1, <2>2, <3>4, <3>5
    <2>5. CASE b # a
        <3>1. \A e \in Expert : w.bytes[Base(b) + e] = bytes[Base(b) + e]
            <4> TAKE e \in Expert
            <4>1. InBuffer(b, Base(b) + e) /\ Base(b) + e \in Slot
                BY <1>5, RowsApart
            <4>2. ~InBuffer(a, Base(b) + e)
                BY <1>4, <2>5, <4>1, SlotIs DEF Buffer
            <4> QED BY <1>11, <1>14, <4>1, <4>2
        <3> QED BY Zenon, <1>7, <2>0, <2>1, <2>2, <2>3, <2>5, <3>1
    <2> QED BY Zenon, <2>4, <2>5
<1>23. HeadInv(Plan, d, w)
    <2> SUFFICES ASSUME Kernels(d) # <<>> PROVE Kernels(d)[1].do # "gemm"
        BY <1>3 DEF HeadInv
    <2>1. Kernels(c) # <<>> /\ 1 \in 1..Len(Kernels(c))
        <3>1. Kernels(d) \in Seq(Tasks) /\ Kernels(c) \in Seq(Tasks)
            BY StreamTypes
        <3> QED BY <1>9, <3>1
    <2> SUFFICES ASSUME Kernels(c)[1].do = "gemm" PROVE FALSE
        BY <1>9, <2>1
    <2>2. \A b \in Buffer : Ends(c, b) = 0
        BY <1>1, <2>1, HeadIs
    <2>3. Before(c, 1, 1) \/ After(c, 1, 1)
        BY <1>1, <1>2, <2>1 DEF StreamInv, LoadInv, IsLoad
    <2>4. ~After(c, 1, 1)
        BY DEF After
    <2>5. PICK b \in Buffer : Event(Copies(c)[1]) = Ready(b) /\ Fills(c, b, 1) + Held(c, b) <= Denses(c, b, 1)
        BY <2>3, <2>4 DEF Before
    <2>6. b = a
        BY <1>3, <1>4, <2>5, EventsDiffer DEF Event
    <2>7. Denses(c, b, 1) = Ends(c, b)
        <3>1. Kernels(c) \in Seq(Tasks)
            BY StreamTypes
        <3>2. Count(Kernels(c), Release(b), 1) = IF Event(Kernels(c)[1]) = Release(b) THEN 1 ELSE 0
            BY <2>1, <3>1, CountRange
        <3> QED BY <3>2 DEF Denses, Ends
    <2> QED BY <1>7, <2>2, <2>5, <2>6, <2>7
<1>24. SnapInv(Plan, d, at, w)
    <2>1. Agree(Pool) => Agree(w)
        BY <1>17 DEF Agree, Pool
    <2>2. Copies(c)[1].do # "snapshot"
        OBVIOUS
    <2> QED BY <1>1, <2>1, <2>2, CopySnap
<1> QED BY <1>19, <1>22, <1>23, <1>24 DEF PoolInv

-----------------------------------------------------------------------------
(***************************************************************************)
(* The invariant, action by action.                                        *)
(***************************************************************************)
\* A forward pass does not mix layers loaded on demand with layers streamed through
\* the buffers: DSV4OffloadMoELayer would, with short chunks and layers that are not
\* pinned, and what a streamed layer prefetched would be left in its buffer.
ShortsUnlocked == \A v \in Variants : v.short /\ v.movement # "whole" => v.unpinned = {}

LEMMA PlanStays ==
    ASSUME UNCHANGED <<variant, size, overlap>>
    PROVE  Plan' = Plan
BY DEF Plan, Splits, Pinned, Slot

LEMMA PoolStays ==
    ASSUME UNCHANGED device
    PROVE  Pool' = Pool
BY DEF Pool, device

LEMMA EmptyFit ==
    ASSUME NEW p, NEW v, NEW at, ~at.begun, ~(at.kind = "prefill" /\ at.layer > 0),
           v.slotFor = EmptyMap, \A s \in p.slots : v.idOf[s] = NoId
    PROVE  NewCache \in Caches /\ Fit(p, NewCache, at, v)
<1> DEFINE c == NewCache
<1>1. /\ c.stream = [s \in {"compute", "copy"} |-> <<>>] /\ ~c.failed
      /\ c.holds \in [Buffer -> Int] /\ c.released \in [Buffer -> BOOLEAN]
      /\ \A b \in Buffer : c.released[b]
    BY DEF NewCache, None
<1>2. c \in Caches
    <2>1. c.stream \in [{"compute", "copy"} -> Seq(Tasks)] /\ c.failed \in BOOLEAN
        BY <1>1 DEF NewCache
    <2>2. c = [holds |-> c.holds, released |-> c.released, failed |-> c.failed, stream |-> c.stream]
        BY DEF NewCache
    <2> QED BY <1>1, <2>1, <2>2 DEF Caches
<1>3. Kernels(c) = <<>> /\ Copies(c) = <<>>
    BY <1>1 DEF Kernels, Copies
<1> HIDE DEF c
<1>4. Len(Kernels(c)) = 0 /\ Len(Copies(c)) = 0 /\ 1..0 = {}
    BY <1>3
<1>5. \A b \in Buffer : /\ Total(Kernels(c), Release(b)) = 0 /\ Total(Copies(c), Ready(b)) = 0
                        /\ Loans(c, b) = 0 /\ Held(c, b) = 0
    BY <1>1, <1>4, CountZero DEF Total, Loans, Held
<1>6. \A b \in Buffer : \A m, l, r : ~Loan(c, Expert, b, m, l, r)
    BY <1>1, <1>4 DEF Loan
<1>7. StreamInv(p, c, Expert)
    <2>1. ShapeInv(p, c) /\ HeldInv(c) /\ AheadInv(c) /\ PairInv(c, Expert)
        BY <1>4, <1>5 DEF ShapeInv, HeldInv, AheadInv, PairInv
    <2>2. GatherInv(p, c, Expert) /\ LoadInv(p, c) /\ ChainInv(p, c)
        BY <1>4, <1>6 DEF GatherInv, LoadInv, ChainInv
    <2> QED BY <2>1, <2>2 DEF StreamInv
<1>8. PassInv(p, c, at)
    BY <1>1, <1>4 DEF PassInv
<1>9. MapInv(p, c, v)
    BY DEF MapInv, EmptyMap
<1>10. BufferInv(p, c, Expert, v) /\ HeadInv(p, c, v)
    BY <1>3, <1>6 DEF BufferInv, HeadInv
<1>11. SnapInv(p, c, at, v)
    BY <1>5 DEF SnapInv
<1> QED BY <1>2, <1>7, <1>8, <1>9, <1>10, <1>11 DEF Fit, PoolInv, c

LEMMA InitIInv == Init => IInv
<1> SUFFICES ASSUME Init PROVE IInv
    OBVIOUS
<1>1. ~pass.begun /\ ~(pass.kind = "prefill" /\ pass.layer > 0) /\ cache = NewCache
    BY DEF Init, Idle
<1>2. Pool.slotFor = EmptyMap /\ \A s \in Plan.slots : Pool.idOf[s] = NoId
    BY PlanIs DEF Init, Pool
<1>3. NewCache \in Caches /\ Fit(Plan, NewCache, pass, Pool)
    BY <1>1, <1>2, EmptyFit
<1>4. TypeInv
    <2>1. EmptyMap \in [Layer -> [Expert -> Int]]
        BY DEF EmptyMap, None
    <2>2. pass \in [kind : {"idle", "decode", "prefill", "short"}, layer : 0..NumLayers, begun : BOOLEAN]
        BY Geometry DEF Init, Idle
    <2>3. pass.kind # "short" /\ overlap \in BOOLEAN /\ (overlap => variant.movement # "whole")
        BY DEF Init, Idle
    <2> QED BY <1>1, <1>3, <2>1, <2>2, <2>3 DEF Init, TypeInv
<1> QED BY <1>1, <1>3, <1>4 DEF IInv

\* What a host action leaves to show.
LEMMA HostKeeps ==
    ASSUME IInv, UNCHANGED <<variant, size, overlap, device>>, cache' \in Caches,
           pass' \in [kind : {"idle", "decode", "prefill", "short"}, layer : 0..NumLayers, begun : BOOLEAN],
           pass'.kind = "short" => variant.short, Fit(Plan, cache', pass', Pool)
    PROVE  IInv'
<1>1. Plan' = Plan /\ Pool' = Pool
    BY PlanStays, PoolStays
<1>2. TypeInv'
    BY DEF IInv, TypeInv, device, Slot
<1> QED BY <1>1, <1>2 DEF IInv

\* A pass that is no overlapped prefill has neither a buffer nor a snapshot out.
LEMMA NotBegun ==
    ASSUME IInv, ~pass.begun
    PROVE  NoSnapshot(cache) /\ \A b \in Buffer : cache.released[b]
BY DEF IInv, Fit, PassInv, NoSnapshot

LEMMA PassIs ==
    ASSUME IInv
    PROVE  /\ pass.kind \in {"idle", "decode", "prefill", "short"} /\ pass.layer \in 0..NumLayers
           /\ pass.begun \in BOOLEAN /\ cache \in Caches
           /\ pass.begun => pass.kind = "prefill" /\ overlap
           /\ pass.kind = "short" => variant.short
           /\ pass.layer < NumLayers => pass.layer \in Layer /\ pass.layer + 1 \in 0..NumLayers
<1>1. pass.kind \in {"idle", "decode", "prefill", "short"} /\ pass.layer \in 0..NumLayers /\ pass.begun \in BOOLEAN
    BY DEF IInv, TypeInv
<1>2. pass.begun => pass.kind = "prefill" /\ overlap
    BY PlanIs DEF IInv, Fit, PassInv
<1>3. pass.layer < NumLayers => pass.layer \in Layer /\ pass.layer + 1 \in 0..NumLayers
    BY <1>1, Geometry DEF Layer
<1> QED BY <1>1, <1>2, <1>3 DEF IInv, TypeInv

LEMMA LaunchKeeps == IInv /\ Launch => IInv'
<1> SUFFICES ASSUME IInv, Launch PROVE IInv'
    OBVIOUS
<1>1. ~pass.begun
    BY PassIs DEF Launch
<1>2. PICK kind \in {"decode", "prefill"} \cup (IF variant.short THEN {"short"} ELSE {}) :
          pass' = [Idle EXCEPT !.kind = kind]
    BY DEF Launch
<1>3. /\ pass' \in [kind : {"idle", "decode", "prefill", "short"}, layer : 0..NumLayers, begun : BOOLEAN]
      /\ pass'.kind = "short" => variant.short
      /\ ~pass'.begun /\ pass'.layer = 0
    <2>1. pass' = [kind |-> kind, layer |-> 0, begun |-> FALSE]
        BY <1>2 DEF Idle
    <2>2. kind \in {"decode", "prefill", "short"} /\ (kind = "short" => variant.short)
        OBVIOUS
    <2>3. 0 \in 0..NumLayers
        BY Geometry
    <2> QED BY <2>1, <2>2, <2>3
<1>4. Fit(Plan, cache, pass', Pool)
    <2>1. StreamInv(Plan, cache, Expert) /\ PoolInv(Plan, cache, Expert, Pool) /\ Fit(Plan, cache, pass, Pool)
        BY DEF IInv, Fit
    <2>2. ~(pass'.kind = "prefill" /\ overlap /\ pass'.layer > 0)
        BY <1>3
    <2> QED BY <1>1, <1>3, <2>1, <2>2, NotBegun, UnbegunFit
<1>5. cache' = cache /\ UNCHANGED <<variant, size, overlap, device>>
    BY DEF Launch
<1> QED BY <1>3, <1>4, <1>5, HostKeeps, PassIs

LEMMA BeginPrefillKeeps ==
    ASSUME ShortsUnlocked, IInv, BeginPrefill
    PROVE  IInv'
<1>1. pass.kind = "prefill"
    <2>1. ASSUME pass.kind = "short", overlap PROVE Pinned(pass.layer)
        BY <2>1, PassIs DEF ShortsUnlocked, Pinned, IInv, TypeInv
    <2> QED BY <2>1 DEF BeginPrefill, Streams
<1>2. /\ overlap /\ pass.layer = 0 /\ ~pass.begun /\ cache' = Begun(cache) /\ pass' = [pass EXCEPT !.begun = TRUE]
      /\ UNCHANGED <<variant, size, overlap, device>>
    BY DEF BeginPrefill
<1>3. /\ pass' \in [kind : {"idle", "decode", "prefill", "short"}, layer : 0..NumLayers, begun : BOOLEAN]
      /\ pass'.kind = "prefill" /\ pass'.layer = 0 /\ pass'.begun
    BY <1>1, <1>2 DEF IInv, TypeInv
<1>4. Begun(cache) \in Caches /\ Fit(Plan, Begun(cache), pass', Pool)
    BY <1>2, <1>3, PassIs, BegunFit DEF IInv
<1> QED BY <1>2, <1>3, <1>4, HostKeeps

LEMMA NextLayerKeeps ==
    ASSUME IInv, NEW c \in Caches, NextLayer(c), pass.layer < NumLayers,
           Fit(Plan, c, [pass EXCEPT !.layer = @ + 1], Pool)
    PROVE  IInv'
<1>1. cache' = c /\ pass' = [pass EXCEPT !.layer = @ + 1] /\ UNCHANGED <<variant, size, overlap, device>>
    BY DEF NextLayer
<1>2. /\ pass' \in [kind : {"idle", "decode", "prefill", "short"}, layer : 0..NumLayers, begun : BOOLEAN]
      /\ pass'.kind = "short" => variant.short
    BY <1>1, PassIs DEF IInv, TypeInv
<1> QED BY <1>1, <1>2, HostKeeps

LEMMA StreamLayerKeeps ==
    ASSUME ShortsUnlocked, IInv, StreamLayer
    PROVE  IInv'
<1> DEFINE l == pass.layer
           next == [pass EXCEPT !.layer = @ + 1]
<1>1. pass.kind = "prefill" /\ l < NumLayers /\ overlap /\ (l = 0 => pass.begun)
    <2>1. ASSUME pass.kind = "short", overlap PROVE Pinned(pass.layer)
        BY <2>1, PassIs DEF ShortsUnlocked, Pinned, IInv, TypeInv
    <2> QED BY <2>1 DEF StreamLayer, Streams
<1>2. pass.begun
    <2>1. l > 0 => pass.begun
        BY <1>1, PlanIs DEF IInv, Fit, PassInv
    <2>2. l \in Nat
        BY PassIs, Geometry
    <2> QED BY <1>1, <2>1, <2>2
<1>3. PICK rows \in (IF variant.movement = "sparse" THEN SUBSET Expert \ {{}} ELSE {Expert}) :
          NextLayer(Streamed(cache, l, rows))
    BY DEF StreamLayer
<1>4. rows \in SUBSET Expert /\ (variant.movement # "sparse" => rows = Expert)
    BY <1>3
<1>5. Splits /\ l = 0 => Copies(cache) = <<>>
    BY DEF StreamLayer, Copies
<1>6. next.begun /\ next.kind = pass.kind /\ next.layer = l + 1
    BY <1>2 DEF IInv, TypeInv
<1>7. l \in Layer /\ cache \in Caches /\ Fit(Plan, cache, pass, Pool)
    BY <1>1, PassIs DEF IInv
<1> HIDE DEF next
<1>8. Streamed(cache, l, rows) \in Caches /\ Fit(Plan, Streamed(cache, l, rows), next, Pool)
    BY <1>1, <1>2, <1>4, <1>5, <1>6, <1>7, StreamedFit
<1> QED BY <1>1, <1>3, <1>8, NextLayerKeeps DEF next

LEMMA OtherLayersKeep ==
    ASSUME IInv, WholeLayer \/ LoadLayer \/ CpuLayer
    PROVE  IInv'
<1> DEFINE l == pass.layer
           next == [pass EXCEPT !.layer = @ + 1]
<1>1. l < NumLayers /\ l \in Layer /\ cache \in Caches /\ Fit(Plan, cache, pass, Pool)
    BY PassIs DEF WholeLayer, LoadLayer, CpuLayer, Streams, IInv
<1>2. ~pass.begun /\ ~next.begun /\ ~(next.kind = "prefill" /\ overlap /\ next.layer > 0)
    <2>1. next.begun = pass.begun /\ next.kind = pass.kind
        BY DEF IInv, TypeInv
    <2> QED BY <2>1, PassIs DEF WholeLayer, LoadLayer, CpuLayer
<1> HIDE DEF next
<1>3. /\ ~overlap => Materialized(cache, l) \in Caches /\ Fit(Plan, Materialized(cache, l), next, Pool)
      /\ OnDemand(cache, l) \in Caches /\ Fit(Plan, OnDemand(cache, l), next, Pool)
    BY <1>1, <1>2, PairFit
<1>4. Fit(Plan, cache, next, Pool)
    <2>1. StreamInv(Plan, cache, Expert) /\ PoolInv(Plan, cache, Expert, Pool)
        BY <1>1 DEF Fit
    <2> QED BY <1>1, <1>2, <2>1, NotBegun, UnbegunFit
<1>5. CASE WholeLayer
    BY <1>1, <1>3, <1>5, NextLayerKeeps DEF WholeLayer, next
<1>6. CASE LoadLayer
    BY <1>1, <1>3, <1>6, NextLayerKeeps DEF LoadLayer, next
<1>7. CASE CpuLayer
    BY <1>1, <1>4, <1>7, NextLayerKeeps DEF CpuLayer, next
<1> QED BY <1>5, <1>6, <1>7

LEMMA FinishKeeps == IInv /\ Finish => IInv'
<1> SUFFICES ASSUME IInv, Finish PROVE IInv'
    OBVIOUS
<1>1. /\ pass.layer = NumLayers /\ pass' = Idle /\ cache' = Send(cache, "compute", Task("done", 0))
      /\ UNCHANGED <<variant, size, overlap, device>>
    BY DEF Finish
<1>2. cache' \in Caches /\ Fit(Plan, cache', Idle, Pool)
    BY <1>1, PassIs, FinishFit DEF IInv
<1>3. /\ Idle \in [kind : {"idle", "decode", "prefill", "short"}, layer : 0..NumLayers, begun : BOOLEAN]
      /\ Idle.kind # "short"
    BY Geometry DEF Idle
<1> QED BY <1>1, <1>2, <1>3, HostKeeps

LEMMA RebuildKeeps == IInv /\ Rebuild => IInv'
<1> SUFFICES ASSUME IInv, Rebuild PROVE IInv'
    OBVIOUS
<1>1. PICK n \in variant.sizes :
          /\ variant.movement = "sparse" => n >= 2 * NumExperts
          /\ size' = n /\ overlap' = (overlap /\ n >= 2 * NumExperts)
          /\ idOf' = [s \in 0..(n - 1) |-> NoId]
    BY DEF Rebuild
<1>2. pass.kind = "idle" /\ slotFor' = EmptyMap /\ cache' = NewCache /\ UNCHANGED <<variant, pass, route, snap>>
    BY DEF Rebuild
<1>3. ~pass.begun
    BY <1>2, PassIs
<1>4. Pool'.slotFor = EmptyMap /\ \A s \in Plan'.slots : Pool'.idOf[s] = NoId
    BY <1>1, <1>2 DEF Pool, Plan, Slot
<1>5. NewCache \in Caches /\ Fit(Plan', NewCache, pass, Pool')
    <2>1. ~(pass.kind = "prefill" /\ pass.layer > 0)
        BY <1>2
    <2> QED BY <1>3, <1>4, <2>1, EmptyFit
<1>6. TypeInv'
    <2>1. EmptyMap \in [Layer -> [Expert -> Int]]
        BY DEF EmptyMap, None
    <2> QED BY <1>1, <1>2, <1>5, <2>1 DEF IInv, TypeInv, Slot
<1> QED BY <1>2, <1>5, <1>6 DEF IInv

LEMMA RemappedType ==
    ASSUME TypeInv, NEW l, NEW S, NEW place, \A e \in DOMAIN place : place[e] \in Int
    PROVE  Remapped(l, S, place) \in [Layer -> [Expert -> Int]]
BY DEF Remapped, TypeInv, None

\* What a device action leaves to show.
LEMMA DeviceKeeps ==
    ASSUME IInv, UNCHANGED <<variant, size, overlap, pass>>, cache' \in Caches,
           slotFor' \in [Layer -> [Expert -> Int]], DOMAIN idOf' = Slot, snap' \in [Layer -> [Expert -> Int]],
           StreamInv(Plan, cache', Expert), PassInv(Plan, cache', pass),
           PoolInv(Plan, cache', Expert, Pool'), SnapInv(Plan, cache', pass, Pool')
    PROVE  IInv'
<1>1. Plan' = Plan
    BY PlanStays
<1>2. TypeInv'
    BY DEF IInv, TypeInv, Slot
<1> QED BY <1>1, <1>2 DEF IInv, Fit

LEMMA ComputeRuns ==
    ASSUME IInv, NEW kinds, Runs("compute", kinds)
    PROVE  /\ cache \in Caches /\ cache' \in Caches /\ KernelRan(cache, cache')
           /\ Kernels(cache)[1].do \in kinds /\ Kernels(cache)[1] = Head(cache.stream["compute"])
           /\ Kernels(cache)[1].layer \in Layer
           /\ UNCHANGED <<variant, size, overlap, pass>>
           /\ StreamInv(Plan, cache, Expert) /\ Fit(Plan, cache, pass, Pool)
           /\ StreamInv(Plan, cache', Expert) /\ PassInv(Plan, cache', pass)
<1>1. cache \in Caches /\ Fit(Plan, cache, pass, Pool) /\ StreamInv(Plan, cache, Expert) /\ PassInv(Plan, cache, pass)
    BY PassIs DEF IInv, Fit
<1>2. cache' \in Caches /\ KernelRan(cache, cache')
    BY <1>1, RanIs DEF Runs
<1>3. StreamInv(Plan, cache', Expert)
    BY <1>1, <1>2, KernelRanStream
<1>4. PassInv(Plan, cache', pass)
    BY <1>1, <1>2, KernelRanPass
<1>5. Kernels(cache)[1] = Head(cache.stream["compute"]) /\ Kernels(cache)[1].layer \in Layer
    <2>1. Kernels(cache)[1] \in Tasks
        BY <1>1, <1>2, HeadIs DEF KernelRan
    <2> QED BY <2>1 DEF Kernels, Tasks
<1> QED BY <1>1, <1>2, <1>3, <1>4, <1>5 DEF Runs

LEMMA CopyRuns ==
    ASSUME IInv, NEW kinds, Runs("copy", kinds)
    PROVE  /\ cache \in Caches /\ cache' \in Caches /\ CopyRan(cache, cache')
           /\ Copies(cache)[1].do \in kinds /\ Copies(cache)[1] = Head(cache.stream["copy"])
           /\ UNCHANGED <<variant, size, overlap, pass>>
           /\ StreamInv(Plan, cache, Expert) /\ Fit(Plan, cache, pass, Pool)
           /\ StreamInv(Plan, cache', Expert) /\ PassInv(Plan, cache', pass)
<1>1. cache \in Caches /\ Fit(Plan, cache, pass, Pool) /\ StreamInv(Plan, cache, Expert) /\ PassInv(Plan, cache, pass)
    BY PassIs DEF IInv, Fit
<1>2. cache' \in Caches /\ CopyRan(cache, cache')
    BY <1>1, RanIs DEF Runs
<1>3. StreamInv(Plan, cache', Expert)
    BY <1>1, <1>2, CopyRanStream
<1>4. PassInv(Plan, cache', pass)
    BY <1>1, <1>2, CopyRanPass
<1>5. Copies(cache)[1] = Head(cache.stream["copy"])
    BY DEF Copies
<1> QED BY <1>1, <1>2, <1>3, <1>4, <1>5 DEF Runs

LEMMA ComputeKeeps == IInv /\ Compute => IInv'
<1> SUFFICES ASSUME IInv, Compute PROVE IInv'
    OBVIOUS
<1> DEFINE c == cache
           d == cache'
<1>1. Runs("compute", {"dense", "gemm", "mark", "done"}) /\ UNCHANGED device
    BY DEF Compute
<1>2. /\ c \in Caches /\ d \in Caches /\ KernelRan(c, d) /\ Kernels(c)[1].do \in {"dense", "gemm", "mark", "done"}
      /\ UNCHANGED <<variant, size, overlap, pass>>
      /\ StreamInv(Plan, c, Expert) /\ Fit(Plan, c, pass, Pool)
      /\ StreamInv(Plan, d, Expert) /\ PassInv(Plan, d, pass)
    BY <1>1, ComputeRuns
<1> HIDE DEF c, d
<1>3. PoolInv(Plan, d, Expert, Pool)
    BY <1>2, KernelQuiet DEF Fit
<1>4. SnapInv(Plan, d, pass, Pool)
    BY <1>2, KernelSnap DEF Fit
<1>5. Pool' = Pool
    BY <1>1, PoolStays
<1> QED BY <1>1, <1>2, <1>3, <1>4, <1>5, DeviceKeeps DEF IInv, TypeInv, device, d

LEMMA FenceKeeps == IInv /\ Fence => IInv'
<1> SUFFICES ASSUME IInv, Fence PROVE IInv'
    OBVIOUS
<1> DEFINE c == cache
           d == cache'
<1>1. Runs("copy", {"mark"}) /\ UNCHANGED device
    BY DEF Fence
<1>2. /\ c \in Caches /\ d \in Caches /\ CopyRan(c, d) /\ Copies(c)[1].do \in {"mark"}
      /\ UNCHANGED <<variant, size, overlap, pass>>
      /\ StreamInv(Plan, c, Expert) /\ Fit(Plan, c, pass, Pool)
      /\ StreamInv(Plan, d, Expert) /\ PassInv(Plan, d, pass)
    BY <1>1, CopyRuns
<1> HIDE DEF c, d
<1>3. PoolInv(Plan, d, Expert, Pool)
    BY <1>2, CopyQuiet DEF Fit
<1>4. SnapInv(Plan, d, pass, Pool)
    BY <1>2, CopySnap DEF Fit
<1>5. Pool' = Pool
    BY <1>1, PoolStays
<1> QED BY <1>1, <1>2, <1>3, <1>4, <1>5, DeviceKeeps DEF IInv, TypeInv, device, d

LEMMA SnapshotKeeps == IInv /\ Snapshot => IInv'
<1> SUFFICES ASSUME IInv, Snapshot PROVE IInv'
    OBVIOUS
<1> DEFINE c == cache
           d == cache'
           v == Pool
           w == Pool'
<1>1. Runs("copy", {"snapshot"}) /\ snap' = slotFor /\ UNCHANGED <<slotFor, idOf, bytes, route>>
    BY DEF Snapshot
<1>2. /\ c \in Caches /\ d \in Caches /\ CopyRan(c, d) /\ Copies(c)[1].do \in {"snapshot"}
      /\ UNCHANGED <<variant, size, overlap, pass>>
      /\ StreamInv(Plan, c, Expert) /\ Fit(Plan, c, pass, v)
      /\ StreamInv(Plan, d, Expert) /\ PassInv(Plan, d, pass)
    BY <1>1, CopyRuns
<1>3. w.slotFor = v.slotFor /\ w.idOf = v.idOf /\ w.bytes = v.bytes /\ w.route = v.route
    BY <1>1 DEF Pool
<1>4. Agree(w)
    BY <1>1 DEF Agree, Pool, Resident
<1> HIDE DEF c, d, v, w
<1>5. PoolInv(Plan, d, Expert, w)
    BY <1>2, <1>3, CopyQuiet DEF Fit
<1>6. SnapInv(Plan, d, pass, w)
    BY <1>2, <1>4, CopySnap DEF Fit
<1> QED BY <1>1, <1>2, <1>5, <1>6, DeviceKeeps DEF IInv, TypeInv, d, w

LEMMA LoadKeeps == IInv /\ Load => IInv'
<1> SUFFICES ASSUME IInv, Load PROVE IInv'
    OBVIOUS
<1> DEFINE c == cache
           d == cache'
           w == Pool'
           l == Head(cache.stream["compute"]).layer
<1>1. Runs("compute", {"load"}) /\ snap' = snap
    BY Zenon DEF Load
<1>2. /\ c \in Caches /\ d \in Caches /\ KernelRan(c, d) /\ Kernels(c)[1].do \in {"load"}
      /\ Kernels(c)[1].layer = l /\ l \in Layer
      /\ UNCHANGED <<variant, size, overlap, pass>>
      /\ StreamInv(Plan, c, Expert) /\ Fit(Plan, c, pass, Pool)
      /\ StreamInv(Plan, d, Expert) /\ PassInv(Plan, d, pass)
    BY <1>1, ComputeRuns
<1>3. PICK rows \in SUBSET Expert :
          LET hits == {e \in rows : slotFor[l][e] # None}
              missing == rows \ hits
              num == Min({FetchCap, Cardinality(missing)})
          IN  \E fetched \in kSubset(num, missing),
                 S \in Victims(num, {slotFor[l][e] : e \in hits}) :
                 \E place \in [fetched -> S] :
                    /\ \A s \in S : \E e \in fetched : place[e] = s
                    /\ slotFor' = Remapped(l, S, place)
                    /\ idOf' = Renamed(l, S, place)
                    /\ bytes' = Written(l, place)
                    /\ route' = [e \in hits \cup fetched |->
                                    IF e \in fetched THEN place[e] ELSE slotFor[l][e]]
    BY Zenon DEF Load, kSubset
<1> DEFINE hits == {e \in rows : slotFor[l][e] # None}
           missing == rows \ hits
           num == Min({FetchCap, Cardinality(missing)})
           used == {slotFor[l][e] : e \in hits}
<1>4. PICK fetched \in kSubset(num, missing), S \in Victims(num, {slotFor[l][e] : e \in hits}) :
          \E place \in [fetched -> S] :
             /\ \A s \in S : \E e \in fetched : place[e] = s
             /\ slotFor' = Remapped(l, S, place)
             /\ idOf' = Renamed(l, S, place)
             /\ bytes' = Written(l, place)
             /\ route' = [e \in hits \cup fetched |-> IF e \in fetched THEN place[e] ELSE slotFor[l][e]]
    BY Zenon, <1>3
<1>5. PICK place \in [fetched -> S] :
          /\ \A s \in S : \E e \in fetched : place[e] = s
          /\ slotFor' = Remapped(l, S, place)
          /\ idOf' = Renamed(l, S, place)
          /\ bytes' = Written(l, place)
          /\ route' = [e \in hits \cup fetched |-> IF e \in fetched THEN place[e] ELSE slotFor[l][e]]
    BY Zenon, <1>4
<1>6. /\ fetched \in SUBSET Expert /\ hits \in SUBSET Expert /\ num = Cardinality(fetched)
      /\ \A e \in hits : slotFor[l][e] # None
      /\ \A e \in fetched : slotFor[l][e] = None
    BY Zenon DEF kSubset
<1>7. TypeInv /\ Exact(slotFor, idOf)
    <2>1. MapInv(Plan, c, Pool)
        BY Zenon, <1>2 DEF Fit, PoolInv
    <2>2. Exact(Pool.slotFor, Pool.idOf)
        BY Zenon, <2>1, ExactIs
    <2>3. Pool.slotFor = slotFor /\ Pool.idOf = idOf
        BY ONLY DEF Pool
    <2>4. TypeInv
        BY Zenon DEF IInv
    <2> QED BY Zenon, <2>2, <2>3, <2>4
<1>8. w.slotFor = Remapped(l, S, place) /\ w.idOf = Renamed(l, S, place) /\ w.bytes = Written(l, place)
      /\ w.route = [e \in hits \cup fetched |-> IF e \in fetched THEN place[e] ELSE slotFor[l][e]]
    BY Zenon, <1>5 DEF Pool
<1>9. S \in Victims(Cardinality(fetched), used) /\ \A e \in hits : slotFor[l][e] \in used
    BY Zenon, <1>6
<1> HIDE DEF c, d, w, l, hits, missing, num, used
<1>10. Fresh(l, hits, fetched, S, place)
    <2>1. \A s \in S : \E e \in fetched : place[e] = s
        BY <1>5
    <2>2. l \in Layer /\ fetched \in SUBSET Expert /\ hits \in SUBSET Expert
          /\ \A e \in hits : slotFor[l][e] # None
        BY <1>2, <1>6
    <2> QED BY <1>7, <1>9, <2>1, <2>2, VictimsAre
<1>11. PoolInv(Plan, d, Expert, w) /\ SnapInv(Plan, d, pass, w)
    <2>1. Kernels(c)[1].do = "load"
        BY <1>2
    <2>2. Loaded(l, hits, fetched, S, place, w)
        BY <1>6, <1>8, <1>10 DEF Loaded
    <2> QED BY <1>2, <2>1, <2>2, LoadFit
<1>12. slotFor' \in [Layer -> [Expert -> Int]] /\ DOMAIN idOf' = Slot
    <2>1. \A e \in DOMAIN place : place[e] \in Int
        <3>1. DOMAIN place = fetched /\ \A e \in fetched : place[e] \in S
            OBVIOUS
        <3>2. \A s \in Slot : s \in Int
            BY DEF Slot
        <3> QED BY <1>10, <3>1, <3>2 DEF Fresh
    <2> QED BY <1>5, <1>7, <2>1, RemappedType DEF Renamed
<1> QED BY <1>1, <1>2, <1>11, <1>12, DeviceKeeps DEF IInv, TypeInv, d, w

LEMMA MaterializeKeeps == IInv /\ Materialize => IInv'
<1> SUFFICES ASSUME IInv, Materialize PROVE IInv'
    OBVIOUS
<1> DEFINE c == cache
           d == cache'
           w == Pool'
           l == Head(cache.stream["compute"]).layer
           place == [e \in Expert |-> e]
           S == Expert \cup {s \in Slot : idOf[s][1] = l}
<1>1. Runs("compute", {"materialize"}) /\ route' = route /\ snap' = snap
    BY DEF Materialize
<1>2. /\ c \in Caches /\ d \in Caches /\ KernelRan(c, d) /\ Kernels(c)[1].do \in {"materialize"}
      /\ Kernels(c)[1].layer = l /\ l \in Layer
      /\ UNCHANGED <<variant, size, overlap, pass>>
      /\ StreamInv(Plan, c, Expert) /\ Fit(Plan, c, pass, Pool)
      /\ StreamInv(Plan, d, Expert) /\ PassInv(Plan, d, pass)
    BY <1>1, ComputeRuns
<1>3. slotFor' = Remapped(l, S, place) /\ idOf' = Renamed(l, S, place) /\ bytes' = Written(l, place)
    BY DEF Materialize
<1>4. w.slotFor = Remapped(l, S, place) /\ w.idOf = Renamed(l, S, place) /\ w.bytes = Written(l, place)
    BY <1>3 DEF Pool
<1>5. TypeInv
    BY DEF IInv
<1>6. \A e \in DOMAIN place : place[e] \in Int
    BY DEF Expert
<1>7. Kernels(c)[1].do = "materialize" /\ Kernels(c)[1].layer = l
    BY <1>2
<1>8. S = Expert \cup {s \in Slot : idOf[s][1] = l} /\ place = [e \in Expert |-> e]
    OBVIOUS
<1> HIDE DEF c, d, w, l, S, place
<1>9. PoolInv(Plan, d, Expert, w) /\ SnapInv(Plan, d, pass, w)
    BY <1>2, <1>4, <1>5, <1>7, <1>8, MaterializeFit
<1>10. slotFor' \in [Layer -> [Expert -> Int]] /\ DOMAIN idOf' = Slot
    BY <1>3, <1>5, <1>6, RemappedType DEF Renamed
<1> QED BY <1>1, <1>2, <1>9, <1>10, DeviceKeeps DEF IInv, TypeInv, d, w

LEMMA GatherKeeps == IInv /\ Gather => IInv'
<1> SUFFICES ASSUME IInv, Gather PROVE IInv'
    OBVIOUS
<1> DEFINE c == cache
           d == cache'
           w == Pool'
           task == Head(cache.stream["compute"])
<1>1. Runs("compute", {"gather"}) /\ UNCHANGED <<slotFor, idOf, route, snap>>
    BY DEF Gather
<1>2. /\ c \in Caches /\ d \in Caches /\ KernelRan(c, d) /\ Kernels(c)[1].do \in {"gather"}
      /\ Kernels(c)[1] = task
      /\ UNCHANGED <<variant, size, overlap, pass>>
      /\ StreamInv(Plan, c, Expert) /\ Fit(Plan, c, pass, Pool)
      /\ StreamInv(Plan, d, Expert) /\ PassInv(Plan, d, pass)
    BY <1>1, ComputeRuns
<1>3. bytes' = [s \in Slot |-> IF s - task.base \in Resident(slotFor, task.layer)
                               THEN bytes[slotFor[task.layer][s - task.base]] ELSE bytes[s]]
    BY DEF Gather
<1>4. /\ w.slotFor = slotFor /\ w.idOf = idOf /\ w.route = route /\ w.snap = snap
      /\ w.bytes = [s \in Slot |-> IF s - task.base \in Resident(slotFor, task.layer)
                                   THEN bytes[slotFor[task.layer][s - task.base]] ELSE bytes[s]]
    BY <1>1, <1>3 DEF Pool
<1>5. TypeInv
    BY DEF IInv
<1> HIDE DEF c, d, w, task
<1>6. task = Kernels(c)[1] /\ task.do = "gather"
    BY <1>2
<1>7. PoolInv(Plan, d, Expert, w) /\ SnapInv(Plan, d, pass, w)
    BY <1>2, <1>4, <1>5, <1>6, GatherFit
<1> QED BY <1>1, <1>2, <1>7, DeviceKeeps DEF IInv, TypeInv, d, w

LEMMA FillKeeps == IInv /\ Fill => IInv'
<1> SUFFICES ASSUME IInv, Fill PROVE IInv'
    OBVIOUS
<1> DEFINE c == cache
           d == cache'
           w == Pool'
           task == Head(cache.stream["copy"])
           S == {task.base + e : e \in Expert}
           rows == IF task.do = "misses" THEN Expert \ Resident(snap, task.layer) ELSE task.rows
<1>1. Runs("copy", {"fill", "misses"}) /\ UNCHANGED <<route, snap>>
    BY DEF Fill
<1>2. /\ c \in Caches /\ d \in Caches /\ CopyRan(c, d) /\ Copies(c)[1].do \in {"fill", "misses"}
      /\ Copies(c)[1] = task
      /\ UNCHANGED <<variant, size, overlap, pass>>
      /\ StreamInv(Plan, c, Expert) /\ Fit(Plan, c, pass, Pool)
      /\ StreamInv(Plan, d, Expert) /\ PassInv(Plan, d, pass)
    BY <1>1, CopyRuns
<1>3. /\ slotFor' = Remapped(None, S, [e \in {} |-> None])
      /\ idOf' = [s \in Slot |-> IF s \in S THEN NoId ELSE idOf[s]]
      /\ bytes' = Written(task.layer, [e \in rows |-> task.base + e])
    BY DEF Fill, Disowned
<1>4. /\ w.slotFor = Remapped(None, S, [e \in {} |-> None])
      /\ w.idOf = [s \in Slot |-> IF s \in S THEN NoId ELSE idOf[s]]
      /\ w.bytes = Written(task.layer, [e \in rows |-> task.base + e])
      /\ w.route = route /\ w.snap = snap
    BY <1>1, <1>3 DEF Pool
<1>5. TypeInv
    BY DEF IInv
<1>6. S = {task.base + e : e \in Expert}
      /\ rows = IF task.do = "misses" THEN Expert \ Resident(snap, task.layer) ELSE task.rows
    OBVIOUS
<1> HIDE DEF c, d, w, task, S, rows
<1>7. task = Copies(c)[1] /\ task.do \in {"fill", "misses"}
    BY <1>2
<1>8. PoolInv(Plan, d, Expert, w) /\ SnapInv(Plan, d, pass, w)
    BY <1>2, <1>4, <1>5, <1>6, <1>7, FillFit
<1>9. slotFor' \in [Layer -> [Expert -> Int]] /\ DOMAIN idOf' = Slot
    BY <1>3, <1>5, RemappedType
<1> QED BY <1>1, <1>2, <1>8, <1>9, DeviceKeeps DEF IInv, TypeInv, d, w

(***************************************************************************)
(* Every step keeps the invariant, where no deployment serves short chunks *)
(* on demand beside layers it has not pinned and streams.                  *)
(***************************************************************************)
LEMMA NextKeeps ==
    ASSUME ShortsUnlocked, IInv, [Next]_vars
    PROVE  IInv'
<1>1. CASE Launch
    BY <1>1, LaunchKeeps
<1>2. CASE BeginPrefill
    BY <1>2, BeginPrefillKeeps
<1>3. CASE StreamLayer
    BY <1>3, StreamLayerKeeps
<1>4. CASE WholeLayer \/ LoadLayer \/ CpuLayer
    BY <1>4, OtherLayersKeep
<1>5. CASE Finish
    BY <1>5, FinishKeeps
<1>6. CASE Rebuild
    BY <1>6, RebuildKeeps
<1>7. CASE Load
    BY <1>7, LoadKeeps
<1>8. CASE Materialize
    BY <1>8, MaterializeKeeps
<1>9. CASE Gather
    BY <1>9, GatherKeeps
<1>10. CASE Fill
    BY <1>10, FillKeeps
<1>11. CASE Snapshot
    BY <1>11, SnapshotKeeps
<1>12. CASE Compute
    BY <1>12, ComputeKeeps
<1>13. CASE Fence
    BY <1>13, FenceKeeps
<1>14. CASE UNCHANGED vars
    <2>1. /\ variant' = variant /\ size' = size /\ overlap' = overlap /\ pass' = pass /\ cache' = cache
          /\ UNCHANGED device
        BY <1>14 DEF vars, device
    <2>2. Plan' = Plan /\ Pool' = Pool
        BY <2>1, PlanStays, PoolStays
    <2>3. TypeInv'
        BY <2>1 DEF IInv, TypeInv, Slot, device
    <2> QED BY <2>1, <2>2, <2>3 DEF IInv
<1> QED BY <1>1, <1>2, <1>3, <1>4, <1>5, <1>6, <1>7, <1>8, <1>9, <1>10, <1>11, <1>12, <1>13, <1>14 DEF Next

\* All that the cache's correctness rests on, in every deployment whose short
\* chunks find their layers pinned: the loans of the buffers in their order, what
\* each task of the streams still waits for, and what the slots hold meanwhile.
THEOREM CacheInvariant ==
    ASSUME ShortsUnlocked
    PROVE  Spec => []IInv
<1>1. IInv /\ [Next]_vars => IInv'
    BY NextKeeps
<1> QED BY <1>1, InitIInv, PTL DEF Spec

-----------------------------------------------------------------------------
(***************************************************************************)
(* What it is for.                                                         *)
(***************************************************************************)
\* A GEMM over a buffer whose turn it is: it ends the first loan, whose copy ran,
\* as did its gather, which no kernel is before.
LEMMA DenseReads ==
    ASSUME IInv, Kernels(cache) # <<>>, Kernels(cache)[1].ahead = 0, Kernels(cache)[1].do = "dense"
    PROVE  \A e \in Kernels(cache)[1].rows :
              bytes[Kernels(cache)[1].base + e] = <<Kernels(cache)[1].layer, e>>
<1> DEFINE c == cache
           task == Kernels(c)[1]
           l == task.layer
           b == BufferOf(l)
<1>1. /\ c \in Caches /\ StreamInv(Plan, c, Expert) /\ BufferInv(Plan, c, Expert, Pool) /\ HeadInv(Plan, c, Pool)
    BY DEF IInv, TypeInv, Fit, PoolInv
<1>2. task \in Tasks /\ KernelShape(Plan, task) /\ 1 \in 1..Len(Kernels(c))
    BY <1>1, HeadIs
<1>3. CASE ~Plan.overlap
    <2>1. task.base = 0 /\ task.rows = Expert
        BY <1>2, <1>3 DEF KernelShape
    <2>2. \A e \in Expert : bytes[e] = <<l, e>>
        BY <1>1, <1>3 DEF HeadInv, Pool
    <2>3. \A e \in Expert : 0 + e = e
        BY DEF Expert
    <2> QED BY <2>1, <2>2, <2>3
<1>4. CASE Plan.overlap
    <2>1. l \in Layer /\ b \in Buffer
        <3>1. l \in Layer
            BY <1>2 DEF Tasks
        <3>2. l \in Int
            BY <3>1 DEF Layer
        <3> QED BY <3>1, <3>2, Geometry
    <2>2. task.base = Base(b) /\ Event(task) = Release(b)
        <3>1. task.base = Base(b) /\ task.records = Release(b)
            BY <1>2, <1>4 DEF KernelShape
        <3> QED BY <2>1, <3>1, EventsDiffer DEF Event
    <2> HIDE DEF c, b
    <2>3. Denses(c, b, 1) = 1
        <3>1. Kernels(c) \in Seq(Tasks)
            BY <1>1, StreamTypes
        <3> QED BY <1>2, <2>2, <3>1, CountRange DEF Denses
    <2>4. Held(c, b) = 1
        <3>1. \A i \in 1..Len(Kernels(c)) : Event(Kernels(c)[i]) = Release(b) =>
                  Kernels(c)[i].ahead = Denses(c, b, i) - Held(c, b)
            BY <1>1, <2>1 DEF StreamInv, AheadInv
        <3>2. task.ahead = Denses(c, b, 1) - Held(c, b)
            BY <1>2, <2>2, <3>1
        <3>3. Held(c, b) \in Int
            BY <1>1, <2>1, LoanTypes
        <3>4. task.ahead = 0
            BY DEF c
        <3> QED BY <2>3, <3>2, <3>3, <3>4
    <2>5. Loan(c, Expert, b, 1, l, task.rows)
        BY <1>2, <2>2, <2>3 DEF Loan
    <2>6. ASSUME NEW i \in 1..Len(Kernels(c)) PROVE Denses(c, b, i) # 0
        <3>1. 1 \in Nat /\ i \in Nat /\ 1 <= i
            BY <2>6
        <3>2. Denses(c, b, 1) <= Denses(c, b, i)
            BY <3>1, CountMonotone DEF Denses
        <3>3. i \in Int
            BY <3>1
        <3>4. Denses(c, b, i) \in Nat
            BY <1>1, <2>1, <3>3, LoanTypes
        <3> QED BY <2>3, <3>2, <3>4
    <2>7. /\ \A e \in task.rows \ Kept(Plan, Pool, l) : Pool.bytes[Base(b) + e] = <<l, e>>
          /\ \A e \in Kept(Plan, Pool, l) : Pool.bytes[Base(b) + e] = <<l, e>>
        BY <1>1, <2>1, <2>4, <2>5, <2>6 DEF BufferInv
    <2>8. Pool.bytes = bytes
        BY DEF Pool
    <2>9. \A e \in task.rows : bytes[task.base + e] = <<l, e>>
        BY <2>2, <2>7, <2>8
    <2> QED BY <2>9 DEF c
<1> QED BY <1>3, <1>4

LEMMA FitReads == IInv => RightWeights
<1> SUFFICES ASSUME IInv PROVE RightWeights
    OBVIOUS
<1> DEFINE task == Head(cache.stream["compute"])
<1>1. SUFFICES ASSUME Runnable("compute")
               PROVE  /\ task.do = "dense" => \A e \in task.rows : bytes[task.base + e] = <<task.layer, e>>
                      /\ task.do = "gemm" => \A e \in DOMAIN route : bytes[route[e]] = <<task.layer, e>>
    BY DEF RightWeights
<1>2. Kernels(cache) # <<>> /\ task = Kernels(cache)[1] /\ task.ahead = 0
    <2>1. cache.stream["compute"] # <<>> /\ task.ahead = 0
        BY <1>1 DEF Runnable
    <2>2. cache.stream["compute"] \in Seq(Tasks)
        BY DEF IInv, TypeInv, Caches
    <2> QED BY <2>1, <2>2 DEF Kernels
<1> HIDE DEF task
<1>3. task.do = "dense" => \A e \in task.rows : bytes[task.base + e] = <<task.layer, e>>
    BY <1>2, DenseReads
<1>4. task.do = "gemm" => \A e \in DOMAIN route : bytes[route[e]] = <<task.layer, e>>
    BY <1>2 DEF IInv, Fit, PoolInv, HeadInv, Pool
<1> QED BY <1>3, <1>4

LEMMA FitMaps == IInv => MapExact
<1> SUFFICES ASSUME IInv PROVE MapExact
    OBVIOUS
<1>1. /\ Exact(slotFor, idOf)
      /\ \A s \in Slot : idOf[s] # NoId =>
            /\ s >= 2 * NumExperts => bytes[s] = idOf[s]
            /\ \A b \in Buffer : InBuffer(b, s) =>
                  bytes[s] = idOf[s] \/ (Splits /\ Total(Copies(cache), Ready(b)) >= 1)
    BY ExactIs DEF IInv, Fit, PoolInv, Pool
<1>2. ASSUME NEW s \in Slot, idOf[s] # NoId, s >= 2 * NumExperts \/ cache.stream["copy"] = <<>>
      PROVE  bytes[s] = idOf[s]
    <2>1. CASE s >= 2 * NumExperts
        BY <1>1, <1>2, <2>1
    <2>2. CASE ~(s >= 2 * NumExperts)
        <3>1. PICK b \in Buffer : InBuffer(b, s)
            <4>1. s \in Nat
                BY SizeIs DEF IInv, Slot
            <4>2. s < 2 * NumExperts
                BY <2>2, <4>1, Geometry
            <4> QED BY <4>1, <4>2, Geometry DEF InBuffer, Base, Buffer
        <3>2. Total(Copies(cache), Ready(b)) = 0
            <4>1. Copies(cache) = <<>>
                BY <1>2, <2>2 DEF Copies
            <4>2. Len(Copies(cache)) = 0
                BY <4>1
            <4> QED BY <4>2, CountZero DEF Total
        <3> QED BY <1>1, <1>2, <3>1, <3>2
    <2> QED BY <2>1, <2>2
<1> QED BY <1>1, <1>2 DEF MapExact, Exact

\* For any number of layers, experts and slots, every way of moving the experts and
\* every order of passes and of the two streams, if short chunks find their layers
\* pinned: a GEMM whose turn it is reads its own layer's experts, whether prefetched
\* to a buffer, gathered from the pool or loaded on demand.
THEOREM WeightsAreRight ==
    ASSUME ShortsUnlocked
    PROVE  Spec => []RightWeights
BY CacheInvariant, FitReads, PTL

\* slot_for_id and id_of_slot stay inverse under loads, prefills and the disowning
\* of the buffers, and a named slot holds the expert it is named for but where a
\* copy enqueued to its buffer is still to run, if short chunks find their layers
\* pinned.
THEOREM MapsAreExact ==
    ASSUME ShortsUnlocked
    PROVE  Spec => []MapExact
BY CacheInvariant, FitMaps, PTL

\* If short chunks find their layers pinned, which the code leaves to the deployment,
\* the assertion of prefetch_prefill_layer never fails: a pass that streams its
\* layers then streams them all, so each prefetch finds its buffer released.
THEOREM BuffersAreReleased ==
    ASSUME ShortsUnlocked
    PROVE  Spec => []BufferReleased
<1>1. IInv => BufferReleased
    BY DEF IInv, Fit, PassInv, BufferReleased
<1> QED BY <1>1, CacheInvariant, PTL

=============================================================================
