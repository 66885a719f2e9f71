------------------------- MODULE CacheManagerProofs -------------------------
(***************************************************************************)
(* The cache manager, for any number of requests, pages and tokens, any    *)
(* page size and any prompts: every page is in exactly one place, what a   *)
(* row reads is its own request's KV, and the counters that admission and  *)
(* eviction trust are the sizes they stand for.  And, where counting in    *)
(* tokens is as good as counting in pages, no admitted request is ever     *)
(* short of pages.                                                         *)
(*                                                                         *)
(* The first three hold together: a page may be given back or evicted      *)
(* because nobody else's row points at it, which is so because a handle    *)
(* pins the keys below it and a row follows its handle into the tree.      *)
(***************************************************************************)
EXTENDS CacheManager, RadixProofs

-----------------------------------------------------------------------------
(***************************************************************************)
(* The inductive invariant.                                                *)
(***************************************************************************)
Phases == {"new", "admitted", "prefill", "drain", "decode"}

Types ==
    /\ phase \in [Req -> Phases] /\ text \in [Req -> Seq(Token)] /\ row \in [Req -> Seq(Page)]
    /\ handle \in [Req -> Seq(Token)] /\ image \in [Req -> BOOLEAN]
    /\ promptLen \in [Req -> Nat] /\ outputLen \in [Req -> Nat]
    /\ cachedLen \in [Req -> Nat] /\ hostLen \in [Req -> Nat]

\* The lengths the scheduler keeps, between two calls.
Lengths(u) ==
    /\ Len(row[u]) = Pages(cachedLen[u])
    /\ IsPrefix(handle[u], text[u])
    /\ Len(handle[u]) <= cachedLen[u] /\ Len(handle[u]) <= hostLen[u]
    /\ image[u] => handle[u] = <<>>
    /\ phase[u] = "new" => handle[u] = <<>> /\ cachedLen[u] = 0
    /\ InPrompt(u) => /\ Len(text[u]) = promptLen[u] /\ cachedLen[u] < promptLen[u]
                      /\ hostLen[u] = cachedLen[u]
    /\ Sampling(u) => Len(text[u]) = cachedLen[u] + 1 /\ promptLen[u] <= cachedLen[u]

\* The pages of the tree c, and those that a request took and has not shared.
TreePages(c) == {c.pages[k] : k \in Keys(c)}
OwnPages(u) == {row[u][i] : i \in OwnPositions(u)}
Owns == [u \in Req |-> OwnPages(u)]

Distinct(c) == \A j, k \in Keys(c) : c.pages[j] = c.pages[k] => j = k

\* P is what the tree holds, O[u] what u holds, and the rest is free.
Partition(list, P, O) ==
    /\ list = [p \in Page |-> IF p \in P \/ \E u \in Req : p \in O[u] THEN 0 ELSE 1]
    /\ P \subseteq Page /\ \A u \in Req : O[u] \subseteq Page /\ O[u] \cap P = {}
    /\ \A u, v \in Req : u # v => O[u] \cap O[v] = {}

Places ==
    /\ Partition(free, TreePages(radix), Owns) /\ Distinct(radix)
    /\ \A u \in Req : \A i, j \in OwnPositions(u) : row[u][i] = row[u][j] => i = j

\* A row begins with the tree's pages for its handle.
Shared ==
    \A u \in Req : \A k \in Keys(radix) :
        IsPrefix(k, handle[u]) => row[u][Len(k) \div PageSize] = radix.pages[k]

Written ==
    /\ \A u \in Req : \A i \in OwnPositions(u) : kv[row[u][i]] = Content(u, i, cachedLen[u])
    /\ \A k \in Keys(radix) : kv[radix.pages[k]] = <<NoImage, k>>

TreeInv == Tree(radix, Token) /\ Counts(radix, handle)

CacheInv ==
    Types /\ (\A u \in Req : Lengths(u)) /\ TreeInv /\ Places /\ Shared /\ Written

-----------------------------------------------------------------------------
(***************************************************************************)
(* Pages that change hands.                                                *)
(***************************************************************************)
LEMMA FreedPages ==
    ASSUME NEW list, NEW P, NEW O, DOMAIN O = Req, Partition(list, P, O), NEW u \in Req,
           NEW S \in SUBSET O[u]
    PROVE  Partition(Return(list, S), P, [O EXCEPT ![u] = @ \ S])
<1> DEFINE Q == [O EXCEPT ![u] = @ \ S]
<1>1. Q[u] = O[u] \ S /\ \A v \in Req \ {u} : Q[v] = O[v]
    OBVIOUS
<1>2. ASSUME NEW p \in Page
      PROVE  Return(list, S)[p] = IF p \in P \/ \E v \in Req : p \in Q[v] THEN 0 ELSE 1
    <2>1. Return(list, S)[p] = IF p \in S THEN list[p] + 1 ELSE list[p]
        BY DEF Return
    <2>2. CASE p \in S
        <3>1. p \in O[u] /\ p \notin P /\ list[p] = 0 /\ \A v \in Req \ {u} : p \notin O[v]
            BY <2>2 DEF Partition
        <3> QED BY <1>1, <2>1, <2>2, <3>1
    <2>3. CASE p \notin S
        BY <1>1, <2>1, <2>3 DEF Partition
    <2> QED BY <2>2, <2>3
<1>3. Return(list, S) = [p \in Page |-> Return(list, S)[p]]
    BY DEF Return
<1> HIDE DEF Q
<1> QED BY <1>1, <1>2, <1>3 DEF Partition, Q

LEMMA GivenPages ==
    ASSUME NEW list, NEW P, NEW O, DOMAIN O = Req, Partition(list, P, O), NEW u \in Req,
           NEW S \in SUBSET O[u]
    PROVE  Partition(list, P \cup S, [O EXCEPT ![u] = @ \ S])
<1> DEFINE Q == [O EXCEPT ![u] = @ \ S]
<1>1. Q[u] = O[u] \ S /\ \A v \in Req \ {u} : Q[v] = O[v]
    OBVIOUS
<1> HIDE DEF Q
<1>2. ASSUME NEW p
      PROVE  (p \in P \/ \E v \in Req : p \in O[v]) <=> (p \in P \cup S \/ \E v \in Req : p \in Q[v])
    BY <1>1
<1>3. list = [p \in Page |-> IF p \in P \cup S \/ \E v \in Req : p \in Q[v] THEN 0 ELSE 1]
    BY <1>2 DEF Partition
<1>4. /\ P \cup S \subseteq Page /\ \A v \in Req : Q[v] \subseteq Page /\ Q[v] \cap (P \cup S) = {}
      /\ \A v, w \in Req : v # w => Q[v] \cap Q[w] = {}
    BY <1>1 DEF Partition
<1> QED BY <1>3, <1>4 DEF Partition, Q

LEMMA TakenPages ==
    ASSUME NEW list, NEW P, NEW O, DOMAIN O = Req, Partition(list, P, O), NEW u \in Req,
           NEW S \in SUBSET {p \in Page : list[p] > 0}
    PROVE  /\ Partition([p \in Page |-> IF p \in S THEN list[p] - 1 ELSE list[p]], P,
                        [O EXCEPT ![u] = @ \cup S])
           /\ S \cap P = {} /\ \A v \in Req : S \cap O[v] = {}
<1> DEFINE Q == [O EXCEPT ![u] = @ \cup S]
           new == [p \in Page |-> IF p \in S THEN list[p] - 1 ELSE list[p]]
<1>1. Q[u] = O[u] \cup S /\ \A v \in Req \ {u} : Q[v] = O[v]
    OBVIOUS
<1>2. ASSUME NEW p \in S PROVE p \in Page /\ list[p] = 1 /\ p \notin P /\ \A v \in Req : p \notin O[v]
    BY DEF Partition
<1>3. ASSUME NEW p \in Page
      PROVE  new[p] = IF p \in P \/ \E v \in Req : p \in Q[v] THEN 0 ELSE 1
    <2>1. CASE p \in S
        BY <1>1, <1>2, <2>1
    <2>2. CASE p \notin S
        BY <1>1, <2>2 DEF Partition
    <2> QED BY <2>1, <2>2
<1>4. new = [p \in Page |-> new[p]]
    OBVIOUS
<1> HIDE DEF Q, new
<1>5. new = [p \in Page |-> IF p \in P \/ \E v \in Req : p \in Q[v] THEN 0 ELSE 1]
    BY <1>3, <1>4
<1>6. S \cap P = {} /\ \A v \in Req : S \cap O[v] = {}
    BY <1>2
<1>7. /\ \A v \in Req : Q[v] \subseteq Page /\ Q[v] \cap P = {}
      /\ \A v, w \in Req : v # w => Q[v] \cap Q[w] = {}
    BY <1>1, <1>6 DEF Partition
<1> QED BY <1>5, <1>6, <1>7 DEF Partition, Q, new

LEMMA EvictedPages ==
    ASSUME NEW list, NEW P, NEW O, Partition(list, P, O), NEW S \in SUBSET P
    PROVE  Partition(Return(list, S), P \ S, O)
<1>1. ASSUME NEW p \in Page
      PROVE  Return(list, S)[p] = IF p \in P \ S \/ \E v \in Req : p \in O[v] THEN 0 ELSE 1
    <2>1. Return(list, S)[p] = IF p \in S THEN list[p] + 1 ELSE list[p]
        BY DEF Return
    <2>2. CASE p \in S
        <3>1. p \in P /\ list[p] = 0 /\ \A v \in Req : p \notin O[v]
            BY <2>2 DEF Partition
        <3> QED BY <2>1, <2>2, <3>1
    <2>3. CASE p \notin S
        BY <2>1, <2>3 DEF Partition
    <2> QED BY <2>2, <2>3
<1>2. Return(list, S) = [p \in Page |-> Return(list, S)[p]]
    BY DEF Return
<1> QED BY <1>1, <1>2 DEF Partition

-----------------------------------------------------------------------------
(***************************************************************************)
(* One request's row and tokens.                                           *)
(***************************************************************************)
LEMMA MinIs ==
    ASSUME NEW a \in Int, NEW b \in Int
    PROVE  Min({a, b}) = IF a <= b THEN a ELSE b
<1>1. \E x \in {a, b} : \A y \in {a, b} : x <= y
    <2>1. CASE a <= b BY <2>1
    <2>2. CASE ~(a <= b) BY <2>2
    <2> QED BY <2>1, <2>2
<1>2. Min({a, b}) \in {a, b} /\ Min({a, b}) <= a /\ Min({a, b}) <= b
    BY <1>1 DEF Min
<1> QED BY <1>2

LEMMA MaxOfOne ==
    ASSUME NEW i \in Int
    PROVE  Max({i}) = i
<1>1. \E x \in {i} : \A y \in {i} : x >= y
    OBVIOUS
<1> QED BY <1>1 DEF Max

\* The shared part of a row, in pages, and its own positions after that.
LEMMA RowIs ==
    ASSUME Types, TreeInv, NEW u \in Req, Lengths(u)
    PROVE  /\ Len(handle[u]) \div PageSize \in Nat
           /\ (Len(handle[u]) \div PageSize) * PageSize = Len(handle[u])
           /\ Len(handle[u]) % PageSize = 0 /\ Len(handle[u]) \in Nat
           /\ handle[u] \in Nodes(radix) \cup {<<>>}
           /\ Len(row[u]) \in Nat /\ Len(handle[u]) \div PageSize <= Len(row[u])
           /\ OwnPositions(u) = (Len(handle[u]) \div PageSize + 1)..Len(row[u])
           /\ cachedLen[u] <= Len(row[u]) * PageSize
           /\ \A k \in WholeKeys(Token) : IsPrefix(k, handle[u]) => k \in Keys(radix)
<1> DEFINE h == handle[u]
<1>1. h \in Seq(Token) /\ Len(h) \in Nat /\ cachedLen[u] \in Nat /\ Len(row[u]) \in Nat
    BY DEF Types
<1>2. h \in Nodes(radix) \cup {<<>>}
    <2>1. DOMAIN handle = Req
        BY DEF Types
    <2> QED BY <2>1 DEF TreeInv, Counts
<1> HIDE DEF h
<1>3. Len(h) % PageSize = 0
    <2>1. CASE h \in Nodes(radix)
        BY <2>1, WholeKeyIs DEF TreeInv, Tree
    <2>2. CASE h = <<>>
        BY <2>2, PageSizeAssumption
    <2> QED BY <1>2, <2>1, <2>2
<1> DEFINE a == Len(h) \div PageSize  b == Len(row[u])
<1>4. a \in Nat /\ a * PageSize = Len(h)
    BY <1>1, <1>3, WholeIs
<1>5. Len(h) <= cachedLen[u] /\ b = Pages(cachedLen[u]) /\ cachedLen[u] <= b * PageSize
    BY <1>1, PagesIs DEF Lengths, h
<1>6. a <= b
    <2> HIDE DEF a, b
    <2>1. b \in Nat
        BY <1>1 DEF b
    <2>2. a <= b <=> a * PageSize <= b * PageSize
        BY <1>4, <2>1, TimesIs
    <2>3. b * PageSize \in Nat
        BY <2>1, TimesIs
    <2> QED BY <1>1, <1>4, <1>5, <2>2, <2>3
<1>7. \A k \in WholeKeys(Token) : IsPrefix(k, h) => k \in Keys(radix)
    <2> SUFFICES ASSUME NEW k \in WholeKeys(Token), IsPrefix(k, h) PROVE k \in Keys(radix)
        OBVIOUS
    <2>1. k \in Seq(Token) /\ k # <<>>
        BY WholeKeyIs
    <2>2. h \in Nodes(radix)
        BY <1>2, <2>1, EmptyPrefix
    <2> QED BY <2>2 DEF TreeInv, Tree
<1> QED BY <1>1, <1>2, <1>3, <1>4, <1>5, <1>6, <1>7 DEF OwnPositions, h

\* What the i-th page holds when the KV up to end is written.
LEMMA ContentIs ==
    ASSUME NEW u \in Req, NEW i \in Nat, NEW end \in Nat
    PROVE  Content(u, i, end)
               = <<Owner(u), Upto(text[u], IF i * PageSize <= end THEN i * PageSize ELSE end)>>
<1>1. i * PageSize \in Int /\ end \in Int
    BY TimesIs
<1> QED BY <1>1, MinIs DEF Content

\* The whole pages of what the host knows of a request without an image: they begin
\* with its handle, and the row holds them.
Committed(u, host) == KeyOf(Known(u, host))
Hit(u, host) == Walk(radix, Committed(u, host))

LEMMA KnownIs ==
    ASSUME Types, TreeInv, NEW u \in Req, Lengths(u), NEW host \in Nat,
           Len(handle[u]) <= host, cachedLen[u] <= Len(text[u])
    PROVE  /\ Known(u, host) \in Seq(Token) /\ Committed(u, host) \in Seq(Token)
           /\ Hit(u, host) \in Seq(Token) /\ Hit(u, host) \in Keys(radix) \cup {<<>>}
           /\ IsPrefix(handle[u], Hit(u, host)) /\ IsPrefix(Hit(u, host), Committed(u, host))
           /\ IsPrefix(Committed(u, host), text[u]) /\ Len(Committed(u, host)) <= cachedLen[u]
           /\ Len(Committed(u, host)) <= host
           /\ Len(Committed(u, host)) \in Nat /\ Len(Committed(u, host)) % PageSize = 0
           /\ Len(Hit(u, host)) \in Nat /\ Len(Hit(u, host)) % PageSize = 0
<1> DEFINE n == Min({host, cachedLen[u]})  ids == Known(u, host)
           key == Committed(u, host)  hit == Hit(u, host)
<1>1. /\ text[u] \in Seq(Token) /\ Len(text[u]) \in Nat /\ cachedLen[u] \in Nat
      /\ handle[u] \in Seq(Token) /\ Len(handle[u]) \in Nat
    BY DEF Types
<1>2. n = IF host <= cachedLen[u] THEN host ELSE cachedLen[u]
    BY <1>1, MinIs
<1> HIDE DEF n
<1>3. n \in 0..Len(text[u]) /\ Len(handle[u]) <= n /\ n <= cachedLen[u] /\ n <= host
    BY <1>1, <1>2 DEF Lengths
<1>4. ids \in Seq(Token) /\ Len(ids) = n /\ IsPrefix(ids, text[u])
    <2>1. ids = Upto(text[u], n)
        BY DEF Known, n
    <2> QED BY <1>1, <1>3, <2>1, UptoIs, UptoPrefix
<1> HIDE DEF ids
<1>5. key = KeyOf(ids) /\ hit = Walk(radix, key)
    BY DEF Committed, Hit, ids
<1> HIDE DEF key, hit
<1>6. /\ key \in Seq(Token) /\ Len(key) \in Nat /\ Len(key) % PageSize = 0 /\ Len(key) <= n
      /\ IsPrefix(key, ids) /\ \A k \in WholeKeys(Token) : IsPrefix(k, ids) => IsPrefix(k, key)
    BY <1>4, <1>5, KeyOfIs
<1>7. /\ hit \in Keys(radix) \cup {<<>>} /\ hit \in Seq(Token) /\ IsPrefix(hit, key)
      /\ Len(hit) \in Nat /\ Len(hit) % PageSize = 0
      /\ \A k \in Keys(radix) : IsPrefix(k, key) => IsPrefix(k, hit)
    BY <1>5, <1>6, WalkIs DEF TreeInv
<1>8. IsPrefix(key, text[u])
    BY <1>1, <1>4, <1>6, PrefixOrder
<1>9. IsPrefix(handle[u], hit)
    <2>1. handle[u] \in Nodes(radix) \cup {<<>>}
        BY RowIs
    <2>2. CASE handle[u] = <<>>
        BY <1>7, <2>2, EmptyPrefix
    <2>3. CASE handle[u] \in Nodes(radix)
        <3>1. handle[u] \in Keys(radix) /\ handle[u] \in WholeKeys(Token)
            BY <2>3 DEF TreeInv, Tree
        <3>2. IsPrefix(handle[u], ids)
            BY <1>1, <1>3, <1>4, PrefixOrder DEF Lengths
        <3> QED BY <1>6, <1>7, <3>1, <3>2
    <2> QED BY <2>1, <2>2, <2>3
<1>10. Len(key) <= cachedLen[u] /\ Len(key) <= host
    BY <1>1, <1>3, <1>6
<1> QED BY <1>4, <1>6, <1>7, <1>8, <1>9, <1>10 DEF ids, key, hit

-----------------------------------------------------------------------------
(***************************************************************************)
(* What a commit and a release have in common: u's own pages are those     *)
(* that others shared before, those the tree takes, and the rest.          *)
(***************************************************************************)
Committing(u, host) ==
    /\ Types /\ TreeInv /\ Places /\ Written /\ Lengths(u)
    /\ host \in Nat /\ Len(handle[u]) <= host /\ cachedLen[u] <= Len(text[u])
    /\ ~image[u]

Inserted(u, host) == Insert(radix, Known(u, host), row[u])
Given(u, host) == RowPages(u, Len(Hit(u, host)), Len(Committed(u, host)))
Kept(u, host) == PaddedTail(u, Len(Committed(u, host)))

LEMMA PositionsSplit ==
    ASSUME NEW u \in Req, NEW host, Committing(u, host)
    PROVE  LET a == Len(handle[u]) \div PageSize
               b == Len(Hit(u, host)) \div PageSize
               d == Len(Committed(u, host)) \div PageSize
               e == Len(row[u])
           IN  /\ a \in Nat /\ b \in Nat /\ d \in Nat /\ e \in Nat /\ a <= b /\ b <= d /\ d <= e
               /\ OwnPositions(u) = (a + 1)..e
               /\ Duplicates(u, Hit(u, host)) = {row[u][i] : i \in (a + 1)..b}
               /\ Given(u, host) = {row[u][i] : i \in (b + 1)..d}
               /\ Kept(u, host) = {row[u][i] : i \in (d + 1)..e}
<1> DEFINE h == handle[u]  hit == Hit(u, host)  key == Committed(u, host)
           a == Len(h) \div PageSize  b == Len(hit) \div PageSize  d == Len(key) \div PageSize
           e == Len(row[u])
<1>1. /\ a \in Nat /\ a * PageSize = Len(h) /\ Len(h) \in Nat /\ e \in Nat
      /\ OwnPositions(u) = (a + 1)..e /\ cachedLen[u] <= e * PageSize
    BY RowIs DEF Committing
<1>2. /\ hit \in Seq(Token) /\ key \in Seq(Token) /\ h \in Seq(Token)
      /\ IsPrefix(h, hit) /\ IsPrefix(hit, key) /\ Len(key) <= cachedLen[u]
      /\ Len(key) \in Nat /\ Len(key) % PageSize = 0 /\ Len(hit) \in Nat /\ Len(hit) % PageSize = 0
      /\ cachedLen[u] \in Nat /\ e = Pages(cachedLen[u])
    BY KnownIs DEF Committing, Types, Lengths
<1> HIDE DEF hit, key, h
<1>3. Len(h) <= Len(hit) /\ Len(hit) <= Len(key)
    BY <1>2, PrefixOrder
<1>4. b \in Nat /\ d \in Nat /\ b * PageSize = Len(hit) /\ d * PageSize = Len(key)
    BY <1>2, WholeIs
<1> HIDE DEF a, b, d, e
<1>5. e * PageSize \in Nat /\ (e * PageSize) \div PageSize = e
    BY <1>1, TimesIs, MultipleIs
<1>6. a * PageSize <= b * PageSize /\ b * PageSize <= d * PageSize /\ d * PageSize <= e * PageSize
    BY <1>1, <1>2, <1>3, <1>4, <1>5
<1>7. a <= b /\ b <= d /\ d <= e
    BY <1>1, <1>4, <1>6, TimesIs
<1>8. /\ Duplicates(u, hit) = {row[u][i] : i \in (a + 1)..b}
      /\ Given(u, host) = {row[u][i] : i \in (b + 1)..d}
    BY DEF Duplicates, Given, RowPages, a, b, d, h, hit, key
<1>9. Kept(u, host) = {row[u][i] : i \in (d + 1)..e}
    <2>1. Kept(u, host) = {row[u][i] : i \in (d + 1)..((Pages(cachedLen[u]) * PageSize) \div PageSize)}
        BY DEF Kept, PaddedTail, RowPages, d, key
    <2> QED BY <1>2, <1>5, <2>1
<1> QED BY <1>1, <1>4, <1>7, <1>8, <1>9 DEF a, b, d, e, h, hit, key

LEMMA OwnSplit ==
    ASSUME NEW u \in Req, NEW host, Committing(u, host)
    PROVE  LET D == Duplicates(u, Hit(u, host))
               M == Given(u, host)
               R == Kept(u, host)
           IN  /\ OwnPages(u) = D \cup M \cup R
               /\ D \cap M = {} /\ D \cap R = {} /\ M \cap R = {}
<1> DEFINE a == Len(handle[u]) \div PageSize  b == Len(Hit(u, host)) \div PageSize
           d == Len(Committed(u, host)) \div PageSize  e == Len(row[u])
           D == Duplicates(u, Hit(u, host))  M == Given(u, host)  R == Kept(u, host)
<1>1. /\ a \in Nat /\ b \in Nat /\ d \in Nat /\ e \in Nat /\ a <= b /\ b <= d /\ d <= e
      /\ OwnPositions(u) = (a + 1)..e
      /\ D = {row[u][i] : i \in (a + 1)..b} /\ M = {row[u][i] : i \in (b + 1)..d}
      /\ R = {row[u][i] : i \in (d + 1)..e}
    BY PositionsSplit
<1>2. \A i, j \in (a + 1)..e : row[u][i] = row[u][j] => i = j
    BY <1>1 DEF Committing, Places
<1>3. OwnPages(u) = {row[u][i] : i \in (a + 1)..e}
    BY <1>1 DEF OwnPages
<1> HIDE DEF a, b, d, e, D, M, R
<1>4. (a + 1)..e = ((a + 1)..b) \cup ((b + 1)..d) \cup ((d + 1)..e)
    BY <1>1
<1>5. OwnPages(u) = D \cup M \cup R
    BY <1>1, <1>3, <1>4
<1>6. D \cap M = {} /\ D \cap R = {} /\ M \cap R = {}
    BY <1>1, <1>2
<1> QED BY <1>5, <1>6 DEF D, M, R

\* The tree with the new leaf.
LEMMA InsertedIs ==
    ASSUME NEW u \in Req, NEW host, Committing(u, host)
    PROVE  LET c == Inserted(u, host)
               hit == Hit(u, host)
               key == Committed(u, host)
           IN  /\ Tree(c, Token) /\ Counts(c, handle) /\ Keys(radix) \subseteq Keys(c)
               /\ key \in Nodes(c) \cup {<<>>} /\ handle[u] \in Nodes(c) \cup {<<>>}
               /\ \A k \in Keys(radix) : c.pages[k] = radix.pages[k]
               /\ \A k \in Keys(radix) : IsPrefix(k, key) => IsPrefix(k, hit)
               /\ \A k \in Keys(c) \ Keys(radix) :
                     /\ IsPrefix(k, key) /\ Len(hit) < Len(k)
                     /\ c.pages[k] = row[u][Len(k) \div PageSize]
               /\ TreePages(c) = TreePages(radix) \cup Given(u, host) /\ Distinct(c)
               /\ \A k \in Keys(c) : kv[c.pages[k]] = <<NoImage, k>>
<1> DEFINE c == Inserted(u, host)  hit == Hit(u, host)  key == Committed(u, host)
           new == Span(Token, hit, key)  M == Given(u, host)
           a == Len(handle[u]) \div PageSize  b == Len(hit) \div PageSize
           d == Len(key) \div PageSize  e == Len(row[u])
<1>1. /\ Types /\ TreeInv /\ Places /\ Written /\ Lengths(u) /\ host \in Nat
      /\ Len(handle[u]) <= host /\ cachedLen[u] <= Len(text[u]) /\ ~image[u]
    BY DEF Committing
<1>2. /\ Known(u, host) \in Seq(Token) /\ key \in Seq(Token)
      /\ hit \in Seq(Token) /\ hit \in Keys(radix) \cup {<<>>}
      /\ IsPrefix(hit, key) /\ IsPrefix(key, text[u]) /\ Len(key) <= cachedLen[u]
      /\ Len(key) \in Nat /\ Len(key) % PageSize = 0 /\ Len(hit) \in Nat /\ Len(hit) % PageSize = 0
    BY <1>1, KnownIs
<1>3. /\ Tree(c, Token) /\ Keys(c) = Keys(radix) \cup new /\ Keys(radix) \cap new = {}
      /\ \A k \in Keys(radix) : c.pages[k] = radix.pages[k]
      /\ \A k \in new : c.pages[k] = row[u][Len(k) \div PageSize]
      /\ Nodes(radix) \subseteq Nodes(c) /\ key \in Nodes(c) \cup {<<>>}
      /\ Counts(c, handle)
    <2>1. Tree(radix, Token) /\ Counts(radix, handle)
        BY <1>1 DEF TreeInv
    <2>2. key = KeyOf(Known(u, host)) /\ hit = Walk(radix, KeyOf(Known(u, host)))
          /\ c = Insert(radix, Known(u, host), row[u])
        BY DEF Committed, Hit, Inserted
    <2> HIDE DEF c, hit, key
    <2> QED BY <1>2, <2>1, <2>2, InsertIs
<1>4. /\ a \in Nat /\ b \in Nat /\ d \in Nat /\ e \in Nat /\ a <= b /\ b <= d /\ d <= e
      /\ OwnPositions(u) = (a + 1)..e /\ M = {row[u][i] : i \in (b + 1)..d}
    BY PositionsSplit
<1>5. handle[u] \in Nodes(radix) \cup {<<>>}
    BY <1>1, RowIs
<1>6. \A k \in Keys(radix) : IsPrefix(k, key) => IsPrefix(k, hit)
    <2>1. hit = Walk(radix, key)
        BY DEF Hit
    <2> HIDE DEF hit, key
    <2> QED BY <1>1, <1>2, <2>1, WalkIs DEF TreeInv
<1> HIDE DEF c, hit, key, M, a
<1>7. b * PageSize = Len(hit)
    BY <1>2, WholeIs
<1>8. ASSUME NEW k \in new
      PROVE  /\ IsPrefix(k, key) /\ Len(hit) < Len(k) /\ k \in WholeKeys(Token)
             /\ Len(k) \div PageSize \in (b + 1)..d
             /\ (Len(k) \div PageSize) * PageSize = Len(k) /\ k = Upto(key, Len(k))
    <2>1. k \in WholeKeys(Token) /\ IsPrefix(k, key) /\ Len(hit) < Len(k)
        BY DEF Span
    <2>2. /\ Len(k) \div PageSize \in 1..d /\ (Len(k) \div PageSize) * PageSize = Len(k)
          /\ k = Upto(key, Len(k))
        BY <1>2, <2>1, PageKeyIs
    <2> DEFINE i == Len(k) \div PageSize
    <2>3. i \in Nat /\ i <= d /\ i * PageSize = Len(k)
        BY <1>4, <2>2
    <2> HIDE DEF i, b, d
    <2>4. b < i <=> b * PageSize < i * PageSize
        BY <1>4, <2>3, TimesIs
    <2>5. i \in (b + 1)..d
        BY <1>4, <1>7, <2>1, <2>3, <2>4
    <2> QED BY <2>1, <2>2, <2>5 DEF i
<1>9. ASSUME NEW i \in (b + 1)..d
      PROVE  Upto(key, i * PageSize) \in new /\ Len(Upto(key, i * PageSize)) \div PageSize = i
    <2>1. i \in Nat /\ b < i /\ i \in 1..d
        BY <1>4
    <2>2. /\ Upto(key, i * PageSize) \in WholeKeys(Token) /\ IsPrefix(Upto(key, i * PageSize), key)
          /\ Len(Upto(key, i * PageSize)) = i * PageSize
          /\ Len(Upto(key, i * PageSize)) \div PageSize = i
        BY <1>2, <2>1, PageKeyIs
    <2>3. b * PageSize < i * PageSize
        <3> HIDE DEF b
        <3> QED BY <1>4, <2>1, TimesIs
    <2> HIDE DEF b
    <2> QED BY <1>7, <2>2, <2>3 DEF Span
<1> HIDE DEF b, d, e
<1>10. \A k \in Keys(c) \ Keys(radix) :
          /\ IsPrefix(k, key) /\ Len(hit) < Len(k) /\ c.pages[k] = row[u][Len(k) \div PageSize]
    <2> HIDE DEF new
    <2> QED BY <1>3, <1>8
<1>11. TreePages(c) = TreePages(radix) \cup M
    <2> HIDE DEF new
    <2>1. ASSUME NEW k \in new PROVE c.pages[k] \in M
        BY <1>3, <1>4, <1>8
    <2>2. ASSUME NEW p \in M PROVE \E k \in new : c.pages[k] = p
        <3>1. PICK i \in (b + 1)..d : p = row[u][i]
            BY <1>4
        <3>2. c.pages[Upto(key, i * PageSize)] = row[u][i]
            BY <1>3, <1>9
        <3> QED BY <1>9, <3>1, <3>2
    <2>3. TreePages(c) = {c.pages[k] : k \in Keys(radix)} \cup {c.pages[k] : k \in new}
        BY <1>3 DEF TreePages
    <2>4. TreePages(radix) = {c.pages[k] : k \in Keys(radix)}
        BY <1>3 DEF TreePages
    <2> QED BY <2>1, <2>2, <2>3, <2>4
<1>12. Distinct(c)
    <2> HIDE DEF new
    <2>1. M \subseteq OwnPages(u) /\ OwnPages(u) \cap TreePages(radix) = {}
        <3>1. M \subseteq OwnPages(u)
            BY OwnSplit DEF M
        <3>2. OwnPages(u) = Owns[u]
            BY DEF Owns
        <3> QED BY <1>1, <3>1, <3>2 DEF Places, Partition
    <2>2. ASSUME NEW j \in Keys(radix), NEW k \in new PROVE c.pages[j] # c.pages[k]
        <3>1. c.pages[j] \in TreePages(radix)
            BY <1>3 DEF TreePages
        <3>2. c.pages[k] \in M
            BY <1>3, <1>4, <1>8
        <3> QED BY <2>1, <3>1, <3>2
    <2>3. ASSUME NEW j \in new, NEW k \in new, c.pages[j] = c.pages[k] PROVE j = k
        <3>1. /\ Len(j) \div PageSize \in (b + 1)..d /\ Len(k) \div PageSize \in (b + 1)..d
              /\ (Len(j) \div PageSize) * PageSize = Len(j) /\ (Len(k) \div PageSize) * PageSize = Len(k)
              /\ j = Upto(key, Len(j)) /\ k = Upto(key, Len(k))
            BY <1>8
        <3>2. \A i, l \in (a + 1)..e : row[u][i] = row[u][l] => i = l
            BY <1>1, <1>4 DEF Places
        <3>3. (b + 1)..d \subseteq (a + 1)..e
            BY <1>4
        <3>4. Len(j) \div PageSize = Len(k) \div PageSize
            BY <1>3, <2>3, <3>1, <3>2, <3>3
        <3>5. Len(j) = Len(k)
            BY <3>1, <3>4
        <3> QED BY <3>1, <3>5
    <2>4. \A j, k \in Keys(radix) : c.pages[j] = c.pages[k] => j = k
        BY <1>1, <1>3 DEF Places, Distinct
    <2> QED BY <1>3, <2>2, <2>3, <2>4 DEF Distinct
<1>13. ASSUME NEW k \in Keys(c) PROVE kv[c.pages[k]] = <<NoImage, k>>
    <2>1. CASE k \in Keys(radix)
        BY <1>1, <1>3, <2>1 DEF Written
    <2>2. CASE k \in new
        <3> DEFINE i == Len(k) \div PageSize
        <3>1. /\ i \in (b + 1)..d /\ i * PageSize = Len(k) /\ k = Upto(key, Len(k))
              /\ k \in WholeKeys(Token) /\ IsPrefix(k, key)
            BY <1>8, <2>2
        <3>2. c.pages[k] = row[u][i]
            BY <1>3, <2>2
        <3>3. k \in Seq(Token) /\ Len(k) \in Nat
            BY <3>1, WholeKeyIs
        <3> HIDE DEF i
        <3>4. i \in OwnPositions(u) /\ i \in Nat
            BY <1>4, <3>1
        <3>5. kv[row[u][i]] = Content(u, i, cachedLen[u]) /\ cachedLen[u] \in Nat
            BY <1>1, <3>4 DEF Written, Types
        <3>6. Len(k) <= Len(key) /\ i * PageSize <= cachedLen[u]
            BY <1>2, <3>1, <3>3, <3>5, PrefixOrder
        <3>7. kv[row[u][i]] = <<Owner(u), Upto(text[u], Len(k))>>
            BY <3>1, <3>4, <3>5, <3>6, ContentIs
        <3>8. Owner(u) = NoImage
            BY <1>1 DEF Owner
        <3>9. text[u] \in Seq(Token)
            BY <1>1 DEF Types
        <3>10. k = Upto(text[u], Len(k))
            BY <1>2, <3>1, <3>3, <3>9, PrefixOrder, PrefixIs
        <3> QED BY <3>2, <3>7, <3>8, <3>10
    <2> HIDE DEF new
    <2> QED BY <1>3, <2>1, <2>2
<1> HIDE DEF new
<1> QED BY <1>3, <1>5, <1>6, <1>10, <1>11, <1>12, <1>13 DEF c, hit, key, M

-----------------------------------------------------------------------------
(***************************************************************************)
(* A step for one request leaves the others' part of the invariant alone,  *)
(* when it writes to none of their own pages.                              *)
(***************************************************************************)
Untouched(v) ==
    /\ phase'[v] = phase[v] /\ text'[v] = text[v] /\ row'[v] = row[v] /\ handle'[v] = handle[v]
    /\ image'[v] = image[v] /\ promptLen'[v] = promptLen[v] /\ outputLen'[v] = outputLen[v]
    /\ cachedLen'[v] = cachedLen[v] /\ hostLen'[v] = hostLen[v]

LEMMA UntouchedIs ==
    ASSUME NEW v, Untouched(v)
    PROVE  /\ Lengths(v) => Lengths(v)'
           /\ OwnPositions(v)' = OwnPositions(v) /\ OwnPages(v)' = OwnPages(v)
           /\ \A i, end : Content(v, i, end)' = Content(v, i, end)
<1>1. OwnPositions(v)' = OwnPositions(v)
    BY DEF Untouched, OwnPositions
<1>2. OwnPages(v)' = OwnPages(v)
    BY <1>1 DEF Untouched, OwnPages
<1>3. \A i, end : Content(v, i, end)' = Content(v, i, end)
    BY DEF Untouched, Content, Owner
<1>4. Lengths(v) => Lengths(v)'
    BY DEF Untouched, Lengths, InPrompt, Sampling
<1> QED BY <1>1, <1>2, <1>3, <1>4

\* What such a step has to establish.
Rewritten(u) ==
    /\ \A i \in OwnPositions(u)' : kv'[row'[u][i]] = Content(u, i, cachedLen[u])'
    /\ \A k \in Keys(radix') : kv'[radix'.pages[k]] = <<NoImage, k>>
    /\ \A v \in Req \ {u} : \A p \in OwnPages(v) : kv'[p] = kv[p]

Replaced(u) ==
    /\ Distinct(radix') /\ Partition(free', TreePages(radix'), [Owns EXCEPT ![u] = OwnPages(u)'])
    /\ \A i, j \in OwnPositions(u)' : row'[u][i] = row'[u][j] => i = j

Reshared(u) ==
    /\ \A k \in Keys(radix) \cap Keys(radix') : radix'.pages[k] = radix.pages[k]
    /\ \A k \in Keys(radix') : IsPrefix(k, handle'[u]) =>
          row'[u][Len(k) \div PageSize] = radix'.pages[k]

LEMMA StepIs ==
    ASSUME CacheInv, NEW u \in Req, \A v \in Req \ {u} : Untouched(v),
           Types', Lengths(u)', TreeInv', Replaced(u), Reshared(u), Rewritten(u)
    PROVE  CacheInv'
<1>1. Types /\ (\A v \in Req : Lengths(v)) /\ TreeInv /\ Places /\ Shared /\ Written
    BY DEF CacheInv
<1>2. ASSUME NEW v \in Req \ {u}
      PROVE  /\ Lengths(v)' /\ OwnPositions(v)' = OwnPositions(v) /\ OwnPages(v)' = OwnPages(v)
             /\ \A i, end : Content(v, i, end)' = Content(v, i, end)
             /\ row'[v] = row[v] /\ handle'[v] = handle[v] /\ cachedLen'[v] = cachedLen[v]
    <2>1. Untouched(v) /\ Lengths(v)
        BY <1>1
    <2>2. row'[v] = row[v] /\ handle'[v] = handle[v] /\ cachedLen'[v] = cachedLen[v]
        BY <2>1 DEF Untouched
    <2> QED BY <2>1, <2>2, UntouchedIs
<1>3. \A v \in Req : Lengths(v)'
    BY <1>2
<1>4. Places'
    <2>1. Owns' = [Owns EXCEPT ![u] = OwnPages(u)']
        <3>1. Owns' = [v \in Req |-> OwnPages(v)'] /\ Owns = [v \in Req |-> OwnPages(v)]
            BY DEF Owns
        <3> QED BY <1>2, <3>1
    <2>2. \A v \in Req : \A i, j \in OwnPositions(v)' : row'[v][i] = row'[v][j] => i = j
        <3> SUFFICES ASSUME NEW v \in Req, NEW i \in OwnPositions(v)', NEW j \in OwnPositions(v)',
                            row'[v][i] = row'[v][j]
                     PROVE  i = j
            OBVIOUS
        <3>1. CASE v = u
            BY <3>1 DEF Replaced
        <3>2. CASE v # u
            BY <1>1, <1>2, <3>2 DEF Places
        <3> QED BY <3>1, <3>2
    <2>3. Partition(free', TreePages(radix'), Owns') /\ Distinct(radix')
        BY <2>1 DEF Replaced
    <2>4. Partition(free, TreePages(radix), Owns)' /\ Distinct(radix)'
        BY <2>3 DEF Partition, TreePages, Distinct, Keys
    <2> QED BY <2>2, <2>4 DEF Places
<1>5. Shared'
    <2> SUFFICES ASSUME NEW v \in Req, NEW k \in Keys(radix'), IsPrefix(k, handle'[v])
                 PROVE  row'[v][Len(k) \div PageSize] = radix'.pages[k]
        BY DEF Shared, Keys
    <2>1. CASE v = u
        BY <2>1 DEF Reshared
    <2>2. CASE v # u
        <3>1. k \in WholeKeys(Token)
            BY DEF TreeInv, Tree, Keys
        <3>2. k \in Keys(radix)
            BY <1>1, <1>2, <2>2, <3>1, RowIs
        <3>3. row[v][Len(k) \div PageSize] = radix.pages[k]
            BY <1>1, <1>2, <2>2, <3>2 DEF Shared
        <3> QED BY <1>2, <2>2, <3>2, <3>3 DEF Reshared
    <2> QED BY <2>1, <2>2
<1>6. Written'
    <2>1. ASSUME NEW v \in Req, NEW i \in OwnPositions(v)'
          PROVE  kv'[row'[v][i]] = Content(v, i, cachedLen[v])'
        <3>1. CASE v = u
            BY <3>1 DEF Rewritten
        <3>2. CASE v # u
            <4>1. i \in OwnPositions(v) /\ row'[v][i] = row[v][i] /\ cachedLen'[v] = cachedLen[v]
                BY <1>2, <3>2
            <4>2. row[v][i] \in OwnPages(v)
                BY <4>1 DEF OwnPages
            <4>3. kv'[row[v][i]] = kv[row[v][i]]
                BY <3>2, <4>2 DEF Rewritten
            <4>4. kv[row[v][i]] = Content(v, i, cachedLen[v])
                BY <1>1, <4>1 DEF Written
            <4>5. Untouched(v)
                BY <3>2
            <4>6. Content(v, i, cachedLen[v])' = Content(v, i, cachedLen[v])
                BY <4>5 DEF Content, Owner, Untouched
            <4> QED BY <4>1, <4>3, <4>4, <4>6
        <3> QED BY <3>1, <3>2
    <2>2. \A k \in Keys(radix') : kv'[radix'.pages[k]] = <<NoImage, k>>
        BY DEF Rewritten
    <2> QED BY <2>1, <2>2 DEF Written, Keys
<1> QED BY <1>3, <1>4, <1>5, <1>6 DEF CacheInv

-----------------------------------------------------------------------------
(***************************************************************************)
(* Release.                                                                *)
(***************************************************************************)
\* Lengths of whoever holds nothing.
LEMMA EmptyLengths ==
    ASSUME NEW u \in Req, phase'[u] = "new", text'[u] = <<>>, row'[u] = <<>>, handle'[u] = <<>>,
           cachedLen'[u] = 0, hostLen'[u] = 0
    PROVE  Lengths(u)' /\ OwnPositions(u)' = {} /\ OwnPages(u)' = {}
<1>1. Len(<<>>) = 0 /\ IsPrefix(<<>>, <<>>)
    BY DEF IsPrefix
<1>2. Pages(0) = 0
    <2>1. 0 % PageSize = 0 /\ 0 \div PageSize = 0
        BY PageSizeAssumption, SMTT(30)
    <2> QED BY <2>1, WholeIs
<1>3. OwnPositions(u)' = {}
    <2>1. 0 \div PageSize = 0
        BY PageSizeAssumption, SMTT(30)
    <2>2. OwnPositions(u)' = (Len(handle'[u]) \div PageSize + 1)..Len(row'[u])
        BY DEF OwnPositions
    <2> QED BY <1>1, <2>1, <2>2
<1> QED BY <1>1, <1>2, <1>3 DEF Lengths, OwnPages, InPrompt, Sampling

\* What the tree is after a request's part went to it, or not.
LEMMA ReleasedIs ==
    ASSUME CacheInv, NEW u \in Req, NEW host \in Nat, Len(handle[u]) <= host,
           cachedLen[u] <= Len(text[u]), Release(u, host)
    PROVE  \E M \in SUBSET OwnPages(u) :
              /\ Tree(radix', Token) /\ Counts(radix', [handle EXCEPT ![u] = <<>>])
              /\ \A k \in Keys(radix) \cap Keys(radix') : radix'.pages[k] = radix.pages[k]
              /\ TreePages(radix') = TreePages(radix) \cup M /\ Distinct(radix')
              /\ \A k \in Keys(radix') : kv[radix'.pages[k]] = <<NoImage, k>>
              /\ FreePages(OwnPages(u) \ M)
<1>1. Types /\ Lengths(u) /\ TreeInv /\ Places /\ Written /\ u \in DOMAIN handle
    BY DEF CacheInv, Types
<1>2. CASE image[u]
    <2>1. radix' = Unlock(radix, handle[u]) /\ FreePages(PaddedTail(u, Len(handle[u])))
        BY <1>2 DEF Release, Released
    <2>2. handle[u] = <<>>
        BY <1>1, <1>2 DEF Lengths
    <2>3. /\ Tree(radix', Token) /\ radix'.pages = radix.pages /\ Keys(radix') = Keys(radix)
          /\ Counts(radix', [handle EXCEPT ![u] = <<>>])
        BY <1>1, <2>1, <2>2, UnlockIs DEF TreeInv
    <2>4. PaddedTail(u, Len(handle[u])) = OwnPages(u)
        <3> DEFINE a == Len(handle[u]) \div PageSize  e == Len(row[u])
        <3>1. e \in Nat /\ OwnPositions(u) = (a + 1)..e /\ e = Pages(cachedLen[u])
            BY <1>1, RowIs DEF Lengths
        <3>2. (e * PageSize) \div PageSize = e
            BY <3>1, MultipleIs
        <3>3. PaddedTail(u, Len(handle[u]))
                  = {row[u][i] : i \in (a + 1)..((Pages(cachedLen[u]) * PageSize) \div PageSize)}
            BY DEF PaddedTail, RowPages
        <3> HIDE DEF a, e
        <3> QED BY <3>1, <3>2, <3>3 DEF OwnPages
    <2>5. /\ TreePages(radix') = TreePages(radix) \cup {} /\ Distinct(radix')
          /\ \A k \in Keys(radix') : kv[radix'.pages[k]] = <<NoImage, k>>
        BY <1>1, <2>3 DEF TreePages, Distinct, Places, Written
    <2>6. OwnPages(u) \ {} = OwnPages(u)
        OBVIOUS
    <2> QED BY <2>1, <2>3, <2>4, <2>5, <2>6
<1>3. CASE ~image[u]
    <2> DEFINE c == Inserted(u, host)  hit == Hit(u, host)  key == Committed(u, host)
               M == Given(u, host)  D == Duplicates(u, hit)  R == Kept(u, host)
    <2>1. Committing(u, host)
        BY <1>1, <1>3 DEF Committing
    <2>2. radix' = Unlock(c, handle[u]) /\ FreePages(D \cup R)
        <3>1. key = Upto(Known(u, host), AlignDown(Len(Known(u, host))))
            BY DEF Committed, KeyOf
        <3>2. hit = Walk(radix, key)
            BY DEF Hit
        <3>3. Len(key) = AlignDown(Len(Known(u, host)))
            <4>1. Known(u, host) \in Seq(Token)
                BY <2>1, KnownIs DEF Committing
            <4> QED BY <4>1, KeyOfIs DEF Committed
        <3> HIDE DEF key, hit
        <3>4. R = PaddedTail(u, AlignDown(Len(Known(u, host))))
            BY <3>3 DEF Kept, key
        <3> HIDE DEF D, R, c
        <3> QED BY <1>3, <3>1, <3>2, <3>4 DEF Release, Released, D, c, Inserted
    <2>3. /\ Tree(c, Token) /\ Counts(c, handle) /\ Keys(radix) \subseteq Keys(c)
          /\ handle[u] \in Nodes(c) \cup {<<>>}
          /\ \A k \in Keys(radix) : c.pages[k] = radix.pages[k]
          /\ TreePages(c) = TreePages(radix) \cup M /\ Distinct(c)
          /\ \A k \in Keys(c) : kv[c.pages[k]] = <<NoImage, k>>
        BY <2>1, InsertedIs
    <2>4. OwnPages(u) = D \cup M \cup R /\ D \cap M = {} /\ M \cap R = {}
        BY <2>1, OwnSplit
    <2> HIDE DEF c, hit, M, D, R
    <2>5. /\ Tree(radix', Token) /\ radix'.pages = c.pages /\ Keys(radix') = Keys(c)
          /\ Counts(radix', [handle EXCEPT ![u] = <<>>])
        BY <1>1, <2>2, <2>3, UnlockIs
    <2>6. D \cup R = OwnPages(u) \ M
        BY <2>4
    <2>7. /\ TreePages(radix') = TreePages(radix) \cup M /\ Distinct(radix')
          /\ \A k \in Keys(radix') : kv[radix'.pages[k]] = <<NoImage, k>>
          /\ \A k \in Keys(radix) \cap Keys(radix') : radix'.pages[k] = radix.pages[k]
        <3> DEFINE d == radix'
        <3> HIDE DEF d
        <3>1. d.pages = c.pages /\ Keys(d) = Keys(c)
            BY <2>5 DEF d
        <3>2. TreePages(d) = TreePages(c)
            BY <3>1 DEF TreePages
        <3>3. Distinct(d)
            BY <2>3, <3>1 DEF Distinct
        <3>4. \A k \in Keys(d) : kv[d.pages[k]] = <<NoImage, k>>
            BY <2>3, <3>1
        <3>5. \A k \in Keys(radix) \cap Keys(d) : d.pages[k] = radix.pages[k]
            BY <2>3, <3>1
        <3> QED BY <2>3, <3>2, <3>3, <3>4, <3>5 DEF d
    <2> QED BY <2>2, <2>4, <2>5, <2>6, <2>7
<1> QED BY <1>2, <1>3

LEMMA ReleaseStep ==
    ASSUME CacheInv, NEW u \in Req, NEW host \in Nat, Len(handle[u]) <= host,
           cachedLen[u] <= Len(text[u]), Release(u, host)
    PROVE  CacheInv'
<1>1. Types /\ Lengths(u) /\ TreeInv /\ Places /\ Written
    BY DEF CacheInv
<1>2. PICK M \in SUBSET OwnPages(u) :
              /\ Tree(radix', Token) /\ Counts(radix', [handle EXCEPT ![u] = <<>>])
              /\ \A k \in Keys(radix) \cap Keys(radix') : radix'.pages[k] = radix.pages[k]
              /\ TreePages(radix') = TreePages(radix) \cup M /\ Distinct(radix')
              /\ \A k \in Keys(radix') : kv[radix'.pages[k]] = <<NoImage, k>>
              /\ FreePages(OwnPages(u) \ M)
    BY ReleasedIs
<1>3. /\ phase' = [phase EXCEPT ![u] = "new"] /\ text' = [text EXCEPT ![u] = <<>>]
      /\ promptLen' = [promptLen EXCEPT ![u] = 0] /\ outputLen' = [outputLen EXCEPT ![u] = 0]
      /\ image' = [image EXCEPT ![u] = FALSE] /\ cachedLen' = [cachedLen EXCEPT ![u] = 0]
      /\ hostLen' = [hostLen EXCEPT ![u] = 0] /\ handle' = [handle EXCEPT ![u] = <<>>]
      /\ row' = [row EXCEPT ![u] = <<>>]
    BY DEF Release
<1>4. Types'
    BY <1>1, <1>3 DEF Types, Phases
<1>5. /\ phase'[u] = "new" /\ text'[u] = <<>> /\ row'[u] = <<>> /\ handle'[u] = <<>>
      /\ cachedLen'[u] = 0 /\ hostLen'[u] = 0
    BY <1>1, <1>3 DEF Types
<1>6. Lengths(u)' /\ OwnPositions(u)' = {} /\ OwnPages(u)' = {}
    BY <1>5, EmptyLengths
<1>7. \A v \in Req \ {u} : Untouched(v)
    BY <1>1, <1>3 DEF Types, Untouched
<1>8. TreeInv'
    BY <1>2, <1>3 DEF TreeInv, Tree, Counts, Keys, Nodes, EndsAt, UsedKeys, Users
<1>9. Owns[u] = OwnPages(u) /\ DOMAIN Owns = Req /\ Partition(free, TreePages(radix), Owns)
    BY <1>1 DEF Owns, Places
<1>10. Replaced(u)
    <2> DEFINE F == OwnPages(u) \ M  O1 == [Owns EXCEPT ![u] = @ \ F]  O2 == [O1 EXCEPT ![u] = @ \ M]
    <2>1. free' = Return(free, F)
        BY <1>2 DEF FreePages
    <2>2. Partition(free', TreePages(radix), O1)
        <3>1. F \in SUBSET Owns[u]
            BY <1>9
        <3> HIDE DEF F
        <3> QED BY <1>9, <2>1, <3>1, FreedPages
    <2>3. DOMAIN O1 = Req /\ O1[u] = M
        BY <1>9
    <2>4. Partition(free', TreePages(radix) \cup M, O2)
        <3> HIDE DEF O1
        <3> QED BY <2>2, <2>3, GivenPages
    <2>5. O2 = [Owns EXCEPT ![u] = OwnPages(u)']
        BY <1>6, <1>9, <2>3
    <2> HIDE DEF O2
    <2> QED BY <1>2, <1>6, <2>4, <2>5 DEF Replaced
<1>11. Reshared(u)
    <2>1. \A k \in Keys(radix') : ~IsPrefix(k, handle'[u])
        BY <1>2, <1>5, EmptyPrefix, WholeKeyIs DEF Tree
    <2> QED BY <1>2, <2>1 DEF Reshared
<1>12. Rewritten(u)
    <2>1. kv' = [p \in Page |-> IF p \in OwnPages(u) \ M THEN Unwritten ELSE kv[p]]
        BY <1>2 DEF FreePages
    <2>2. \A v \in Req \ {u} : \A p \in OwnPages(v) : kv'[p] = kv[p]
        <3>1. \A v \in Req \ {u} : OwnPages(v) \subseteq Page /\ OwnPages(v) \cap OwnPages(u) = {}
            BY <1>9 DEF Partition, Owns
        <3> QED BY <2>1, <3>1
    <2>3. \A k \in Keys(radix') : kv'[radix'.pages[k]] = <<NoImage, k>>
        <3> SUFFICES ASSUME NEW k \in Keys(radix') PROVE kv'[radix'.pages[k]] = <<NoImage, k>>
            OBVIOUS
        <3>1. radix'.pages[k] \in TreePages(radix) \cup M
            BY <1>2 DEF TreePages
        <3>2. OwnPages(u) \cap TreePages(radix) = {} /\ TreePages(radix) \subseteq Page /\ OwnPages(u) \subseteq Page
            BY <1>9 DEF Partition
        <3> QED BY <1>2, <2>1, <3>1, <3>2
    <2> QED BY <1>6, <2>2, <2>3 DEF Rewritten
<1> QED BY <1>4, <1>6, <1>7, <1>8, <1>10, <1>11, <1>12, StepIs

-----------------------------------------------------------------------------
(***************************************************************************)
(* The drain of a token.                                                   *)
(***************************************************************************)
\* A step that moves no page.
LEMMA QuietStep ==
    ASSUME CacheInv, NEW u \in Req, \A v \in Req \ {u} : Untouched(v), Types', Lengths(u)',
           Tree(radix', Token), Counts(radix', handle), radix'.pages = radix.pages,
           UNCHANGED <<free, kv, row, handle, cachedLen>>, text'[u] = text[u], image'[u] = image[u]
    PROVE  CacheInv'
<1>1. Types /\ Lengths(u) /\ TreeInv /\ Places /\ Written /\ Shared
    BY DEF CacheInv
<1>2. OwnPositions(u)' = OwnPositions(u) /\ OwnPages(u)' = OwnPages(u)
    BY DEF OwnPositions, OwnPages
<1>3. \A i, end : Content(u, i, end)' = Content(u, i, end)
    BY DEF Content, Owner
<1>4. TreeInv'
    BY DEF TreeInv, Tree, Counts, Keys, Nodes, EndsAt, UsedKeys, Users
<1>5. Keys(radix') = Keys(radix)
    BY DEF Keys
<1>6. Replaced(u)
    <2> DEFINE d == radix'
    <2> HIDE DEF d
    <2>1. d.pages = radix.pages /\ Keys(d) = Keys(radix)
        BY <1>5 DEF d
    <2>2. Distinct(d) /\ TreePages(d) = TreePages(radix)
        BY <1>1, <2>1 DEF Distinct, TreePages, Places
    <2>3. [Owns EXCEPT ![u] = OwnPages(u)'] = Owns
        BY <1>2 DEF Owns
    <2>4. Partition(free', TreePages(d), [Owns EXCEPT ![u] = OwnPages(u)'])
        BY <1>1, <2>2, <2>3 DEF Places
    <2>5. \A i, j \in OwnPositions(u)' : row'[u][i] = row'[u][j] => i = j
        BY <1>1, <1>2 DEF Places
    <2> QED BY <2>2, <2>4, <2>5 DEF Replaced, d
<1>7. Reshared(u)
    BY <1>1, <1>5 DEF Reshared, Shared
<1>8. Rewritten(u)
    <2>1. ASSUME NEW i \in OwnPositions(u)' PROVE kv'[row'[u][i]] = Content(u, i, cachedLen[u])'
        <3>1. Content(u, i, cachedLen[u])' = Content(u, i, cachedLen[u])
            BY DEF Content, Owner
        <3> QED BY <1>1, <1>2, <3>1 DEF Written
    <2> QED BY <1>1, <1>5, <2>1 DEF Rewritten, Written
<1> QED BY <1>4, <1>6, <1>7, <1>8, StepIs

\* The row over the tree's own pages.
LEMMA RepointIs ==
    ASSUME NEW u \in Req, NEW host, Committing(u, host)
    PROVE  LET c == Inserted(u, host)
               hit == Hit(u, host)
               key == Committed(u, host)
               new == Repoint(u, c, hit)
           IN  /\ new \in Seq(Page) /\ Len(new) = Len(row[u])
               /\ \A i \in (Len(key) \div PageSize + 1)..Len(row[u]) : new[i] = row[u][i]
               /\ \A k \in Keys(c) : IsPrefix(k, key) => new[Len(k) \div PageSize] = c.pages[k]
<1> DEFINE c == Inserted(u, host)  hit == Hit(u, host)  key == Committed(u, host)
           new == Repoint(u, c, hit)
           b == Len(hit) \div PageSize  d == Len(key) \div PageSize  e == Len(row[u])
<1>1. Types /\ TreeInv /\ Places /\ Lengths(u) /\ row[u] \in Seq(Page)
    BY DEF Committing, Types
<1>2. /\ key \in Seq(Token) /\ hit \in Seq(Token) /\ hit \in Keys(radix) \cup {<<>>}
      /\ IsPrefix(hit, key) /\ Len(key) % PageSize = 0 /\ Len(hit) % PageSize = 0
      /\ Len(key) \in Nat /\ Len(hit) \in Nat
    BY KnownIs DEF Committing
<1>3. b \in Nat /\ d \in Nat /\ e \in Nat /\ b <= d /\ d <= e
    BY PositionsSplit
<1>4. /\ Tree(c, Token) /\ Keys(radix) \subseteq Keys(c)
      /\ \A k \in Keys(radix) : IsPrefix(k, key) => IsPrefix(k, hit)
      /\ \A k \in Keys(c) \ Keys(radix) :
            Len(hit) < Len(k) /\ c.pages[k] = row[u][Len(k) \div PageSize]
      /\ TreePages(c) = TreePages(radix) \cup Given(u, host)
    BY InsertedIs
<1>5. TreePages(c) \subseteq Page
    <2>1. Given(u, host) \subseteq OwnPages(u)
        BY OwnSplit
    <2>2. OwnPages(u) \subseteq Page /\ TreePages(radix) \subseteq Page
        BY <1>1 DEF Places, Partition, Owns
    <2> QED BY <1>4, <2>1, <2>2
<1> HIDE DEF c, hit, key
<1>6. \A k \in WholeKeys(Token) : IsPrefix(k, hit) => k \in Keys(radix)
    <2> SUFFICES ASSUME NEW k \in WholeKeys(Token), IsPrefix(k, hit) PROVE k \in Keys(radix)
        OBVIOUS
    <2>1. hit \in Keys(radix)
        BY <1>2, EmptyPrefix, WholeKeyIs
    <2> QED BY <1>1, <2>1 DEF TreeInv, Tree
<1>7. ASSUME NEW i \in 1..b
      PROVE  /\ Upto(hit, i * PageSize) \in Keys(c)
             /\ MatchedPages(c, hit)[i] = c.pages[Upto(hit, i * PageSize)]
             /\ MatchedPages(c, hit)[i] \in Page
    <2>1. Upto(hit, i * PageSize) \in WholeKeys(Token) /\ IsPrefix(Upto(hit, i * PageSize), hit)
        BY <1>2, PageKeyIs
    <2>2. Upto(hit, i * PageSize) \in Keys(c)
        BY <1>4, <1>6, <2>1
    <2>3. MatchedPages(c, hit)[i] = c.pages[Upto(hit, i * PageSize)]
        BY DEF MatchedPages
    <2>4. c.pages[Upto(hit, i * PageSize)] \in TreePages(c)
        BY <2>2 DEF TreePages
    <2> QED BY <1>5, <2>2, <2>3, <2>4
<1>8. new = [i \in 1..e |-> IF i <= b THEN MatchedPages(c, hit)[i] ELSE row[u][i]]
    BY DEF Repoint
<1> HIDE DEF new, b, d
<1>9. ASSUME NEW i \in 1..e
      PROVE  new[i] = (IF i <= b THEN MatchedPages(c, hit)[i] ELSE row[u][i]) /\ new[i] \in Page
    <2>1. new[i] = IF i <= b THEN MatchedPages(c, hit)[i] ELSE row[u][i]
        BY <1>8
    <2>2. row[u][i] \in Page
        BY <1>1
    <2>3. i <= b => i \in 1..b
        BY <1>3
    <2> QED BY <1>7, <2>1, <2>2, <2>3
<1>10. new \in Seq(Page) /\ Len(new) = e
    <2>1. new \in [1..e -> Page]
        BY <1>8, <1>9
    <2> QED BY <1>3, <2>1
<1>11. \A i \in (d + 1)..e : new[i] = row[u][i]
    <2> SUFFICES ASSUME NEW i \in (d + 1)..e PROVE new[i] = row[u][i]
        OBVIOUS
    <2>1. i \in 1..e /\ ~(i <= b)
        BY <1>3
    <2> QED BY <1>9, <2>1
<1>12. ASSUME NEW k \in Keys(c), IsPrefix(k, key) PROVE new[Len(k) \div PageSize] = c.pages[k]
    <2> DEFINE i == Len(k) \div PageSize
    <2>1. k \in WholeKeys(Token) /\ k \in Seq(Token) /\ Len(k) \in Nat
        BY <1>4, WholeKeyIs DEF Tree
    <2>2. i \in 1..d /\ i * PageSize = Len(k)
        BY <1>2, <1>12, <2>1, PageKeyIs DEF d
    <2>3. CASE k \in Keys(radix)
        <3>1. IsPrefix(k, hit)
            BY <1>4, <1>12, <2>3
        <3>2. i \in 1..b /\ k = Upto(hit, Len(k))
            BY <1>2, <2>1, <3>1, PageKeyIs DEF b
        <3> HIDE DEF i
        <3>3. i \in 1..e /\ i <= b
            BY <1>3, <3>2
        <3> QED BY <1>7, <1>9, <2>2, <3>2, <3>3 DEF i
    <2>4. CASE k \notin Keys(radix)
        <3>1. Len(hit) < Len(k) /\ c.pages[k] = row[u][i]
            BY <1>4, <2>4
        <3>2. b * PageSize = Len(hit)
            BY <1>2, WholeIs DEF b
        <3> HIDE DEF i
        <3>3. i \in Nat /\ b < i
            BY <1>2, <1>3, <2>1, <2>2, <3>1, <3>2, TimesIs
        <3>4. i \in 1..e /\ ~(i <= b)
            BY <1>3, <2>2, <3>3
        <3> QED BY <1>9, <3>1, <3>4 DEF i
    <2> QED BY <2>3, <2>4
<1> QED BY <1>10, <1>11, <1>12 DEF new, c, hit, key, d

\* A commit shares the whole pages of u, and what others shared before is freed.
LEMMA CommittedIs ==
    ASSUME CacheInv, NEW u \in Req, NEW host, Committing(u, host), Commit(u, host),
           UNCHANGED <<text, image, cachedLen>>
    PROVE  /\ TreeInv' /\ Replaced(u) /\ Reshared(u) /\ Rewritten(u)
           /\ handle' = [handle EXCEPT ![u] = Committed(u, host)]
           /\ \E new \in Seq(Page) :
                 row' = [row EXCEPT ![u] = new] /\ Len(new) = Len(row[u])
<1> DEFINE c == Inserted(u, host)  hit == Hit(u, host)  key == Committed(u, host)
           M == Given(u, host)  D == Duplicates(u, hit)  R == Kept(u, host)
           new == Repoint(u, c, hit)
           a == Len(handle[u]) \div PageSize
           b == Len(hit) \div PageSize  d == Len(key) \div PageSize  e == Len(row[u])
           d2 == Unlock(c, handle[u])  H0 == [handle EXCEPT ![u] = <<>>]
<1>1. /\ Types /\ Lengths(u) /\ TreeInv /\ Places /\ Written /\ Shared
      /\ u \in DOMAIN handle /\ u \in DOMAIN row /\ row[u] \in Seq(Page) /\ DOMAIN handle = Req
    BY DEF CacheInv, Types
<1>2. /\ radix' = Lock(d2, key) /\ FreePages(D)
      /\ handle' = [handle EXCEPT ![u] = key] /\ row' = [row EXCEPT ![u] = new]
    <2>1. key = Upto(Known(u, host), AlignDown(Len(Known(u, host))))
        BY DEF Committed, KeyOf
    <2>2. hit = Walk(radix, key)
        BY DEF Hit
    <2> HIDE DEF key, hit
    <2>3. ~image[u]
        BY DEF Committing
    <2> QED BY <2>1, <2>2, <2>3 DEF Commit, Released, Inserted
<1>3. /\ Tree(c, Token) /\ Counts(c, handle) /\ Keys(radix) \subseteq Keys(c)
      /\ key \in Nodes(c) \cup {<<>>} /\ handle[u] \in Nodes(c) \cup {<<>>}
      /\ \A k \in Keys(radix) : c.pages[k] = radix.pages[k]
      /\ TreePages(c) = TreePages(radix) \cup M /\ Distinct(c)
      /\ \A k \in Keys(c) : kv[c.pages[k]] = <<NoImage, k>>
    BY InsertedIs
<1>4. OwnPages(u) = D \cup M \cup R /\ D \cap M = {} /\ D \cap R = {} /\ M \cap R = {}
    BY OwnSplit
<1>5. /\ new \in Seq(Page) /\ Len(new) = Len(row[u])
      /\ \A i \in (d + 1)..e : new[i] = row[u][i]
      /\ \A k \in Keys(c) : IsPrefix(k, key) => new[Len(k) \div PageSize] = c.pages[k]
    BY RepointIs
<1>6. /\ a \in Nat /\ b \in Nat /\ d \in Nat /\ e \in Nat /\ a <= b /\ b <= d /\ d <= e
      /\ OwnPositions(u) = (a + 1)..e /\ R = {row[u][i] : i \in (d + 1)..e}
    BY PositionsSplit
<1> HIDE DEF c, hit, key, M, D, R, new, d2, H0
<1>7. /\ Tree(d2, Token) /\ d2.pages = c.pages /\ Keys(d2) = Keys(c) /\ Nodes(d2) = Nodes(c)
      /\ Counts(d2, H0)
    BY <1>1, <1>3, UnlockIs DEF d2, H0
<1>8. /\ Tree(radix', Token) /\ radix'.pages = c.pages /\ Keys(radix') = Keys(c)
      /\ Counts(radix', handle')
    <2>1. u \in DOMAIN H0 /\ H0[u] = <<>> /\ [H0 EXCEPT ![u] = key] = handle'
        BY <1>1, <1>2 DEF H0
    <2>2. key \in Nodes(d2) \cup {<<>>}
        BY <1>3, <1>7
    <2>3. Counts(Lock(d2, key), [H0 EXCEPT ![u] = key])
        BY <1>7, <2>1, <2>2, LockIs
    <2> QED BY <1>2, <1>7, <2>1, <2>2, <2>3, LockIs
<1>9. TreeInv'
    BY <1>8 DEF TreeInv, Tree, Counts, Keys, Nodes, EndsAt, UsedKeys, Users
<1>10. handle'[u] = key /\ row'[u] = new
    BY <1>1, <1>2
<1>11. OwnPositions(u)' = (d + 1)..e /\ OwnPages(u)' = R
    <2>1. OwnPositions(u)' = (Len(handle'[u]) \div PageSize + 1)..Len(row'[u])
        BY DEF OwnPositions
    <2>2. OwnPositions(u)' = (d + 1)..e
        BY <1>5, <1>10, <2>1 DEF key
    <2>3. OwnPages(u)' = {row'[u][i] : i \in OwnPositions(u)'}
        BY DEF OwnPages
    <2> HIDE DEF d, e
    <2> QED BY SMTT(60), <1>5, <1>6, <1>10, <2>2, <2>3
<1> HIDE DEF a, b, d, e
<1>12. Owns[u] = OwnPages(u) /\ DOMAIN Owns = Req /\ Partition(free, TreePages(radix), Owns)
    BY <1>1 DEF Owns, Places
<1>13. /\ TreePages(radix') = TreePages(radix) \cup M
       /\ Distinct(radix')
       /\ \A k \in Keys(radix') : kv[radix'.pages[k]] = <<NoImage, k>>
       /\ \A k \in Keys(radix) \cap Keys(radix') : radix'.pages[k] = radix.pages[k]
    <2> DEFINE f == radix'
    <2> HIDE DEF f
    <2>1. f.pages = c.pages /\ Keys(f) = Keys(c)
        BY <1>8 DEF f
    <2>2. TreePages(f) = TreePages(c)
        BY <2>1 DEF TreePages
    <2>3. Distinct(f)
        BY <1>3, <2>1 DEF Distinct
    <2>4. \A k \in Keys(f) : kv[f.pages[k]] = <<NoImage, k>>
        BY <1>3, <2>1
    <2>5. \A k \in Keys(radix) \cap Keys(f) : f.pages[k] = radix.pages[k]
        BY <1>3, <2>1
    <2> QED BY <1>3, <2>2, <2>3, <2>4, <2>5 DEF f
<1>14. Replaced(u)
    <2> DEFINE O1 == [Owns EXCEPT ![u] = @ \ D]  O2 == [O1 EXCEPT ![u] = @ \ M]
    <2>1. free' = Return(free, D)
        BY <1>2 DEF FreePages
    <2>2. Partition(free', TreePages(radix), O1)
        <3>1. D \in SUBSET Owns[u]
            BY <1>4, <1>12
        <3> QED BY <1>12, <2>1, <3>1, FreedPages
    <2>3. DOMAIN O1 = Req /\ O1[u] = M \cup R
        BY <1>4, <1>12
    <2>4. Partition(free', TreePages(radix) \cup M, O2)
        <3>1. M \in SUBSET O1[u]
            BY <2>3
        <3> HIDE DEF O1
        <3> QED BY <2>2, <2>3, <3>1, GivenPages
    <2>5. O2 = [Owns EXCEPT ![u] = OwnPages(u)']
        BY <1>4, <1>11, <1>12, <2>3
    <2> HIDE DEF O2
    <2>6. \A i, j \in OwnPositions(u)' : row'[u][i] = row'[u][j] => i = j
        <3>1. \A i, j \in (a + 1)..e : row[u][i] = row[u][j] => i = j
            BY <1>1, <1>6 DEF Places
        <3>2. (d + 1)..e \subseteq (a + 1)..e
            BY <1>6
        <3> QED BY <1>5, <1>10, <1>11, <3>1, <3>2
    <2> QED BY <1>13, <2>4, <2>5, <2>6 DEF Replaced
<1>15. Reshared(u)
    <2>1. \A k \in Keys(radix') : IsPrefix(k, key) => new[Len(k) \div PageSize] = radix'.pages[k]
        BY <1>5, <1>8
    <2> QED BY <1>10, <1>13, <2>1 DEF Reshared
<1>16. Rewritten(u)
    <2>1. kv' = [p \in Page |-> IF p \in D THEN Unwritten ELSE kv[p]]
        BY <1>2 DEF FreePages
    <2>2. /\ OwnPages(u) \subseteq Page /\ TreePages(radix) \subseteq Page
          /\ OwnPages(u) \cap TreePages(radix) = {}
          /\ \A v \in Req \ {u} : OwnPages(v) \subseteq Page /\ OwnPages(v) \cap OwnPages(u) = {}
        BY <1>12 DEF Partition, Owns
    <2>3. \A v \in Req \ {u} : \A p \in OwnPages(v) : kv'[p] = kv[p]
        BY <1>4, <2>1, <2>2
    <2>4. \A k \in Keys(radix') : kv'[radix'.pages[k]] = <<NoImage, k>>
        <3> SUFFICES ASSUME NEW k \in Keys(radix') PROVE kv'[radix'.pages[k]] = <<NoImage, k>>
            OBVIOUS
        <3>1. radix'.pages[k] \in TreePages(radix) \cup M
            BY <1>13 DEF TreePages
        <3>2. radix'.pages[k] \in Page /\ radix'.pages[k] \notin D
            BY <1>4, <2>2, <3>1
        <3> QED BY <1>13, <2>1, <3>2
    <2>5. ASSUME NEW i \in OwnPositions(u)' PROVE kv'[row'[u][i]] = Content(u, i, cachedLen[u])'
        <3>1. i \in OwnPositions(u) /\ row'[u][i] = row[u][i] /\ row[u][i] \in R
            BY <1>5, <1>6, <1>10, <1>11
        <3>2. kv[row[u][i]] = Content(u, i, cachedLen[u])
            BY <1>1, <3>1 DEF Written
        <3>3. kv'[row[u][i]] = kv[row[u][i]]
            BY <1>4, <2>1, <2>2, <3>1
        <3>4. Content(u, i, cachedLen[u])' = Content(u, i, cachedLen[u])
            BY DEF Content, Owner
        <3> QED BY <3>1, <3>2, <3>3, <3>4
    <2> QED BY <2>3, <2>4, <2>5 DEF Rewritten
<1> QED BY <1>2, <1>5, <1>9, <1>14, <1>15, <1>16 DEF key

LEMMA CommitStep ==
    ASSUME CacheInv, NEW u \in Req, phase[u] = "drain", hostLen[u] < Len(text[u]),
           Commit(u, hostLen[u] + 1), hostLen' = [hostLen EXCEPT ![u] = @ + 1],
           phase' = [phase EXCEPT ![u] = "decode"],
           UNCHANGED <<text, promptLen, outputLen, image, cachedLen>>
    PROVE  CacheInv'
<1> DEFINE host == hostLen[u] + 1  key == Committed(u, host)
<1>1. /\ Types /\ Lengths(u) /\ TreeInv /\ Places /\ Written
      /\ DOMAIN handle = Req /\ DOMAIN row = Req /\ DOMAIN phase = Req /\ DOMAIN hostLen = Req
      /\ text[u] \in Seq(Token) /\ handle[u] \in Seq(Token) /\ row[u] \in Seq(Page)
      /\ Len(handle[u]) \in Nat /\ cachedLen[u] \in Nat /\ hostLen[u] \in Nat /\ Len(text[u]) \in Nat
    BY DEF CacheInv, Types
<1>2. /\ Len(row[u]) = Pages(cachedLen[u]) /\ IsPrefix(handle[u], text[u])
      /\ Len(handle[u]) <= cachedLen[u] /\ Len(handle[u]) <= hostLen[u]
      /\ image[u] => handle[u] = <<>>
      /\ Len(text[u]) = cachedLen[u] + 1 /\ promptLen[u] <= cachedLen[u]
    BY <1>1 DEF Lengths, Sampling
<1>3. host \in Nat /\ Len(handle[u]) <= host /\ cachedLen[u] <= Len(text[u])
    BY <1>1, <1>2
<1>4. phase'[u] = "decode" /\ hostLen'[u] = host
    BY <1>1
<1>5. CASE image[u]
    <2>1. radix' = Unlock(radix, <<>>) /\ handle[u] = <<>> /\ UNCHANGED <<free, kv, handle, row>>
        BY <1>2, <1>5 DEF Commit, Released
    <2>2. /\ Tree(radix', Token) /\ radix'.pages = radix.pages
          /\ Counts(radix', [handle EXCEPT ![u] = <<>>])
        BY <1>1, <2>1, UnlockIs DEF TreeInv
    <2>3. [handle EXCEPT ![u] = <<>>] = handle
        BY <1>1, <2>1 DEF Types
    <2>4. Types'
        BY SMTT(60), <1>1, <2>1 DEF Types, Phases
    <2>5. Lengths(u)'
        BY <1>1, <1>2, <1>4, <2>1 DEF Lengths, InPrompt, Sampling
    <2>6. \A v \in Req \ {u} : Untouched(v)
        BY <1>1, <2>1 DEF Untouched
    <2> QED BY <2>1, <2>2, <2>3, <2>4, <2>5, <2>6, QuietStep
<1>6. CASE ~image[u]
    <2>1. Committing(u, host)
        BY <1>1, <1>3, <1>6 DEF Committing
    <2>2. /\ key \in Seq(Token) /\ IsPrefix(key, text[u]) /\ Len(key) <= cachedLen[u]
          /\ Len(key) <= host
        BY <2>1, KnownIs DEF Committing
    <2>3. Commit(u, host)
        OBVIOUS
    <2> HIDE DEF host
    <2>4. /\ TreeInv' /\ Replaced(u) /\ Reshared(u) /\ Rewritten(u)
          /\ handle' = [handle EXCEPT ![u] = Committed(u, host)]
          /\ \E new \in Seq(Page) :
                 row' = [row EXCEPT ![u] = new] /\ Len(new) = Len(row[u])
        BY <2>1, <2>3, CommittedIs
    <2>5. PICK new \in Seq(Page) : row' = [row EXCEPT ![u] = new] /\ Len(new) = Len(row[u])
        BY <2>4
    <2> HIDE DEF key
    <2>6. handle' = [handle EXCEPT ![u] = key] /\ handle'[u] = key /\ row'[u] = new
        BY <1>1, <2>4, <2>5 DEF key
    <2>7. Types'
        <3>1. handle' \in [Req -> Seq(Token)] /\ row' \in [Req -> Seq(Page)]
            BY <1>1, <2>2, <2>5, <2>6 DEF Types
        <3>2. phase' \in [Req -> Phases] /\ hostLen' \in [Req -> Nat]
            BY <1>1 DEF Types, Phases
        <3> QED BY <1>1, <3>1, <3>2 DEF Types
    <2>8. Lengths(u)'
        BY <1>2, <1>4, <1>6, <2>2, <2>5, <2>6 DEF Lengths, InPrompt, Sampling
    <2>9. \A v \in Req \ {u} : Untouched(v)
        BY <1>1, <2>5, <2>6 DEF Untouched
    <2> QED BY <2>4, <2>7, <2>8, <2>9, StepIs
<1> QED BY <1>5, <1>6

LEMMA DrainStep ==
    ASSUME CacheInv, NEW u \in Req, Drain(u)
    PROVE  CacheInv'
<1>1. /\ Types /\ Lengths(u) /\ TreeInv /\ DOMAIN hostLen = Req /\ DOMAIN phase = Req
      /\ Len(handle[u]) \in Nat /\ cachedLen[u] \in Nat /\ hostLen[u] \in Nat /\ Len(text[u]) \in Nat
    BY DEF CacheInv, Types
<1>2. Sampling(u) /\ hostLen[u] < Len(text[u])
    BY DEF Drain
<1>3. Len(text[u]) = cachedLen[u] + 1 /\ Len(handle[u]) <= hostLen[u]
    BY <1>1, <1>2 DEF Lengths
<1>4. CASE Release(u, hostLen[u] + 1)
    <2>1. hostLen[u] + 1 \in Nat /\ Len(handle[u]) <= hostLen[u] + 1 /\ cachedLen[u] <= Len(text[u])
        BY <1>1, <1>3
    <2> QED BY <1>4, <2>1, ReleaseStep
<1>5. CASE /\ hostLen' = [hostLen EXCEPT ![u] = @ + 1]
           /\ phase' = [phase EXCEPT ![u] = "decode"]
           /\ UNCHANGED <<text, promptLen, outputLen, image, cachedLen>>
           /\ phase[u] = "drain" /\ Commit(u, hostLen[u] + 1)
    BY <1>2, <1>5, CommitStep
<1>6. CASE /\ hostLen' = [hostLen EXCEPT ![u] = @ + 1]
           /\ phase' = [phase EXCEPT ![u] = "decode"]
           /\ UNCHANGED <<text, promptLen, outputLen, image, cachedLen>>
           /\ UNCHANGED <<radix, free, kv, handle, row>>
    <2>1. Types'
        BY <1>1, <1>6 DEF Types, Phases
    <2>2. phase'[u] = "decode" /\ hostLen'[u] = hostLen[u] + 1
        BY <1>1, <1>6
    <2>3. Lengths(u)'
        BY <1>1, <1>2, <1>3, <1>6, <2>2 DEF Lengths, InPrompt, Sampling
    <2>4. \A v \in Req \ {u} : Untouched(v)
        BY <1>1, <1>6 DEF Untouched
    <2>5. Tree(radix', Token) /\ Counts(radix', handle) /\ radix'.pages = radix.pages
        BY <1>1, <1>6 DEF TreeInv
    <2> QED BY <1>6, <2>1, <2>3, <2>4, <2>5, QuietStep
<1> QED BY <1>4, <1>5, <1>6 DEF Drain

LEMMA AbortStep ==
    ASSUME CacheInv, NEW u \in Req, Abort(u)
    PROVE  CacheInv'
<1>1. /\ Types /\ Lengths(u) /\ hostLen[u] \in Nat /\ cachedLen[u] \in Nat /\ Len(text[u]) \in Nat
      /\ promptLen[u] \in Nat
    BY DEF CacheInv, Types
<1>2. Release(u, hostLen[u]) /\ (InPrompt(u) \/ Sampling(u))
    BY DEF Abort, InPrompt, Sampling
<1>3. Len(handle[u]) <= hostLen[u] /\ cachedLen[u] <= Len(text[u])
    BY <1>1, <1>2 DEF Lengths
<1> QED BY <1>1, <1>2, <1>3, ReleaseStep

-----------------------------------------------------------------------------
(***************************************************************************)
(* Admission.                                                              *)
(***************************************************************************)
\* What the match leaves: a handle at the end of a node, and the same pages.
LEMMA MatchedIs ==
    ASSUME Types, TreeInv, NEW shape \in Shapes
    PROVE  LET k == Walk(radix, MatchIds(shape))
               c == Match(radix, MatchIds(shape))
           IN  /\ Tree(c, Token) /\ c.pages = radix.pages /\ Keys(c) = Keys(radix)
               /\ Counts(c, handle) /\ k \in Nodes(c) \cup {<<>>}
               /\ k \in Seq(Token) /\ Len(k) \in Nat /\ Len(k) % PageSize = 0
               /\ IsPrefix(k, shape.prompt) /\ Len(k) < Len(shape.prompt)
               /\ Len(shape.prompt) \in Nat /\ shape.prompt \in Seq(Token)
               /\ \A j \in WholeKeys(Token) : IsPrefix(j, k) => j \in Keys(radix)
               /\ shape.image => k = <<>>
<1> DEFINE ids == MatchIds(shape)  k == Walk(radix, ids)  c == Match(radix, ids)
<1>1. /\ shape.prompt \in Seq(Token) /\ Len(shape.prompt) \in Nat \ {0} /\ shape.image \in BOOLEAN
    <2>1. shape.prompt \in Seq(Token) /\ shape.prompt # <<>> /\ shape.image \in BOOLEAN
        BY ShapesAssumption
    <2> DEFINE t == shape.prompt
    <2> HIDE DEF t
    <2>2. t \in Seq(Token) /\ t # <<>> => Len(t) \in Nat \ {0}
        OBVIOUS
    <2> QED BY <2>1, <2>2 DEF t
<1>2. /\ ids \in Seq(Token) /\ IsPrefix(ids, shape.prompt) /\ Len(ids) < Len(shape.prompt)
      /\ shape.image => ids = <<>>
    <2>1. CASE shape.image
        <3>1. ids = <<>>
            BY <2>1 DEF MatchIds
        <3> QED BY <1>1, <3>1, EmptyPrefix
    <2>2. CASE ~shape.image
        <3>1. ids = Upto(shape.prompt, Len(shape.prompt) - 1)
            BY <2>2 DEF MatchIds
        <3>2. Len(shape.prompt) - 1 \in 0..Len(shape.prompt)
            BY <1>1
        <3> QED BY <1>1, <2>2, <3>1, <3>2, UptoIs, UptoPrefix
    <2> QED BY <1>1, <2>1, <2>2
<1> HIDE DEF ids
<1>3. /\ k \in Keys(radix) \cup {<<>>} /\ k \in Seq(Token) /\ IsPrefix(k, ids)
      /\ Len(k) \in Nat /\ Len(k) % PageSize = 0 /\ Len(k) <= Len(ids)
      /\ \A j \in WholeKeys(Token) : IsPrefix(j, k) => j \in Keys(radix)
    BY <1>2, WalkIs DEF TreeInv
<1>4. c = Split(radix, k)
    BY DEF Match
<1> HIDE DEF k, c
<1>5. /\ Tree(c, Token) /\ c.pages = radix.pages /\ Keys(c) = Keys(radix)
      /\ Nodes(c) = Nodes(radix) \cup ({k} \ {<<>>}) /\ Counts(c, handle)
    BY <1>3, <1>4, SplitIs DEF TreeInv
<1>6. IsPrefix(k, shape.prompt) /\ Len(k) < Len(shape.prompt)
    <2>1. IsPrefix(k, shape.prompt)
        BY <1>1, <1>2, <1>3, PrefixOrder
    <2>2. Len(ids) \in Nat
        BY <1>2
    <2> QED BY <1>1, <1>2, <1>3, <2>1, <2>2
<1>7. shape.image => k = <<>>
    BY <1>2, <1>3, EmptyPrefix
<1> QED BY <1>1, <1>3, <1>5, <1>6, <1>7 DEF k, c, ids

\* The row over the tree's pages for a handle.
LEMMA MatchedPagesIs ==
    ASSUME NEW c, Tree(c, Token), TreePages(c) \subseteq Page,
           NEW k \in Seq(Token), Len(k) % PageSize = 0,
           \A j \in WholeKeys(Token) : IsPrefix(j, k) => j \in Keys(c)
    PROVE  /\ MatchedPages(c, k) \in Seq(Page) /\ Len(k) \div PageSize \in Nat
           /\ Len(MatchedPages(c, k)) = Len(k) \div PageSize /\ Len(k) \div PageSize = Pages(Len(k))
           /\ \A j \in Keys(c) : IsPrefix(j, k) => MatchedPages(c, k)[Len(j) \div PageSize] = c.pages[j]
<1> DEFINE b == Len(k) \div PageSize  m == MatchedPages(c, k)
<1>1. Len(k) \in Nat /\ b \in Nat /\ b = Pages(Len(k))
    BY WholeIs
<1>2. m = [i \in 1..b |-> c.pages[Upto(k, i * PageSize)]]
    BY DEF MatchedPages
<1> HIDE DEF m
<1>3. ASSUME NEW i \in 1..b PROVE Upto(k, i * PageSize) \in Keys(c) /\ m[i] \in Page
    <2>1. Upto(k, i * PageSize) \in WholeKeys(Token) /\ IsPrefix(Upto(k, i * PageSize), k)
        BY PageKeyIs
    <2>2. Upto(k, i * PageSize) \in Keys(c)
        BY <2>1
    <2>3. m[i] \in TreePages(c)
        BY <1>2, <2>2 DEF TreePages
    <2> QED BY <2>2, <2>3
<1>4. ASSUME NEW j \in Keys(c), IsPrefix(j, k) PROVE m[Len(j) \div PageSize] = c.pages[j]
    <2>1. j \in WholeKeys(Token)
        BY DEF Tree
    <2>2. Len(j) \div PageSize \in 1..b /\ (Len(j) \div PageSize) * PageSize = Len(j) /\ j = Upto(k, Len(j))
        BY <1>4, <2>1, PageKeyIs
    <2> HIDE DEF b
    <2> QED BY <1>2, <2>2
<1> HIDE DEF b
<1>5. m \in Seq(Page) /\ Len(m) = b
    <2>1. m \in [1..b -> Page]
        BY <1>2, <1>3
    <2> QED BY <1>1, <2>1
<1> QED BY <1>1, <1>4, <1>5 DEF b, m

LEMMA AdmitRefusedStep ==
    ASSUME CacheInv, AdmitRefused
    PROVE  CacheInv'
<1>1. PICK u \in Req, shape \in Shapes : radix' = Match(radix, MatchIds(shape))
    BY DEF AdmitRefused
<1>2. Types /\ TreeInv /\ Lengths(u) /\ UNCHANGED <<free, kv, reqVars, dead>>
    BY DEF CacheInv, AdmitRefused
<1>3. /\ Tree(radix', Token) /\ Counts(radix', handle) /\ radix'.pages = radix.pages
    BY <1>1, <1>2, MatchedIs
<1>4. Types' /\ Lengths(u)' /\ \A v \in Req \ {u} : Untouched(v)
    BY <1>2 DEF Types, Lengths, InPrompt, Sampling, Untouched, reqVars
<1> QED BY <1>2, <1>3, <1>4, QuietStep DEF reqVars

LEMMA NoPagesIs ==
    Pages(0) = 0 /\ 0 \div PageSize = 0
<1>1. 0 % PageSize = 0 /\ 0 \div PageSize = 0
    BY PageSizeAssumption, SMTT(30)
<1> QED BY <1>1, WholeIs

LEMMA AdmitStep ==
    ASSUME CacheInv, NEW u \in Req, Admit(u)
    PROVE  CacheInv'
<1>1. PICK shape \in Shapes :
          LET k == Walk(radix, MatchIds(shape))
              c == Match(radix, MatchIds(shape))
          IN  /\ radix' = Lock(c, k)
              /\ handle' = [handle EXCEPT ![u] = k]
              /\ row' = [row EXCEPT ![u] = MatchedPages(c, k)]
              /\ cachedLen' = [cachedLen EXCEPT ![u] = Len(k)]
              /\ hostLen' = [hostLen EXCEPT ![u] = Len(k)]
              /\ text' = [text EXCEPT ![u] = shape.prompt]
              /\ promptLen' = [promptLen EXCEPT ![u] = Len(shape.prompt)]
              /\ outputLen' = [outputLen EXCEPT ![u] = shape.output]
              /\ image' = [image EXCEPT ![u] = shape.image]
    BY DEF Admit
<1> DEFINE k == Walk(radix, MatchIds(shape))  c == Match(radix, MatchIds(shape))
           m == MatchedPages(c, k)  t == shape.prompt
<1>2. /\ Types /\ Lengths(u) /\ TreeInv /\ Places /\ Written /\ Shared
      /\ u \in DOMAIN handle /\ u \in DOMAIN row /\ DOMAIN handle = Req /\ row[u] \in Seq(Page)
      /\ phase[u] = "new" /\ phase' = [phase EXCEPT ![u] = "admitted"]
      /\ UNCHANGED <<free, kv, dead>>
    BY DEF CacheInv, Types, Admit
<1>3. /\ Tree(c, Token) /\ c.pages = radix.pages /\ Keys(c) = Keys(radix)
      /\ Counts(c, handle) /\ k \in Nodes(c) \cup {<<>>}
      /\ k \in Seq(Token) /\ Len(k) \in Nat /\ Len(k) % PageSize = 0
      /\ IsPrefix(k, t) /\ Len(k) < Len(t) /\ Len(t) \in Nat /\ t \in Seq(Token)
      /\ \A j \in WholeKeys(Token) : IsPrefix(j, k) => j \in Keys(radix)
      /\ shape.image => k = <<>>
    BY <1>2, MatchedIs
<1>4. shape.output \in Nat /\ shape.image \in BOOLEAN
    BY ShapesAssumption
<1>5. TreePages(c) = TreePages(radix) /\ TreePages(radix) \subseteq Page
    BY <1>2, <1>3 DEF TreePages, Places, Partition
<1>6. /\ radix' = Lock(c, k) /\ handle' = [handle EXCEPT ![u] = k] /\ row' = [row EXCEPT ![u] = m]
      /\ cachedLen' = [cachedLen EXCEPT ![u] = Len(k)] /\ hostLen' = [hostLen EXCEPT ![u] = Len(k)]
      /\ text' = [text EXCEPT ![u] = t]
      /\ promptLen' = [promptLen EXCEPT ![u] = Len(t)]
      /\ outputLen' = [outputLen EXCEPT ![u] = shape.output]
      /\ image' = [image EXCEPT ![u] = shape.image]
    BY <1>1
<1> HIDE DEF k, c, t
<1>7. /\ m \in Seq(Page) /\ Len(k) \div PageSize \in Nat
      /\ Len(m) = Len(k) \div PageSize /\ Len(k) \div PageSize = Pages(Len(k))
      /\ \A j \in Keys(c) : IsPrefix(j, k) => m[Len(j) \div PageSize] = c.pages[j]
    BY <1>3, <1>5, MatchedPagesIs
<1> HIDE DEF m
<1>8. handle[u] = <<>> /\ cachedLen[u] = 0 /\ Len(row[u]) = 0
    BY <1>2, NoPagesIs DEF Lengths
<1>9. Types'
    <2>1. /\ handle' \in [Req -> Seq(Token)] /\ row' \in [Req -> Seq(Page)]
          /\ text' \in [Req -> Seq(Token)] /\ image' \in [Req -> BOOLEAN]
          /\ phase' \in [Req -> Phases]
        BY <1>2, <1>3, <1>4, <1>6, <1>7 DEF Types, Phases
    <2>2. /\ cachedLen' \in [Req -> Nat] /\ hostLen' \in [Req -> Nat]
          /\ promptLen' \in [Req -> Nat] /\ outputLen' \in [Req -> Nat]
        BY <1>2, <1>3, <1>4, <1>6 DEF Types
    <2> QED BY <2>1, <2>2 DEF Types
<1>10. /\ phase'[u] = "admitted" /\ handle'[u] = k /\ row'[u] = m /\ cachedLen'[u] = Len(k)
       /\ hostLen'[u] = Len(k) /\ text'[u] = t /\ promptLen'[u] = Len(t) /\ image'[u] = shape.image
    BY <1>2, <1>6 DEF Types
<1>11. Lengths(u)'
    BY <1>3, <1>7, <1>10 DEF Lengths, InPrompt, Sampling
<1>12. \A v \in Req \ {u} : Untouched(v)
    BY <1>2, <1>6 DEF Untouched, Types
<1>13. /\ Tree(radix', Token) /\ radix'.pages = c.pages /\ Keys(radix') = Keys(c)
       /\ Counts(radix', handle')
    BY <1>2, <1>3, <1>6, <1>8, LockIs
<1>14. TreeInv'
    BY <1>13 DEF TreeInv, Tree, Counts, Keys, Nodes, EndsAt, UsedKeys, Users
<1>15. /\ OwnPositions(u)' = {} /\ OwnPages(u)' = {} /\ OwnPositions(u) = {} /\ OwnPages(u) = {}
    <2>1. OwnPositions(u)' = (Len(handle'[u]) \div PageSize + 1)..Len(row'[u])
        BY DEF OwnPositions
    <2>2. OwnPositions(u)' = {}
        BY <1>7, <1>10, <2>1
    <2>3. OwnPositions(u) = {}
        BY <1>8, NoPagesIs, EmptyPrefix DEF OwnPositions
    <2> QED BY <2>2, <2>3 DEF OwnPages
<1>16. Replaced(u)
    <2> DEFINE f == radix'
    <2> HIDE DEF f
    <2>1. f.pages = radix.pages /\ Keys(f) = Keys(radix)
        BY <1>3, <1>13 DEF f
    <2>2. Distinct(f) /\ TreePages(f) = TreePages(radix)
        BY <1>2, <2>1 DEF Distinct, TreePages, Places
    <2>3. [Owns EXCEPT ![u] = OwnPages(u)'] = Owns
        BY <1>15 DEF Owns
    <2>4. Partition(free', TreePages(f), [Owns EXCEPT ![u] = OwnPages(u)'])
        BY <1>2, <2>2, <2>3 DEF Places
    <2> QED BY <1>15, <2>2, <2>4 DEF Replaced, f
<1>17. Reshared(u)
    BY <1>3, <1>7, <1>10, <1>13 DEF Reshared
<1>18. Rewritten(u)
    BY <1>2, <1>3, <1>13, <1>15 DEF Rewritten, Written
<1> QED BY <1>9, <1>11, <1>12, <1>14, <1>16, <1>17, <1>18, StepIs

-----------------------------------------------------------------------------
(***************************************************************************)
(* A forward: what is evicted, what is allocated, what is written.         *)
(***************************************************************************)
LEMMA PagesGrow ==
    ASSUME NEW x \in Nat, NEW y \in Nat, x <= y
    PROVE  Pages(x) \in Nat /\ Pages(y) \in Nat /\ Pages(x) <= Pages(y)
<1> DEFINE a == Pages(x)  b == Pages(y)
<1>1. a \in Nat /\ a * PageSize < x + PageSize /\ b \in Nat /\ y <= b * PageSize
    BY PagesIs
<1> HIDE DEF a, b
<1>2. a * PageSize \in Nat /\ b * PageSize \in Nat /\ (b < a => b * PageSize + PageSize <= a * PageSize)
    BY <1>1, TimesIs
<1>3. ~(b < a)
    BY <1>1, <1>2, PageSizeAssumption
<1> QED BY <1>1, <1>3 DEF a, b

\* What may be evicted is unlocked, and with a node all that is below it.
LEMMA VictimsIs ==
    ASSUME NEW pages, NEW E \in Victims(pages)
    PROVE  /\ E \in SUBSET Nodes(radix) /\ \A e \in E : radix.refs[e] = 0
           /\ \A e \in E, f \in Nodes(radix) : IsPrefix(e, f) => f \in E
<1>1. E = {} \/ E \in Evictions(radix, Short(pages))
    BY DEF Victims
<1> QED BY <1>1 DEF Evictions

\* The tree, and its pages, without what was evicted.
LEMMA EvictedIs ==
    ASSUME TreeInv, Places, Written, NEW pages, NEW E \in Victims(pages)
    PROVE  LET c == Evict(radix, E)
           IN  /\ Tree(c, Token) /\ Counts(c, handle) /\ Keys(c) \subseteq Keys(radix)
               /\ \A k \in Keys(c) : c.pages[k] = radix.pages[k]
               /\ FreedBy(E) \subseteq TreePages(radix) /\ Distinct(c)
               /\ TreePages(c) = TreePages(radix) \ FreedBy(E)
<1> DEFINE c == Evict(radix, E)
<1>1. /\ E \in SUBSET Nodes(radix) /\ \A e \in E : radix.refs[e] = 0
      /\ \A e \in E, f \in Nodes(radix) : IsPrefix(e, f) => f \in E
    BY VictimsIs
<1>2. /\ Tree(c, Token) /\ Keys(c) = Keys(radix) \ EvictedKeys(radix, E)
      /\ \A k \in Keys(c) : c.pages[k] = radix.pages[k]
      /\ Counts(c, handle)
    BY <1>1, EvictIs DEF TreeInv
<1> HIDE DEF c
<1>3. EvictedKeys(radix, E) \subseteq Keys(radix)
    BY DEF EvictedKeys
<1>4. FreedBy(E) = {radix.pages[k] : k \in EvictedKeys(radix, E)}
    BY DEF FreedBy
<1>5. FreedBy(E) \subseteq TreePages(radix)
    BY <1>3, <1>4 DEF TreePages
<1>6. Distinct(c)
    BY <1>2 DEF Places, Distinct
<1>7. TreePages(c) = TreePages(radix) \ FreedBy(E)
    <2>1. ASSUME NEW p \in TreePages(c) PROVE p \in TreePages(radix) \ FreedBy(E)
        <3>1. PICK k \in Keys(c) : p = c.pages[k]
            BY DEF TreePages
        <3>2. p = radix.pages[k] /\ k \in Keys(radix) /\ k \notin EvictedKeys(radix, E)
            BY <1>2, <3>1
        <3>3. p \notin FreedBy(E)
            BY <1>3, <1>4, <3>2 DEF Places, Distinct
        <3> QED BY <3>2, <3>3 DEF TreePages
    <2>2. ASSUME NEW p \in TreePages(radix) \ FreedBy(E) PROVE p \in TreePages(c)
        <3>1. PICK k \in Keys(radix) : p = radix.pages[k]
            BY DEF TreePages
        <3>2. k \in Keys(c) /\ p = c.pages[k]
            BY <1>2, <1>4, <3>1
        <3> QED BY <3>2 DEF TreePages
    <2> QED BY <2>1, <2>2
<1> QED BY <1>2, <1>5, <1>6, <1>7 DEF c

\* Tokens appended to what was there.
LEMMA AppendIs ==
    ASSUME NEW t \in Seq(Token), NEW s \in Token
    PROVE  /\ Append(t, s) \in Seq(Token) /\ Len(Append(t, s)) = Len(t) + 1 /\ Len(t) \in Nat
           /\ IsPrefix(t, Append(t, s))
<1>1. /\ Append(t, s) \in Seq(Token) /\ Len(Append(t, s)) = Len(t) + 1 /\ Len(t) \in Nat
      /\ \A i \in 1..Len(t) : t[i] = Append(t, s)[i]
    OBVIOUS
<1> DEFINE a == Append(t, s)
<1> HIDE DEF a
<1>2. a \in Seq(Token) /\ Len(t) <= Len(a) /\ \A i \in 1..Len(t) : t[i] = a[i]
    BY <1>1 DEF a
<1>3. IsPrefix(t, a)
    BY <1>2, PrefixIs
<1> QED BY <1>1, <1>3 DEF a

\* What a forward of n tokens of u does to the tree, the pages and the row.
Forwarding(u, n, E, fresh) ==
    /\ E \in Victims(NewPages(u, n))
    /\ fresh \in Allocations(Return(free, FreedBy(E)), NewPages(u, n))
    /\ radix' = Evict(radix, E)
    /\ free' = [p \in Page |-> IF p \in Range(fresh) THEN Return(free, FreedBy(E))[p] - 1
                               ELSE Return(free, FreedBy(E))[p]]
    /\ row' = [row EXCEPT ![u] = @ \o fresh]
    /\ kv' = [p \in Page |->
                LET at == {i \in 1..Len(row'[u]) : row'[u][i] = p /\ i * PageSize > cachedLen[u]}
                IN  IF at # {} THEN Content(u, Max(at), cachedLen[u] + n)
                    ELSE IF p \in FreedBy(E) THEN Unwritten ELSE kv[p]]

\* u's row, n tokens longer.
LEMMA GrownIs ==
    ASSUME CacheInv, NEW u \in Req, NEW n \in Nat, NEW E, NEW fresh, Forwarding(u, n, E, fresh),
           handle' = handle
    PROVE  /\ row'[u] \in Seq(Page) /\ Len(row'[u]) = Pages(cachedLen[u] + n)
           /\ Len(row[u]) \in Nat /\ Len(row[u]) <= Len(row'[u])
           /\ \A i \in 1..Len(row[u]) : row'[u][i] = row[u][i]
           /\ OwnPositions(u) = (Len(handle[u]) \div PageSize + 1)..Len(row[u])
           /\ OwnPositions(u)' = (Len(handle[u]) \div PageSize + 1)..Len(row'[u])
           /\ Len(handle[u]) \div PageSize \in Nat /\ Len(handle[u]) \div PageSize <= Len(row[u])
           /\ OwnPages(u)' = OwnPages(u) \cup Range(fresh)
           /\ \A i \in (Len(row[u]) + 1)..Len(row'[u]) : row'[u][i] \in Range(fresh)
           /\ \A i, j \in (Len(row[u]) + 1)..Len(row'[u]) : row'[u][i] = row'[u][j] => i = j
           /\ Range(fresh) \subseteq {p \in Page : Return(free, FreedBy(E))[p] > 0}
<1> DEFINE a == Len(handle[u]) \div PageSize  L == Len(row[u])  N == NewPages(u, n)
           F == {p \in Page : Return(free, FreedBy(E))[p] > 0}
<1>1. Types /\ TreeInv /\ Lengths(u) /\ row[u] \in Seq(Page) /\ u \in DOMAIN row /\ cachedLen[u] \in Nat
    BY DEF CacheInv, Types
<1>2. a \in Nat /\ L \in Nat /\ a <= L /\ OwnPositions(u) = (a + 1)..L /\ L = Pages(cachedLen[u])
    BY <1>1, RowIs DEF Lengths
<1>3. N \in Nat /\ L + N = Pages(cachedLen[u] + n)
    <2>1. cachedLen[u] + n \in Nat /\ cachedLen[u] <= cachedLen[u] + n
        BY <1>1
    <2>2. Pages(cachedLen[u]) \in Nat /\ Pages(cachedLen[u] + n) \in Nat
          /\ Pages(cachedLen[u]) <= Pages(cachedLen[u] + n)
        BY <1>1, <2>1, PagesGrow
    <2> QED BY <1>2, <2>2 DEF NewPages
<1>4. fresh \in [1..N -> F] /\ IsInjective(fresh)
    BY DEF Forwarding, Allocations
<1>5. row'[u] = row[u] \o fresh
    BY <1>1 DEF Forwarding
<1>6. F \subseteq Page
    OBVIOUS
<1> HIDE DEF a, L, N, F
<1>7. \A i, j \in 1..N : fresh[i] = fresh[j] => i = j
    BY <1>4 DEF IsInjective
<1>8. fresh \in Seq(Page) /\ Len(fresh) = N
    BY <1>3, <1>4, <1>6
<1>9. Range(fresh) = {fresh[i] : i \in 1..N}
    BY <1>4 DEF Range
<1>10. /\ row'[u] \in Seq(Page) /\ Len(row'[u]) = L + N
       /\ \A i \in 1..L : row'[u][i] = row[u][i]
       /\ \A i \in (L + 1)..(L + N) : row'[u][i] = fresh[i - L]
    <2> DEFINE r == row[u]
    <2>1. r \in Seq(Page) /\ Len(r) = L /\ L \in Nat /\ row'[u] = r \o fresh
        BY <1>1, <1>2, <1>5 DEF L
    <2> HIDE DEF r
    <2>2. r \o fresh \in Seq(Page) /\ Len(r \o fresh) = L + N
        BY <1>8, <2>1, ConcatProperties
    <2>3. \A i \in 1..L + N :
              (r \o fresh)[i] = IF i <= L THEN r[i] ELSE fresh[i - L]
        BY <1>8, <2>1, ConcatProperties
    <2>4. /\ \A i \in 1..L : (r \o fresh)[i] = r[i]
          /\ \A i \in (L + 1)..(L + N) : (r \o fresh)[i] = fresh[i - L]
        <3>1. ASSUME NEW i \in 1..L
              PROVE  (r \o fresh)[i] = r[i]
            <4>1. i \in 1..L + N /\ i <= L
                BY ONLY <1>3, <2>1
            <4> QED BY <2>3, <4>1
        <3>2. ASSUME NEW i \in (L + 1)..(L + N)
              PROVE  (r \o fresh)[i] = fresh[i - L]
            <4>1. i \in 1..L + N /\ ~ (i <= L)
                BY ONLY <1>3, <2>1
            <4> QED BY <2>3, <4>1
        <3> QED BY <3>1, <3>2
    <2> QED BY <2>1, <2>2, <2>4 DEF r
<1>11. OwnPositions(u)' = (a + 1)..(L + N)
    <2>1. OwnPositions(u)' = (Len(handle'[u]) \div PageSize + 1)..Len(row'[u])
        BY DEF OwnPositions
    <2> QED BY <1>10, <2>1 DEF a
<1>12. \A i \in (L + 1)..(L + N) : i - L \in 1..N
    BY <1>2, <1>3
<1>13. \A i \in 1..N : L + i \in (L + 1)..(L + N) /\ (L + i) - L = i
    BY <1>2, <1>3
<1>14. OwnPages(u)' = OwnPages(u) \cup Range(fresh)
    <2>1. OwnPages(u)' = {row'[u][i] : i \in (a + 1)..(L + N)} /\ OwnPages(u) = {row[u][i] : i \in (a + 1)..L}
        BY <1>2, <1>11 DEF OwnPages
    <2>2. (a + 1)..(L + N) = ((a + 1)..L) \cup ((L + 1)..(L + N)) /\ (a + 1)..L \subseteq 1..L
        BY <1>2, <1>3
    <2>3. {row'[u][i] : i \in (a + 1)..L} = {row[u][i] : i \in (a + 1)..L}
        BY <1>10, <2>2
    <2>4. {row'[u][i] : i \in (L + 1)..(L + N)} = Range(fresh)
        <3>1. ASSUME NEW i \in (L + 1)..(L + N) PROVE row'[u][i] \in Range(fresh)
            BY <1>9, <1>10, <1>12
        <3>2. ASSUME NEW i \in 1..N PROVE \E j \in (L + 1)..(L + N) : row'[u][j] = fresh[i]
            BY <1>10, <1>13
        <3> QED BY <1>9, <3>1, <3>2
    <2> QED BY <2>1, <2>2, <2>3, <2>4
<1>15. \A i \in (L + 1)..(L + N) : row'[u][i] \in Range(fresh)
    BY <1>9, <1>10, <1>12
<1>16. ASSUME NEW i \in (L + 1)..(L + N), NEW j \in (L + 1)..(L + N), row'[u][i] = row'[u][j]
       PROVE  i = j
    <2>1. i - L = j - L
        BY <1>7, <1>10, <1>12, <1>16
    <2> QED BY <1>2, <1>3, <2>1
<1>17. Range(fresh) \subseteq F
    BY <1>4, <1>9
<1>18. L <= L + N
    BY <1>2, <1>3
<1> QED BY <1>2, <1>3, <1>10, <1>11, <1>14, <1>15, <1>16, <1>17, <1>18 DEF a, L, F

\* The pages: the evicted ones go back to the list, u's fresh ones leave it.
LEMMA AllocatedIs ==
    ASSUME CacheInv, NEW u \in Req, NEW n \in Nat, NEW E, NEW fresh, Forwarding(u, n, E, fresh),
           handle' = handle
    PROVE  Replaced(u) /\ TreeInv' /\ Reshared(u)
<1> DEFINE list == Return(free, FreedBy(E))  c == Evict(radix, E)  P == TreePages(radix) \ FreedBy(E)
           S == Range(fresh)  L == Len(row[u])
<1>1. /\ Types /\ TreeInv /\ Places /\ Written /\ Shared /\ Lengths(u)
      /\ Partition(free, TreePages(radix), Owns) /\ DOMAIN Owns = Req /\ Owns[u] = OwnPages(u)
    BY DEF CacheInv, Places, Owns
<1>2. /\ E \in Victims(NewPages(u, n)) /\ radix' = c
      /\ free' = [p \in Page |-> IF p \in S THEN list[p] - 1 ELSE list[p]]
    BY DEF Forwarding
<1>3. /\ Tree(c, Token) /\ Counts(c, handle) /\ Keys(c) \subseteq Keys(radix)
      /\ \A k \in Keys(c) : c.pages[k] = radix.pages[k]
      /\ FreedBy(E) \subseteq TreePages(radix) /\ Distinct(c) /\ TreePages(c) = P
    BY <1>1, <1>2, EvictedIs
<1>4. /\ row'[u] \in Seq(Page) /\ L \in Nat /\ L <= Len(row'[u]) /\ Len(row'[u]) \in Nat
      /\ \A i \in 1..L : row'[u][i] = row[u][i]
      /\ OwnPositions(u) = (Len(handle[u]) \div PageSize + 1)..L
      /\ OwnPositions(u)' = (Len(handle[u]) \div PageSize + 1)..Len(row'[u])
      /\ Len(handle[u]) \div PageSize \in Nat /\ Len(handle[u]) \div PageSize <= L
      /\ OwnPages(u)' = OwnPages(u) \cup S
      /\ \A i \in (L + 1)..Len(row'[u]) : row'[u][i] \in S
      /\ \A i, j \in (L + 1)..Len(row'[u]) : row'[u][i] = row'[u][j] => i = j
      /\ S \subseteq {p \in Page : list[p] > 0}
    BY GrownIs
<1> HIDE DEF list, c, P, S
<1>5. Partition(list, P, Owns)
    BY <1>1, <1>3, EvictedPages DEF list, P
<1>6. /\ Partition(free', P, [Owns EXCEPT ![u] = @ \cup S]) /\ \A v \in Req : S \cap Owns[v] = {}
    BY ZenonT(60), <1>1, <1>2, <1>4, <1>5, TakenPages
<1>7. [Owns EXCEPT ![u] = @ \cup S] = [Owns EXCEPT ![u] = OwnPages(u)']
    BY <1>1, <1>4
<1>8. \A i, j \in OwnPositions(u)' : row'[u][i] = row'[u][j] => i = j
    <2> DEFINE a == Len(handle[u]) \div PageSize
    <2> HIDE DEF a
    <2> SUFFICES ASSUME NEW i \in OwnPositions(u)', NEW j \in OwnPositions(u)', row'[u][i] = row'[u][j]
                 PROVE  i = j
        OBVIOUS
    <2>1. /\ OwnPositions(u) = (a + 1)..L /\ OwnPositions(u)' = (a + 1)..Len(row'[u]) /\ a \in Nat
          /\ a <= L
        BY <1>4 DEF a
    <2> HIDE DEF L
    <2>2. \A l \in OwnPositions(u) : l \in 1..L /\ row'[u][l] = row[u][l] /\ row[u][l] \in OwnPages(u)
        BY SMTT(60), <1>4, <2>1 DEF OwnPages
    <2>3. \A l \in OwnPositions(u)' : l \in OwnPositions(u) \/ l \in (L + 1)..Len(row'[u])
        BY <1>4, <2>1
    <2>4. OwnPages(u) \cap S = {}
        BY <1>1, <1>6
    <2>5. CASE i \in OwnPositions(u) /\ j \in OwnPositions(u)
        BY <1>1, <2>2, <2>5 DEF Places
    <2>6. CASE i \in (L + 1)..Len(row'[u]) /\ j \in (L + 1)..Len(row'[u])
        BY <1>4, <2>6
    <2> QED BY <1>4, <2>2, <2>3, <2>4, <2>5, <2>6
<1>9. Replaced(u)
    BY <1>2, <1>3, <1>6, <1>7, <1>8 DEF Replaced
<1>10. TreeInv'
    BY <1>2, <1>3 DEF TreeInv, Tree, Counts, Keys, Nodes, EndsAt, UsedKeys, Users
<1>11. Reshared(u)
    <2> SUFFICES ASSUME NEW k \in Keys(c), IsPrefix(k, handle[u])
                 PROVE  row'[u][Len(k) \div PageSize] = radix.pages[k]
        BY <1>2, <1>3 DEF Reshared
    <2>1. k \in WholeKeys(Token) /\ handle[u] \in Seq(Token) /\ Len(handle[u]) % PageSize = 0
        BY <1>1, <1>3, RowIs DEF Tree, Types
    <2>2. Len(k) \div PageSize \in 1..(Len(handle[u]) \div PageSize)
        BY <2>1, PageKeyIs
    <2>3. Len(k) \div PageSize \in 1..L
        BY <1>4, <2>2
    <2>4. row[u][Len(k) \div PageSize] = radix.pages[k]
        BY <1>1, <1>3 DEF Shared
    <2> QED BY <1>4, <2>3, <2>4
<1> QED BY <1>9, <1>10, <1>11

\* What the forward writes is u's tokens, on u's own pages, and nothing else.
LEMMA WrittenIs ==
    ASSUME CacheInv, NEW u \in Req, NEW n \in Nat, NEW E, NEW fresh, Forwarding(u, n, E, fresh),
           handle' = handle, image' = image, cachedLen'[u] = cachedLen[u] + n,
           cachedLen[u] + n <= Len(text[u]), text'[u] \in Seq(Token), IsPrefix(text[u], text'[u])
    PROVE  Rewritten(u)
<1> DEFINE L == Len(row[u])  M == Len(row'[u])  old == cachedLen[u]  end == cachedLen[u] + n
           a == Len(handle[u]) \div PageSize
           at(p) == {i \in 1..M : row'[u][i] = p /\ i * PageSize > old}
           after(p) == IF at(p) # {} THEN Content(u, Max(at(p)), end)
                       ELSE IF p \in FreedBy(E) THEN Unwritten ELSE kv[p]
<1>1. /\ Types /\ TreeInv /\ Places /\ Written /\ Shared /\ Lengths(u)
      /\ Partition(free, TreePages(radix), Owns) /\ Owns = [v \in Req |-> OwnPages(v)]
      /\ old \in Nat /\ end \in Nat /\ old <= end /\ text[u] \in Seq(Token) /\ Len(text[u]) \in Nat
    BY SMTT(60) DEF CacheInv, Places, Owns, Types
<1>2. /\ E \in Victims(NewPages(u, n)) /\ radix' = Evict(radix, E)
      /\ kv' = [p \in Page |-> after(p)]
    BY DEF Forwarding
<1>3. /\ Keys(radix') \subseteq Keys(radix)
      /\ \A k \in Keys(radix') : radix'.pages[k] = radix.pages[k]
      /\ FreedBy(E) \subseteq TreePages(radix)
      /\ TreePages(radix') = TreePages(radix) \ FreedBy(E)
    <2> DEFINE c == Evict(radix, E)
    <2>1. /\ Keys(c) \subseteq Keys(radix) /\ \A k \in Keys(c) : c.pages[k] = radix.pages[k]
          /\ FreedBy(E) \subseteq TreePages(radix) /\ TreePages(c) = TreePages(radix) \ FreedBy(E)
        BY <1>1, <1>2, EvictedIs
    <2> HIDE DEF c
    <2>2. radix' = c
        BY <1>2 DEF c
    <2> QED BY <2>1, <2>2
<1>4. /\ M \in Nat /\ L \in Nat /\ L <= M
      /\ \A i \in 1..L : row'[u][i] = row[u][i]
      /\ OwnPositions(u) = (a + 1)..L /\ OwnPositions(u)' = (a + 1)..M
      /\ a \in Nat /\ a <= L
    BY GrownIs
<1>5. L * PageSize \in Nat /\ old <= L * PageSize /\ a * PageSize = Len(handle[u])
      /\ Len(handle[u]) <= old /\ Len(handle[u]) \in Nat
    BY <1>1, <1>4, RowIs, TimesIs DEF Lengths
<1>6. Replaced(u)
    BY AllocatedIs
<1>7. /\ \A i, j \in OwnPositions(u)' : row'[u][i] = row'[u][j] => i = j
      /\ OwnPages(u)' \subseteq Page /\ OwnPages(u)' \cap TreePages(radix') = {}
      /\ \A v \in Req \ {u} : OwnPages(v) \subseteq Page /\ OwnPages(v) \cap OwnPages(u)' = {}
      /\ TreePages(radix') \subseteq Page
    <2> DEFINE O2 == [Owns EXCEPT ![u] = OwnPages(u)']
    <2>1. O2[u] = OwnPages(u)' /\ \A v \in Req \ {u} : O2[v] = OwnPages(v)
        BY <1>1
    <2> HIDE DEF O2
    <2>2. /\ Partition(free', TreePages(radix'), O2)
          /\ \A i, j \in OwnPositions(u)' : row'[u][i] = row'[u][j] => i = j
        BY <1>6 DEF Replaced, O2
    <2> QED BY <2>1, <2>2 DEF Partition
<1> HIDE DEF a, L, M, old, end
<1>8. \A p : at(p) = {i \in 1..M : row'[u][i] = p /\ i * PageSize > old}
    OBVIOUS
<1>9. \A p \in Page : kv'[p] = after(p)
    <2> HIDE DEF after
    <2> QED BY <1>2
<1>10. \A p : after(p) = IF at(p) # {} THEN Content(u, Max(at(p)), end)
                         ELSE IF p \in FreedBy(E) THEN Unwritten ELSE kv[p]
    OBVIOUS
<1> HIDE DEF at, after
<1>11. ASSUME NEW p, NEW i \in at(p) PROVE i \in OwnPositions(u)' /\ row'[u][i] = p /\ p \in OwnPages(u)'
    <2>1. i \in 1..M /\ i \in Nat /\ row'[u][i] = p /\ i * PageSize > old
        BY <1>4, <1>8
    <2>2. i * PageSize \in Nat /\ a * PageSize \in Nat /\ (i <= a <=> i * PageSize <= a * PageSize)
        BY <1>4, <2>1, TimesIs
    <2>3. ~(i <= a)
        BY <1>1, <1>5, <2>1, <2>2 DEF old
    <2>4. i \in OwnPositions(u)'
        BY <1>4, <2>1, <2>3
    <2> QED BY <2>1, <2>4 DEF OwnPages
<1>12. \A v \in Req \ {u} : \A p \in OwnPages(v) : kv'[p] = kv[p]
    <2> SUFFICES ASSUME NEW v \in Req \ {u}, NEW p \in OwnPages(v) PROVE kv'[p] = kv[p]
        OBVIOUS
    <2>1. p \in Page /\ p \notin OwnPages(u)'
        BY <1>7
    <2>2. at(p) = {}
        BY <1>11, <2>1
    <2>3. p \notin FreedBy(E)
        BY <1>1, <1>3 DEF Partition
    <2> QED BY <1>9, <1>10, <2>1, <2>2, <2>3
<1>13. \A k \in Keys(radix') : kv'[radix'.pages[k]] = <<NoImage, k>>
    <2> SUFFICES ASSUME NEW k \in Keys(radix') PROVE kv'[radix'.pages[k]] = <<NoImage, k>>
        OBVIOUS
    <2> DEFINE p == radix'.pages[k]
    <2>1. p \in TreePages(radix')
        BY DEF TreePages
    <2>2. p = radix.pages[k] /\ kv[p] = <<NoImage, k>>
        BY <1>1, <1>3 DEF Written
    <2> HIDE DEF p
    <2>3. p \in Page /\ p \notin OwnPages(u)' /\ p \notin FreedBy(E)
        BY <1>3, <1>7, <2>1
    <2>4. at(p) = {}
        BY <1>11, <2>3
    <2> QED BY <1>9, <1>10, <2>2, <2>3, <2>4 DEF p
<1>14. ASSUME NEW i \in OwnPositions(u)' PROVE kv'[row'[u][i]] = Content(u, i, cachedLen[u])'
    <2> DEFINE p == row'[u][i]  x == IF i * PageSize <= end THEN i * PageSize ELSE end
    <2>0. i \in Nat /\ i \in 1..M
        BY <1>4
    <2>1. i \in Nat /\ i \in 1..M /\ i * PageSize \in Nat
        BY <2>0, TimesIs
    <2>2. p \in OwnPages(u)' /\ p \in Page
        BY <1>7 DEF OwnPages
    <2>3. x \in 0..Len(text[u])
        BY <1>1, <2>1 DEF end, old
    <2>4. Upto(text'[u], x) = Upto(text[u], x)
        <3> HIDE DEF x
        <3> QED BY <1>1, <2>3, UptoOfPrefix
    <2>5. Content(u, i, cachedLen[u])' = <<Owner(u), Upto(text[u], x)>>
        <3>1. Content(u, i, cachedLen[u])' = <<Owner(u)', Upto(text'[u], Min({i * PageSize, end}))>>
            BY DEF Content, end
        <3>2. Owner(u)' = Owner(u)
            BY DEF Owner
        <3>3. Min({i * PageSize, end}) = x
            BY <1>1, <2>1, MinIs DEF end
        <3> QED BY <2>4, <3>1, <3>2, <3>3
    <2>6. Content(u, i, end) = <<Owner(u), Upto(text[u], x)>>
        BY <1>1, <2>1, ContentIs
    <2> HIDE DEF p
    <2>7. CASE i * PageSize > old
        <3>1. at(p) = {i}
            <4>1. i \in at(p)
                BY <1>8, <2>1, <2>7 DEF p
            <4>2. \A j \in at(p) : j = i
                BY <1>7, <1>11 DEF p
            <4> QED BY <4>1, <4>2
        <3>2. after(p) = Content(u, i, end)
            <4>1. Max(at(p)) = i /\ at(p) # {}
                BY <2>1, <3>1, MaxOfOne
            <4> QED BY <1>10, <4>1
        <3> HIDE DEF x
        <3> QED BY <1>9, <2>2, <2>5, <2>6, <3>2 DEF p
    <2>8. CASE ~(i * PageSize > old)
        <3>1. at(p) = {}
            <4>1. \A j \in at(p) : j = i
                BY <1>7, <1>11 DEF p
            <4>2. i \notin at(p)
                BY <1>8, <2>8
            <4> QED BY <4>1, <4>2
        <3>2. i <= L
            <4>1. ~(L < i)
                <5>1. L < i => L * PageSize < i * PageSize
                    BY <1>4, <2>1, TimesIs
                <5> QED BY <1>1, <1>5, <2>1, <2>8, <5>1
            <4> QED BY <1>4, <2>1, <4>1
        <3>3. i \in OwnPositions(u) /\ p = row[u][i]
            BY <1>4, <2>1, <3>2 DEF p
        <3>4. p \notin FreedBy(E)
            <4>1. p \in OwnPages(u)
                BY <3>3 DEF OwnPages
            <4> QED BY <1>1, <1>3, <4>1 DEF Partition
        <3>5. kv'[p] = Content(u, i, old)
            BY <1>1, <1>9, <1>10, <2>2, <3>1, <3>3, <3>4 DEF Written, old
        <3>6. x = IF i * PageSize <= old THEN i * PageSize ELSE old
            BY <1>1, <2>1, <2>8
        <3>7. Content(u, i, old) = <<Owner(u), Upto(text[u], x)>>
            BY <1>1, <2>1, <3>6, ContentIs
        <3> HIDE DEF x
        <3> QED BY <2>5, <3>5, <3>7 DEF p
    <2> QED BY <2>7, <2>8
<1> QED BY <1>12, <1>13, <1>14 DEF Rewritten

LEMMA ForwardStep ==
    ASSUME CacheInv, NEW u \in Req, NEW n \in Nat, Forward(u, n),
           ~UNCHANGED <<radix, free, kv, reqVars>>
    PROVE  CacheInv'
<1> DEFINE end == cachedLen[u] + n  prompted == end < promptLen[u]
<1>1. /\ Types /\ TreeInv /\ Lengths(u) /\ handle[u] \in Seq(Token) /\ Len(handle[u]) \in Nat
      /\ text[u] \in Seq(Token) /\ Len(text[u]) \in Nat /\ cachedLen[u] \in Nat /\ hostLen[u] \in Nat
      /\ promptLen[u] \in Nat /\ end \in Nat
      /\ DOMAIN phase = Req /\ DOMAIN text = Req /\ DOMAIN cachedLen = Req /\ DOMAIN hostLen = Req
      /\ DOMAIN row = Req
    BY SMTT(60) DEF CacheInv, Types
<1>2. /\ \E E \in Victims(NewPages(u, n)) :
            \E fresh \in Allocations(Return(free, FreedBy(E)), NewPages(u, n)) :
                Forwarding(u, n, E, fresh)
      /\ cachedLen' = [cachedLen EXCEPT ![u] = @ + n]
      /\ hostLen' = [hostLen EXCEPT ![u] = IF InPrompt(u) THEN cachedLen[u] + n ELSE @]
      /\ CanForward(u, n)
      /\ UNCHANGED <<promptLen, outputLen, image, handle, dead>>
      /\ prompted => phase' = [phase EXCEPT ![u] = "prefill"] /\ text' = text
      /\ ~prompted => /\ phase' = [phase EXCEPT ![u] = IF InPrompt(u) THEN "drain" ELSE @]
                      /\ \E t \in Token : text' = [text EXCEPT ![u] = Append(@, t)]
    BY ZenonT(60) DEF Forward, Forwarding
<1>3. PICK E, fresh : Forwarding(u, n, E, fresh)
    BY <1>2
<1>4. /\ InPrompt(u) => n <= promptLen[u] - cachedLen[u] /\ Len(text[u]) = promptLen[u]
      /\ ~InPrompt(u) => /\ n = 1 /\ Len(text[u]) = end /\ promptLen[u] <= cachedLen[u]
                         /\ Sampling(u)
      /\ end <= Len(text[u])
    <2>1. ~InPrompt(u) => Sampling(u) /\ n = 1
        BY <1>2 DEF CanForward
    <2>2. InPrompt(u) => n <= promptLen[u] - cachedLen[u]
        BY <1>1, <1>2 DEF CanForward, InPrompt, Sampling
    <2>3. InPrompt(u) => Len(text[u]) = promptLen[u]
        BY <1>1 DEF Lengths
    <2>4. Sampling(u) => Len(text[u]) = cachedLen[u] + 1 /\ promptLen[u] <= cachedLen[u]
        BY <1>1 DEF Lengths
    <2>5. end = cachedLen[u] + n /\ cachedLen[u] \in Nat /\ n \in Nat /\ promptLen[u] \in Nat
        BY <1>1
    <2> HIDE DEF end, prompted
    <2>6. CASE InPrompt(u)
        <3>1. n <= promptLen[u] - cachedLen[u] /\ Len(text[u]) = promptLen[u]
            BY <2>2, <2>3, <2>6
        <3>2. end <= Len(text[u])
            BY <2>5, <3>1
        <3> QED BY <2>6, <3>1, <3>2
    <2>7. CASE ~InPrompt(u)
        <3>1. n = 1 /\ Len(text[u]) = cachedLen[u] + 1 /\ promptLen[u] <= cachedLen[u] /\ Sampling(u)
            BY <2>1, <2>4, <2>7
        <3>2. Len(text[u]) = end /\ end <= Len(text[u])
            BY <2>5, <3>1
        <3> QED BY <2>7, <3>1, <3>2
    <2> QED BY <2>6, <2>7
<1>5. cachedLen'[u] = end /\ hostLen'[u] = (IF InPrompt(u) THEN end ELSE hostLen[u])
    BY <1>1, <1>2
<1>6. /\ text'[u] \in Seq(Token) /\ IsPrefix(text[u], text'[u])
      /\ text' \in [Req -> Seq(Token)] /\ \A v \in Req \ {u} : text'[v] = text[v]
      /\ Len(text'[u]) = IF prompted THEN Len(text[u]) ELSE Len(text[u]) + 1
    <2>1. CASE prompted
        BY <1>1, <1>2, <2>1, PrefixOrder DEF Types
    <2>2. CASE ~prompted
        <3>1. PICK t \in Token : text' = [text EXCEPT ![u] = Append(@, t)]
            BY <1>2, <2>2
        <3> DEFINE s == Append(text[u], t)
        <3>2. s \in Seq(Token) /\ Len(s) = Len(text[u]) + 1 /\ IsPrefix(text[u], s)
            BY <1>1, AppendIs
        <3> HIDE DEF s, prompted
        <3>3. text' = [text EXCEPT ![u] = s] /\ text'[u] = s
            BY <1>1, <3>1 DEF s
        <3>4. text' \in [Req -> Seq(Token)] /\ \A v \in Req \ {u} : text'[v] = text[v]
            BY <1>1, <3>2, <3>3 DEF Types
        <3> QED BY <2>2, <3>2, <3>3, <3>4
    <2> QED BY <2>1, <2>2
<1>7. /\ row'[u] \in Seq(Page) /\ Len(row'[u]) = Pages(end) /\ row' = [row EXCEPT ![u] = row'[u]]
    <2>1. row'[u] \in Seq(Page) /\ Len(row'[u]) = Pages(cachedLen[u] + n)
        BY <1>2, <1>3, GrownIs
    <2>2. row' = [row EXCEPT ![u] = row'[u]]
        BY <1>1, <1>3 DEF Forwarding
    <2> QED BY <2>1, <2>2
<1>8. phase'[u] = (IF prompted THEN "prefill" ELSE IF InPrompt(u) THEN "drain" ELSE phase[u])
      /\ phase' \in [Req -> Phases] /\ \A v \in Req \ {u} : phase'[v] = phase[v]
    <2> HIDE DEF prompted
    <2>1. CASE prompted
        BY <1>1, <1>2, <2>1 DEF Types, Phases
    <2>2. CASE ~prompted
        BY ZenonT(60), <1>1, <1>2, <2>2 DEF Types, Phases
    <2> QED BY <2>1, <2>2
<1>9. Types'
    <2>1. row' \in [Req -> Seq(Page)]
        <3> DEFINE r == row'[u]
        <3> HIDE DEF r
        <3>1. r \in Seq(Page) /\ row' = [row EXCEPT ![u] = r]
            BY <1>7 DEF r
        <3> QED BY <1>1, <3>1 DEF Types
    <2>2. cachedLen' \in [Req -> Nat] /\ hostLen' \in [Req -> Nat]
        BY <1>1, <1>2 DEF Types
    <2> QED BY <1>1, <1>2, <1>6, <1>8, <2>1, <2>2 DEF Types
<1>10. Lengths(u)'
    <2>1. IsPrefix(handle'[u], text'[u])
        <3>1. IsPrefix(handle[u], text[u])
            BY <1>1 DEF Lengths
        <3> QED BY <1>1, <1>2, <1>6, <3>1, PrefixOrder
    <2>2. Len(handle'[u]) <= cachedLen'[u] /\ Len(handle'[u]) <= hostLen'[u]
          /\ (image'[u] => handle'[u] = <<>>)
        BY <1>1, <1>2, <1>5 DEF Lengths
    <2>3. CASE prompted
        <3>1. InPrompt(u) /\ phase'[u] = "prefill"
            BY <1>1, <1>4, <1>8, <2>3
        <3> QED BY <1>1, <1>2, <1>4, <1>5, <1>6, <1>7, <2>1, <2>2, <2>3, <3>1 DEF Lengths, InPrompt, Sampling
    <2>4. CASE ~prompted
        <3>1. phase'[u] \in {"drain", "decode"}
            BY <1>4, <1>8, <2>4 DEF Sampling
        <3>2. Len(text'[u]) = cachedLen'[u] + 1 /\ promptLen'[u] <= cachedLen'[u]
            BY <1>1, <1>2, <1>4, <1>5, <1>6, <2>4
        <3> HIDE DEF prompted
        <3> QED BY <1>5, <1>7, <2>1, <2>2, <3>1, <3>2 DEF Lengths, InPrompt, Sampling
    <2> QED BY <2>3, <2>4
<1>11. \A v \in Req \ {u} : Untouched(v)
    BY <1>1, <1>2, <1>6, <1>7, <1>8 DEF Untouched
<1>12. Replaced(u) /\ TreeInv' /\ Reshared(u)
    BY <1>2, <1>3, AllocatedIs
<1>13. Rewritten(u)
    <2>1. handle' = handle /\ image' = image /\ cachedLen'[u] = cachedLen[u] + n
          /\ cachedLen[u] + n <= Len(text[u])
        BY <1>2, <1>4, <1>5
    <2> QED BY <1>3, <1>6, <2>1, WrittenIs
<1> QED BY <1>9, <1>10, <1>11, <1>12, <1>13, StepIs

-----------------------------------------------------------------------------
(***************************************************************************)
(* The empty cache, at the start and after a rebuild.                      *)
(***************************************************************************)
LEMMA EmptyCounts ==
    ASSUME NEW H, DOMAIN H = Req, \A u \in Req : H[u] = <<>>
    PROVE  /\ Tree(EmptyRadix, Token) /\ Counts(EmptyRadix, H) /\ Keys(EmptyRadix) = {}
           /\ TreePages(EmptyRadix) = {} /\ Distinct(EmptyRadix)
<1>1. Tree(EmptyRadix, Token) /\ Keys(EmptyRadix) = {} /\ Nodes(EmptyRadix) = {}
    BY EmptyTree
<1>2. EmptyRadix.evictable = 0 /\ EmptyRadix.protected = 0
    BY DEF EmptyRadix
<1>3. UsedKeys(EmptyRadix, H) = {} /\ Cardinality({}) = 0 /\ PageSize * 0 = 0
    BY <1>1, FS_EmptySet, PageSizeAssumption DEF UsedKeys
<1>4. Keys(EmptyRadix) \ UsedKeys(EmptyRadix, H) = {}
    BY <1>1
<1>5. Counts(EmptyRadix, H)
    BY <1>1, <1>2, <1>3, <1>4, PoolAssumption DEF Counts
<1>6. TreePages(EmptyRadix) = {} /\ Distinct(EmptyRadix)
    BY <1>1 DEF TreePages, Distinct
<1> QED BY <1>1, <1>5, <1>6

LEMMA EmptyPartition ==
    ASSUME NEW O, \A u \in Req : O[u] = {}
    PROVE  Partition([p \in Page |-> 1], {}, O)
BY DEF Partition

LEMMA InitIs ==
    ASSUME Init
    PROVE  CacheInv
<1>1. /\ radix = EmptyRadix /\ free = [p \in Page |-> 1]
      /\ DOMAIN handle = Req /\ \A u \in Req : handle[u] = <<>> /\ row[u] = <<>> /\ text[u] = <<>>
      /\ \A u \in Req : phase[u] = "new" /\ cachedLen[u] = 0 /\ hostLen[u] = 0
    BY DEF Init
<1>2. Types
    BY DEF Init, Types, Phases
<1>3. /\ Tree(radix, Token) /\ Counts(radix, handle) /\ Keys(radix) = {}
      /\ TreePages(radix) = {} /\ Distinct(radix)
    BY <1>1, EmptyCounts
<1>4. Len(<<>>) = 0 /\ IsPrefix(<<>>, <<>>)
    BY DEF IsPrefix
<1>5. \A u \in Req : Lengths(u)
    BY <1>1, <1>4, NoPagesIs DEF Lengths, InPrompt, Sampling
<1>6. \A u \in Req : OwnPositions(u) = {} /\ OwnPages(u) = {}
    <2>1. \A u \in Req : OwnPositions(u) = {}
        BY <1>1, <1>4, NoPagesIs DEF OwnPositions
    <2> QED BY <2>1 DEF OwnPages
<1>7. Partition(free, TreePages(radix), Owns)
    BY <1>1, <1>3, <1>6, EmptyPartition DEF Owns
<1> QED BY <1>2, <1>3, <1>5, <1>6, <1>7 DEF CacheInv, TreeInv, Places, Shared, Written

LEMMA RebuildStep ==
    ASSUME CacheInv, Rebuild
    PROVE  CacheInv'
<1>1. /\ Types /\ \A u \in Req : Lengths(u) /\ phase[u] = "new"
    BY DEF CacheInv, Rebuild, Active
<1>2. radix' = EmptyRadix /\ free' = [p \in Page |-> 1] /\ UNCHANGED reqVars
    BY DEF Rebuild
<1>3. /\ DOMAIN handle = Req
      /\ \A u \in Req : handle[u] = <<>> /\ cachedLen[u] = 0 /\ Len(row[u]) = 0
    BY <1>1, NoPagesIs DEF Types, Lengths
<1>4. Types' /\ \A u \in Req : Lengths(u)'
    BY <1>1, <1>2 DEF reqVars, Types, Lengths, InPrompt, Sampling
<1>5. /\ Tree(radix', Token) /\ Counts(radix', handle) /\ Keys(radix') = {}
      /\ TreePages(radix') = {} /\ Distinct(radix')
    BY <1>2, <1>3, EmptyCounts
<1>6. TreeInv'
    BY <1>2, <1>5 DEF TreeInv, Tree, Counts, Keys, Nodes, EndsAt, UsedKeys, Users, reqVars
<1>7. \A u \in Req : OwnPositions(u)' = {} /\ OwnPages(u)' = {}
    <2>1. Len(<<>>) = 0
        OBVIOUS
    <2>2. \A u \in Req : OwnPositions(u)' = (Len(handle[u]) \div PageSize + 1)..Len(row[u])
        BY <1>2 DEF OwnPositions, reqVars
    <2>3. \A u \in Req : OwnPositions(u)' = {}
        BY <1>3, <2>1, <2>2, NoPagesIs
    <2> QED BY <2>3 DEF OwnPages
<1>8. Places'
    <2>1. Partition(free', TreePages(radix'), Owns') /\ Distinct(radix')
        BY <1>2, <1>5, <1>7, EmptyPartition DEF Owns
    <2>2. Partition(free, TreePages(radix), Owns)' /\ Distinct(radix)'
        BY <2>1 DEF Partition, TreePages, Distinct, Keys
    <2> QED BY <1>7, <2>2 DEF Places
<1>9. Keys(radix)' = {}
    BY <1>5 DEF Keys
<1> QED BY <1>4, <1>6, <1>7, <1>8, <1>9 DEF CacheInv, Shared, Written

LEMMA StutterIs ==
    ASSUME CacheInv, UNCHANGED <<radix, free, kv, reqVars>>
    PROVE  CacheInv'
<1>1. Types' /\ \A u \in Req : Lengths(u)'
    BY DEF CacheInv, reqVars, Types, Lengths, InPrompt, Sampling
<1>2. TreeInv'
    BY DEF CacheInv, reqVars, TreeInv, Tree, Counts, Keys, Nodes, EndsAt, UsedKeys, Users
<1>3. \A u \in Req : OwnPositions(u)' = OwnPositions(u) /\ OwnPages(u)' = OwnPages(u)
    BY DEF reqVars, OwnPositions, OwnPages
<1>4. Owns' = Owns
    BY <1>3 DEF Owns
<1>5. Places'
    <2>1. Partition(free', TreePages(radix'), Owns') /\ Distinct(radix')
        BY <1>4 DEF CacheInv, Places
    <2>2. Partition(free, TreePages(radix), Owns)' /\ Distinct(radix)'
        BY <2>1 DEF Partition, TreePages, Distinct, Keys
    <2> QED BY <1>3, <2>2 DEF CacheInv, Places, reqVars
<1>6. Shared' /\ Written'
    <2>1. \A u, i : Content(u, i, cachedLen[u])' = Content(u, i, cachedLen[u])
        BY DEF Content, Owner, reqVars
    <2>2. Shared'
        BY DEF CacheInv, Shared, Keys, reqVars
    <2>3. Written'
        BY SMTT(60), <1>3, <2>1 DEF CacheInv, Written, Keys, reqVars
    <2> QED BY <2>2, <2>3
<1> QED BY <1>1, <1>2, <1>5, <1>6 DEF CacheInv

LEMMA NextStep ==
    ASSUME CacheInv, [Next]_vars
    PROVE  CacheInv'
<1>1. CASE UNCHANGED <<radix, free, kv, reqVars>>
    BY <1>1, StutterIs
<1>2. CASE ~UNCHANGED <<radix, free, kv, reqVars>>
    <2>1. Next
        BY <1>2 DEF vars
    <2>2. CASE AdmitRefused
        BY <2>2, AdmitRefusedStep
    <2>3. CASE Rebuild
        BY <2>3, RebuildStep
    <2>4. CASE \E u \in Req : Admit(u) \/ Drain(u) \/ Abort(u)
        BY <2>4, AdmitStep, DrainStep, AbortStep
    <2>5. CASE \E u \in Req, n \in 1..(NumPages * PageSize) : Forward(u, n)
        <3>1. PICK u \in Req, n \in 1..(NumPages * PageSize) : Forward(u, n)
            BY <2>5
        <3>2. n \in Nat
            OBVIOUS
        <3> QED BY <1>2, <3>1, <3>2, ForwardStep
    <2> QED BY <2>1, <2>2, <2>3, <2>4, <2>5 DEF Next
<1> QED BY <1>1, <1>2

-----------------------------------------------------------------------------
(***************************************************************************)
(* What the invariant says.                                                *)
(***************************************************************************)
LEMMA OwnershipIs ==
    ASSUME CacheInv
    PROVE  PageOwnership
<1>1. /\ Types /\ Places /\ Partition(free, TreePages(radix), Owns) /\ Distinct(radix)
      /\ Owns = [u \in Req |-> OwnPages(u)] /\ \A u \in Req : Lengths(u)
    BY DEF CacheInv, Places, Owns
<1>2. \A u \in Req \ Active : OwnPositions(u) = {}
    <2> SUFFICES ASSUME NEW u \in Req, phase[u] = "new" PROVE OwnPositions(u) = {}
        BY DEF Active
    <2>1. Len(<<>>) = 0
        OBVIOUS
    <2> QED BY <1>1, <2>1, NoPagesIs DEF Lengths, OwnPositions
<1> SUFFICES ASSUME NEW p \in Page
             PROVE  free[p] + Cardinality({k \in Keys(radix) : radix.pages[k] = p})
                      + Cardinality({at \in UNION {{u} \X OwnPositions(u) : u \in Active} :
                                       row[at[1]][at[2]] = p}) = 1
    BY DEF PageOwnership
<1> DEFINE K == {k \in Keys(radix) : radix.pages[k] = p}
           R == {at \in UNION {{u} \X OwnPositions(u) : u \in Active} : row[at[1]][at[2]] = p}
<1>3. ASSUME NEW at \in R
      PROVE  \E u \in Active : \E i \in OwnPositions(u) : at = <<u, i>> /\ row[u][i] = p /\ p \in OwnPages(u)
    <2>1. PICK u \in Active : at \in {u} \X OwnPositions(u)
        OBVIOUS
    <2>2. PICK i \in OwnPositions(u) : at = <<u, i>>
        BY <2>1
    <2>3. row[u][i] = p
        BY <2>2
    <2> QED BY <2>2, <2>3 DEF OwnPages
<1>4. \A u \in Active : \A i \in OwnPositions(u) : row[u][i] = p => <<u, i>> \in R
    OBVIOUS
<1>5. Active \subseteq Req
    BY DEF Active
<1>6. free[p] = IF p \in TreePages(radix) \/ \E u \in Req : p \in OwnPages(u) THEN 0 ELSE 1
    BY <1>1 DEF Partition
<1>7. \A u \in Req : OwnPages(u) \cap TreePages(radix) = {}
    BY <1>1 DEF Partition
<1>8. \A u, v \in Req : p \in OwnPages(u) /\ p \in OwnPages(v) => u = v
    BY <1>1 DEF Partition
<1>9. p \notin TreePages(radix) => K = {}
    BY DEF TreePages
<1> HIDE DEF R
<1>10. (\A u \in Req : p \notin OwnPages(u)) => R = {}
    BY <1>3, <1>5
<1>11. Cardinality({}) = 0
    BY FS_EmptySet
<1>12. CASE p \in TreePages(radix)
    <2>1. PICK k \in Keys(radix) : radix.pages[k] = p
        BY <1>12 DEF TreePages
    <2>2. K = {k}
        BY <1>1, <2>1 DEF Distinct
    <2>3. Cardinality(K) = 1
        BY <2>2, FS_Singleton
    <2>4. R = {} /\ free[p] = 0
        BY <1>6, <1>7, <1>10, <1>12
    <2>5. Cardinality(R) = 0
        BY <1>11, <2>4
    <2> HIDE DEF K
    <2>6. free[p] + Cardinality(K) + Cardinality(R) = 1
        BY <2>3, <2>4, <2>5
    <2> QED BY <2>6 DEF K, R
<1>13. CASE \E u \in Req : p \in OwnPages(u)
    <2>1. PICK u \in Req : p \in OwnPages(u)
        BY <1>13
    <2>2. PICK i \in OwnPositions(u) : row[u][i] = p
        BY <2>1 DEF OwnPages
    <2>3. u \in Active
        BY <1>2, <2>2
    <2>4. R = {<<u, i>>}
        <3>1. <<u, i>> \in R
            BY <1>4, <2>2, <2>3
        <3>2. ASSUME NEW at \in R PROVE at = <<u, i>>
            <4>1. PICK v \in Active : \E j \in OwnPositions(v) : at = <<v, j>> /\ row[v][j] = p /\ p \in OwnPages(v)
                BY <1>3
            <4>2. v = u
                BY <1>5, <1>8, <2>1, <4>1
            <4> QED BY <1>1, <2>2, <4>1, <4>2 DEF Places
        <3> QED BY <3>1, <3>2
    <2>5. Cardinality(R) = 1
        BY <2>4, FS_Singleton
    <2>6. K = {} /\ free[p] = 0
        BY <1>6, <1>7, <1>9, <2>1
    <2>7. Cardinality(K) = 0
        BY <1>11, <2>6
    <2> HIDE DEF K
    <2>8. free[p] + Cardinality(K) + Cardinality(R) = 1
        BY <2>5, <2>6, <2>7
    <2> QED BY <2>8 DEF K, R
<1>14. CASE p \notin TreePages(radix) /\ \A u \in Req : p \notin OwnPages(u)
    <2>1. K = {} /\ R = {} /\ free[p] = 1
        BY <1>6, <1>9, <1>10, <1>14
    <2> QED BY <1>11, <2>1 DEF R
<1> QED BY <1>12, <1>13, <1>14

LEMMA MatchesIs ==
    ASSUME CacheInv
    PROVE  KVMatches
<1>1. Types /\ TreeInv /\ Shared /\ Written /\ \A u \in Req : Lengths(u)
    BY DEF CacheInv
<1>2. ASSUME NEW u \in Req, NEW i \in 1..Len(row[u])
      PROVE  kv[row[u][i]] = Content(u, i, cachedLen[u])
    <2> DEFINE a == Len(handle[u]) \div PageSize  h == handle[u]  k == Upto(h, i * PageSize)
    <2>1. /\ a \in Nat /\ OwnPositions(u) = (a + 1)..Len(row[u]) /\ Len(row[u]) \in Nat
          /\ Len(h) % PageSize = 0 /\ h \in Seq(Token) /\ text[u] \in Seq(Token)
          /\ cachedLen[u] \in Nat /\ Len(text[u]) \in Nat
          /\ \A j \in WholeKeys(Token) : IsPrefix(j, h) => j \in Keys(radix)
        BY SMTT(60), <1>1, RowIs DEF Types
    <2>2. IsPrefix(h, text[u]) /\ Len(h) <= cachedLen[u] /\ (image[u] => h = <<>>)
        BY <1>1 DEF Lengths
    <2>3. CASE i \in OwnPositions(u)
        BY <1>1, <2>3 DEF Written
    <2>4. CASE i \notin OwnPositions(u)
        <3> HIDE DEF a
        <3>1. i \in 1..a /\ i \in Nat
            BY <2>1, <2>4
        <3>2. /\ k \in WholeKeys(Token) /\ IsPrefix(k, h) /\ i * PageSize \in 1..Len(h)
              /\ Len(k) \div PageSize = i
            <4>1. i \in 1..(Len(h) \div PageSize)
                BY <3>1 DEF a
            <4> HIDE DEF h
            <4> QED BY <2>1, <4>1, PageKeyIs
        <3> HIDE DEF k
        <3>3. row[u][i] = radix.pages[k] /\ k \in Keys(radix)
            BY <1>1, <2>1, <3>2 DEF Shared
        <3>4. kv[row[u][i]] = <<NoImage, k>>
            BY <1>1, <3>3 DEF Written
        <3>5. Owner(u) = NoImage
            <4>1. Len(h) \in Nat /\ h # <<>>
                BY <2>1, <3>2
            <4> QED BY <2>2, <4>1 DEF Owner
        <3>6. k = Upto(text[u], i * PageSize)
            <4>1. i * PageSize \in 0..Len(h)
                BY <3>2
            <4> HIDE DEF h
            <4> QED BY <2>1, <2>2, <4>1, UptoOfPrefix DEF k
        <3>7. Content(u, i, cachedLen[u]) = <<Owner(u), Upto(text[u], i * PageSize)>>
            <4>1. i * PageSize <= cachedLen[u]
                BY <2>1, <2>2, <3>2
            <4> QED BY <2>1, <3>1, <4>1, ContentIs
        <3> QED BY <3>4, <3>5, <3>6, <3>7
    <2> QED BY <2>3, <2>4
<1> QED BY <1>1, <1>2 DEF KVMatches, Active, Written

LEMMA CountersIs ==
    ASSUME CacheInv
    PROVE  CountersExact
<1>1. Types /\ Tree(radix, Token) /\ Counts(radix, handle) /\ \A u \in Req : Lengths(u)
    BY DEF CacheInv, TreeInv
<1> DEFINE unlocked == {k \in Keys(radix) : radix.refs[NodeOf(radix, k)] = 0}
<1>2. \A k \in Keys(radix) : radix.refs[NodeOf(radix, k)] = 0 <=> k \notin UsedKeys(radix, handle)
    BY <1>1, KeyCounts
<1>3. unlocked = Keys(radix) \ UsedKeys(radix, handle)
    BY <1>2
<1>4. UsedKeys(radix, handle) \subseteq Keys(radix)
    BY DEF UsedKeys
<1> HIDE DEF unlocked
<1>5. Keys(radix) \ unlocked = UsedKeys(radix, handle)
    BY <1>3, <1>4
<1>6. ASSUME NEW e \in Nodes(radix)
      PROVE  Users(handle, e) = {u \in Active : IsPrefix(e, handle[u])}
    <2>1. e \in Seq(Token) /\ e # <<>>
        BY <1>1, WholeKeyIs DEF Tree
    <2>2. DOMAIN handle = Req /\ \A u \in Req : phase[u] = "new" => handle[u] = <<>>
        BY <1>1 DEF Types, Lengths
    <2>3. \A u \in Req : IsPrefix(e, handle[u]) => phase[u] # "new"
        BY <2>1, <2>2, EmptyPrefix
    <2> QED BY <2>2, <2>3 DEF Users, Active
<1>7. \A e \in Nodes(radix) : radix.refs[e] = Cardinality({u \in Active : IsPrefix(e, handle[u])})
    BY <1>1, <1>6 DEF Counts
<1>8. /\ radix.evictable = PageSize * Cardinality(unlocked)
      /\ radix.protected = PageSize * Cardinality(Keys(radix) \ unlocked)
    BY <1>1, <1>3, <1>5 DEF Counts
<1> QED BY <1>7, <1>8 DEF CountersExact, unlocked

-----------------------------------------------------------------------------
(***************************************************************************)
(* Room: what the requests still need fits into what no row points at.     *)
(*                                                                         *)
(* A page that no row points at is on the free list or may be evicted.  A  *)
(* forward takes what its request no longer needs; a commit that puts the  *)
(* tree's page for one of its own, or two rows over one page, lets others go; *)
(* and admission counts in tokens at least what it has to count in pages.  *)
(***************************************************************************)
\* The pages that some row points at: those that neither an eviction nor an
\* allocation may take.
Pinned == UNION {Range(row[u]) : u \in Req}
Spare == Cardinality(Page \ Pinned)

\* The pages a request may still take: its last token is never forwarded.
Need == [u \in Req |->
            IF phase[u] = "new" THEN 0 ELSE Pages(MaxDeviceLen(u) - 1) - Pages(cachedLen[u])]

Budget(u) ==
    phase[u] # "new" =>
        /\ outputLen[u] >= 1 /\ cachedLen[u] < MaxDeviceLen(u)
        /\ PageSize * Pages(MaxDeviceLen(u) - 1) <= MaxDeviceLen(u)

CoverInv == ~dead /\ (\A u \in Req : Budget(u)) /\ SumOver(Need, Req) <= Spare

\* The pages of a request with its last token hold no more tokens than admission
\* counts it with.
RoomyShapes ==
    \A s \in Shapes : PageSize * Pages((Len(s.prompt) + s.output) - 1) <= Len(s.prompt) + s.output

\* A position of a row is its request's own, or holds the tree's page for a part of
\* the handle; every such page is there.
LEMMA RowPageIs ==
    ASSUME CacheInv, NEW u \in Req
    PROVE  /\ \A i \in 1..Len(row[u]) :
                 \/ i \in OwnPositions(u)
                 \/ /\ i <= Len(handle[u]) \div PageSize
                    /\ \E k \in Keys(radix) :
                          /\ k = Upto(handle[u], i * PageSize)
                          /\ IsPrefix(k, handle[u]) /\ row[u][i] = radix.pages[k]
           /\ \A k \in Keys(radix) : IsPrefix(k, handle[u]) =>
                 /\ Len(k) \div PageSize \in 1..Len(row[u])
                 /\ row[u][Len(k) \div PageSize] = radix.pages[k]
           /\ OwnPositions(u) \subseteq 1..Len(row[u])
           /\ row[u] \in Seq(Page) /\ Range(row[u]) = {row[u][i] : i \in 1..Len(row[u])}
<1> DEFINE h == handle[u]  a == Len(h) \div PageSize  e == Len(row[u])
<1>1. Types /\ TreeInv /\ Lengths(u) /\ h \in Seq(Token) /\ row[u] \in Seq(Page) /\ e \in Nat
    BY DEF CacheInv, Types
<1>2. /\ a \in Nat /\ Len(h) % PageSize = 0 /\ a <= e /\ OwnPositions(u) = (a + 1)..e
      /\ \A k \in WholeKeys(Token) : IsPrefix(k, h) => k \in Keys(radix)
    BY <1>1, RowIs
<1>3. Keys(radix) \subseteq WholeKeys(Token)
    BY <1>1 DEF TreeInv, Tree
<1>4. /\ \A i \in 1..a : /\ Upto(h, i * PageSize) \in WholeKeys(Token)
                         /\ IsPrefix(Upto(h, i * PageSize), h)
                         /\ Len(Upto(h, i * PageSize)) \div PageSize = i
      /\ \A k \in WholeKeys(Token) : IsPrefix(k, h) => Len(k) \div PageSize \in 1..a
    BY <1>1, <1>2, PageKeyIs
<1>5. \A k \in Keys(radix) : IsPrefix(k, h) => row[u][Len(k) \div PageSize] = radix.pages[k]
    BY DEF CacheInv, Shared
<1> HIDE DEF h, a, e
<1>6. ASSUME NEW k \in Keys(radix), IsPrefix(k, h) PROVE Len(k) \div PageSize \in 1..e
    <2> DEFINE i == Len(k) \div PageSize
    <2>1. i \in 1..a
        BY <1>3, <1>4, <1>6
    <2> HIDE DEF i
    <2>2. i \in 1..e
        BY <1>1, <1>2, <2>1
    <2> QED BY <2>2 DEF i
<1>7. ASSUME NEW i \in 1..e, i \notin OwnPositions(u)
      PROVE  /\ i <= a
             /\ \E k \in Keys(radix) :
                   k = Upto(h, i * PageSize) /\ IsPrefix(k, h) /\ row[u][i] = radix.pages[k]
    <2>1. i \in 1..a
        BY <1>1, <1>2, <1>7
    <2> DEFINE k == Upto(h, i * PageSize)
    <2>2. k \in Keys(radix) /\ IsPrefix(k, h) /\ Len(k) \div PageSize = i
        BY <1>2, <1>4, <2>1
    <2> HIDE DEF k
    <2>3. row[u][i] = radix.pages[k]
        BY <1>5, <2>2
    <2> QED BY <2>1, <2>2, <2>3 DEF k
<1>8. OwnPositions(u) \subseteq 1..e
    BY <1>1, <1>2
<1>9. Range(row[u]) = {row[u][i] : i \in 1..e}
    BY <1>1 DEF Range, e
<1> QED BY <1>1, <1>5, <1>6, <1>7, <1>8, <1>9 DEF h, a, e

\* X is the pages that are held and those of the keys in use.
Pins(c, H, O, X) ==
    /\ \A p \in X : \/ \E u \in Req : p \in O[u]
                    \/ \E k \in UsedKeys(c, H) : p = c.pages[k]
    /\ \A u \in Req : O[u] \subseteq X
    /\ \A k \in UsedKeys(c, H) : c.pages[k] \in X

\* A page outside X, the pages that are held and those of the keys in use, is free
\* or may be evicted.
LEMMA SpareOf ==
    ASSUME NEW c, Tree(c, Token), NEW H, Counts(c, H), Distinct(c),
           NEW list, NEW O, Partition(list, TreePages(c), O), NEW X, Pins(c, H, O, X)
    PROVE  /\ X \subseteq Page /\ SumOver(list, Page) \in Nat
           /\ \E n \in Nat : /\ c.evictable = PageSize * n
                             /\ n + SumOver(list, Page) = Cardinality(Page \ X)
<1> DEFINE used == UsedKeys(c, H)  idle == Keys(c) \ used
           U == {c.pages[k] : k \in idle}  F == {p \in Page : list[p] = 1}
<1>1. IsFiniteSet(Keys(c)) /\ c.evictable = PageSize * Cardinality(idle) /\ used \subseteq Keys(c)
    BY DEF Tree, Counts, UsedKeys
<1>2. SumOver(list, Page) = Cardinality(F) /\ IsFiniteSet(F)
    <2>1. \A p \in Page : list[p] \in {0, 1}
        BY DEF Partition
    <2>2. F \in SUBSET Page
        OBVIOUS
    <2> QED BY <2>1, <2>2, SumOnes, PoolAssumption, FS_Subset
<1>3. IsFiniteSet(U) /\ Cardinality(U) = Cardinality(idle) /\ Cardinality(idle) \in Nat
    <2>1. IsFiniteSet(idle)
        <3>1. idle \in SUBSET Keys(c)
            OBVIOUS
        <3> QED BY <1>1, <3>1, FS_Subset
    <2>2. \A j, k \in idle : c.pages[j] = c.pages[k] => j = k
        BY DEF Distinct
    <2> DEFINE g == c.pages
    <2>3. \A j, k \in idle : g[j] = g[k] => j = k
        BY <2>2
    <2> HIDE DEF idle, g
    <2>4. IsFiniteSet({g[k] : k \in idle}) /\ Cardinality({g[k] : k \in idle}) = Cardinality(idle)
        BY <2>1, <2>3, ImageIs
    <2> QED BY <2>1, <2>4, FS_CardinalityType DEF g
<1>4. \A k \in Keys(c) : c.pages[k] \in TreePages(c) /\ c.pages[k] \in Page /\ list[c.pages[k]] = 0
    <2>1. \A k \in Keys(c) : c.pages[k] \in TreePages(c)
        BY DEF TreePages
    <2> QED BY <2>1 DEF Partition
<1>5. U \cap F = {}
    BY <1>4
<1>6. \A u \in Req : \A p \in O[u] : p \in Page /\ p \notin TreePages(c) /\ list[p] = 0
    BY DEF Partition
<1>7. X \subseteq Page
    BY <1>1, <1>4, <1>6 DEF Pins
<1>8. ASSUME NEW p \in X PROVE p \notin U \cup F
    <2>1. CASE \E u \in Req : p \in O[u]
        BY <1>4, <1>6, <2>1
    <2>2. CASE \E k \in used : p = c.pages[k]
        <3>1. PICK k \in used : p = c.pages[k]
            BY <2>2
        <3> QED BY <1>1, <1>4, <3>1 DEF Distinct
    <2> QED BY <2>1, <2>2 DEF Pins
<1>9. ASSUME NEW p \in Page \ X PROVE p \in U \cup F
    <2>1. \A u \in Req : p \notin O[u]
        BY DEF Pins
    <2>2. CASE p \notin TreePages(c)
        BY <2>1, <2>2 DEF Partition
    <2>3. CASE p \in TreePages(c)
        BY <2>3 DEF TreePages, Pins
    <2> QED BY <2>2, <2>3
<1>10. Page \ X = U \cup F
    <2>1. U \subseteq Page
        BY <1>4
    <2> HIDE DEF U
    <2> QED BY <1>8, <1>9, <2>1
<1> HIDE DEF U, F, idle
<1>11. Cardinality(Page \ X) = Cardinality(U) + Cardinality(F) /\ Cardinality(F) \in Nat
    BY <1>2, <1>3, <1>5, <1>10, PartsIs
<1>12. Cardinality(idle) + SumOver(list, Page) = Cardinality(Page \ X)
    BY <1>2, <1>3, <1>11
<1> QED BY <1>1, <1>2, <1>3, <1>7, <1>11, <1>12

\* A page that no row points at is free, or may be evicted.
LEMMA SpareIs ==
    ASSUME CacheInv
    PROVE  /\ Pinned \subseteq Page /\ FreeCount \in Nat
           /\ \E n \in Nat : radix.evictable = PageSize * n /\ n + FreeCount = Spare
<1>1. /\ Tree(radix, Token) /\ Counts(radix, handle) /\ Distinct(radix)
      /\ Partition(free, TreePages(radix), Owns) /\ DOMAIN handle = Req
      /\ \A u \in Req : Owns[u] = OwnPages(u)
    BY DEF CacheInv, TreeInv, Places, Types, Owns
<1>2. /\ \A u \in Req : Range(row[u]) = {row[u][i] : i \in 1..Len(row[u])}
      /\ \A u \in Req : OwnPositions(u) \subseteq 1..Len(row[u])
    BY RowPageIs
<1>3. ASSUME NEW p \in Pinned
      PROVE  \/ \E u \in Req : p \in Owns[u]
             \/ \E k \in UsedKeys(radix, handle) : p = radix.pages[k]
    <2>1. PICK u \in Req : p \in Range(row[u])
        BY DEF Pinned
    <2>2. PICK i \in 1..Len(row[u]) : p = row[u][i]
        BY <1>2, <2>1
    <2>3. CASE i \in OwnPositions(u)
        BY <1>1, <2>2, <2>3 DEF OwnPages
    <2>4. CASE i \notin OwnPositions(u)
        <3>1. PICK k \in Keys(radix) : IsPrefix(k, handle[u]) /\ p = radix.pages[k]
            BY <2>2, <2>4, RowPageIs
        <3> QED BY <1>1, <3>1 DEF UsedKeys, Users
    <2> QED BY <2>3, <2>4
<1>4. ASSUME NEW u \in Req PROVE Owns[u] \subseteq Pinned
    <2>1. \A i \in OwnPositions(u) : row[u][i] \in Range(row[u])
        BY <1>2
    <2> QED BY <1>1, <2>1 DEF OwnPages, Pinned
<1>5. ASSUME NEW k \in UsedKeys(radix, handle) PROVE radix.pages[k] \in Pinned
    <2>1. PICK u \in Req : IsPrefix(k, handle[u]) /\ k \in Keys(radix)
        BY <1>1 DEF UsedKeys, Users
    <2>2. Len(k) \div PageSize \in 1..Len(row[u]) /\ row[u][Len(k) \div PageSize] = radix.pages[k]
        BY <2>1, RowPageIs
    <2>3. radix.pages[k] \in Range(row[u])
        BY <1>2, <2>2
    <2> QED BY <2>3 DEF Pinned
<1>6. FreeCount = SumOver(free, Page)
    BY DEF FreeCount, SumOver
<1>7. /\ Pinned \subseteq Page /\ SumOver(free, Page) \in Nat
      /\ \E n \in Nat : /\ radix.evictable = PageSize * n
                        /\ n + SumOver(free, Page) = Cardinality(Page \ Pinned)
    <2>1. Pins(radix, handle, Owns, Pinned)
        BY <1>3, <1>4, <1>5 DEF Pins
    <2>2. /\ Tree(radix, Token) /\ Counts(radix, handle) /\ Distinct(radix)
          /\ Partition(free, TreePages(radix), Owns)
        BY <1>1
    <2> QED BY ONLY <2>1, <2>2, SpareOf
<1> QED BY <1>6, <1>7 DEF Spare

\* While enough is evictable, evict finds leaves to take: the nodes nobody locked
\* are closed downwards, and a smallest such set that is large enough will do.
LEMMA VictimsExist ==
    ASSUME TreeInv, NEW pages \in Int, FreeCount \in Nat, Short(pages) <= radix.evictable
    PROVE  Victims(pages) # {}
<1> DEFINE size == Short(pages)  open == {e \in Nodes(radix) : radix.refs[e] = 0}
           Closed(E) == \A e \in E, f \in Nodes(radix) : IsPrefix(e, f) => f \in E
           B == {E \in SUBSET open : Closed(E) /\ Size(radix, E) >= size}
<1>1. CASE ~(pages > FreeCount)
    BY <1>1 DEF Victims
<1>2. CASE pages > FreeCount
    <2>1. size \in Int /\ size > 0
        <3>1. \A x \in Nat \ {0} : x * PageSize \in Int /\ x * PageSize > 0
            BY PageSizeAssumption
        <3>2. pages - FreeCount \in Nat \ {0}
            BY <1>2
        <3> DEFINE x == pages - FreeCount
        <3> HIDE DEF x
        <3>3. x * PageSize \in Int /\ x * PageSize > 0
            BY <3>1, <3>2 DEF x
        <3> QED BY <3>3 DEF x, Short
    <2> HIDE DEF size
    <2>2. /\ Tree(radix, Token) /\ Counts(radix, handle) /\ IsFiniteSet(open)
          /\ Nodes(radix) \subseteq Keys(radix)
          /\ \A e \in Nodes(radix) : e \in Seq(Token)
        <3>1. Tree(radix, Token) /\ Counts(radix, handle)
            BY DEF TreeInv
        <3>2. open \subseteq Keys(radix) /\ IsFiniteSet(Keys(radix))
            BY <3>1 DEF Tree
        <3>3. IsFiniteSet(open)
            BY <3>2, FS_Subset
        <3> QED BY <3>1, <3>3, WholeKeyIs DEF Tree
    <2>3. \A E \in SUBSET Nodes(radix) : Size(radix, E) \in Int
        <3> SUFFICES ASSUME NEW E \in SUBSET Nodes(radix) PROVE Size(radix, E) \in Int
            OBVIOUS
        <3>1. Size(radix, E) = PageSize * Cardinality(EvictedKeys(radix, E))
              /\ Cardinality(EvictedKeys(radix, E)) \in Nat
            BY <2>2, SizeIs
        <3> QED BY <3>1, PageSizeAssumption
    <2>4. Size(radix, open) = radix.evictable
        <3>1. EvictedKeys(radix, open) = Keys(radix) \ UsedKeys(radix, handle)
            <4>1. \A k \in Keys(radix) : /\ NodeOf(radix, k) \in Nodes(radix)
                                         /\ radix.refs[NodeOf(radix, k)] = 0
                                                <=> k \notin UsedKeys(radix, handle)
                BY <2>2, KeyCounts, NodeOfIs
            <4> QED BY <4>1 DEF EvictedKeys
        <3>2. Size(radix, open) = PageSize * Cardinality(EvictedKeys(radix, open))
            <4>1. open \in SUBSET Nodes(radix)
                OBVIOUS
            <4> HIDE DEF open
            <4> QED BY <2>2, <4>1, SizeIs
        <3> QED BY <2>2, <3>1, <3>2 DEF Counts
    <2>5. Closed(open)
        <3> SUFFICES ASSUME NEW e \in open, NEW f \in Nodes(radix), IsPrefix(e, f)
                     PROVE  radix.refs[f] = 0
            OBVIOUS
        <3>1. /\ radix.refs[NodeOf(radix, e)] = 0 <=> e \notin UsedKeys(radix, handle)
              /\ radix.refs[NodeOf(radix, f)] = 0 <=> f \notin UsedKeys(radix, handle)
              /\ NodeOf(radix, e) = e /\ NodeOf(radix, f) = f
            BY <2>2, KeyCounts, NodeOfNode
        <3>2. ASSUME NEW u \in DOMAIN handle, IsPrefix(f, handle[u]) PROVE IsPrefix(e, handle[u])
            <4>1. handle[u] \in Nodes(radix) \cup {<<>>} /\ <<>> \in Seq(Token)
                BY <2>2, EmptyPrefix DEF Counts
            <4>2. handle[u] \in Seq(Token)
                BY <2>2, <4>1
            <4> QED BY <2>2, <3>2, <4>2, PrefixOrder
        <3>3. f \in UsedKeys(radix, handle) => e \in UsedKeys(radix, handle)
            BY <2>2, <3>2 DEF UsedKeys, Users
        <3> QED BY <3>1, <3>3
    <2>6. open \in B
        BY <2>1, <2>3, <2>4, <2>5 DEF size
    <2>7. PICK m \in B : \A s \in B : s \subseteq m => s = m
        <3>1. B \subseteq SUBSET open /\ B # {}
            BY <2>6
        <3> HIDE DEF B, open
        <3> QED BY <2>2, <3>1, MinimalSubset
    <2>8. m # {}
        <3>1. Size(radix, {}) = PageSize * Cardinality(EvictedKeys(radix, {}))
            BY <2>2, SizeIs
        <3>2. EvictedKeys(radix, {}) = {} /\ Cardinality({}) = 0 /\ PageSize * 0 = 0
            BY FS_EmptySet, PageSizeAssumption DEF EvictedKeys
        <3>3. Size(radix, {}) = 0
            BY <3>1, <3>2
        <3>4. Size(radix, m) >= size
            BY <2>7
        <3> QED BY <2>1, <3>3, <3>4
    <2> DEFINE Above(e) == {f \in m : IsPrefix(f, e)}
    <2>9. PICK last \in m : \A e \in m : Above(e) \subseteq Above(last) => Above(e) = Above(last)
        <3> DEFINE A == {Above(e) : e \in m}
        <3>1. A \subseteq SUBSET m /\ A # {} /\ m \subseteq open
            <4>1. m \in SUBSET open
                BY <2>7
            <4> HIDE DEF B, open
            <4> QED BY <2>8, <4>1
        <3>2. IsFiniteSet(m)
            BY <2>2, <3>1, FS_Subset
        <3> HIDE DEF A
        <3>3. PICK l \in A : \A s \in A : s \subseteq l => s = l
            BY <3>1, <3>2, MinimalSubset
        <3>4. PICK last \in m : l = Above(last)
            BY <3>3 DEF A
        <3>5. \A e \in m : Above(e) \in A
            BY DEF A
        <3> HIDE DEF Above, B
        <3> QED BY <3>3, <3>4, <3>5
    <2>10. m \subseteq Nodes(radix) /\ Closed(m) /\ Size(radix, m) >= size /\ m \in SUBSET open
        BY <2>7
    <2>11. ASSUME NEW e \in m, IsPrefix(e, last) PROVE e = last
        <3>1. e \in Seq(Token) /\ last \in Seq(Token) /\ \A f \in m : f \in Seq(Token)
            BY <2>2, <2>10
        <3>2. Above(e) \subseteq Above(last)
            BY <2>11, <3>1, PrefixOrder
        <3>3. last \in Above(last)
            BY <3>1, PrefixOrder
        <3>4. last \in Above(e)
            BY <2>9, <3>2, <3>3
        <3> QED BY <2>11, <3>1, <3>4, PrefixOrder
    <2>12. Closed(m \ {last})
        BY <2>10, <2>11
    <2>13. m \ {last} \notin B
        BY <2>7
    <2>14. Size(radix, m \ {last}) < size
        <3>1. Size(radix, m \ {last}) \in Int
            BY <2>3, <2>10
        <3>2. m \ {last} \in SUBSET open
            BY <2>10
        <3>3. ~(Size(radix, m \ {last}) >= size)
            <4> HIDE DEF Closed, open
            <4> QED BY <2>12, <2>13, <3>2
        <3> QED BY <2>1, <3>1, <3>3
    <2>15. m \in Evictions(radix, size)
        BY <2>10, <2>11, <2>14 DEF Evictions, IsStrictPrefix
    <2> QED BY <1>2, <2>15 DEF Victims, size
<1> QED BY <1>1, <1>2

\* What is spared when the pages of D are let go and those of T are taken.
LEMMA SpareMoves ==
    ASSUME NEW X \in SUBSET Page, NEW Y, NEW D \in SUBSET X, NEW T, IsFiniteSet(T),
           Y \subseteq (X \ D) \cup T
    PROVE  /\ Cardinality(Page \ X) \in Nat /\ Cardinality(Page \ Y) \in Nat
           /\ Cardinality(D) \in Nat /\ Cardinality(T) \in Nat
           /\ Cardinality(Page \ X) + Cardinality(D) <= Cardinality(Page \ Y) + Cardinality(T)
<1> DEFINE A == Page \ X  B == Page \ Y
<1>1. IsFiniteSet(A) /\ IsFiniteSet(B) /\ IsFiniteSet(D)
    <2>1. A \in SUBSET Page /\ B \in SUBSET Page /\ D \in SUBSET Page
        OBVIOUS
    <2> QED BY <2>1, PoolAssumption, FS_Subset
<1>2. A \cap D = {} /\ A \cup D \subseteq B \cup T
    OBVIOUS
<1> HIDE DEF A, B
<1>3. /\ Cardinality(A) \in Nat /\ Cardinality(D) \in Nat
      /\ Cardinality(A \cup D) = Cardinality(A) + Cardinality(D)
    BY <1>1, <1>2, PartsIs
<1>4. /\ Cardinality(B) \in Nat /\ Cardinality(T) \in Nat /\ IsFiniteSet(B \cup T)
      /\ Cardinality(B \cup T) \in Nat /\ Cardinality(B \cup T) <= Cardinality(B) + Cardinality(T)
    BY <1>1, PartsIs
<1>5. Cardinality(A \cup D) <= Cardinality(B \cup T)
    BY <1>2, <1>4, FS_Subset
<1> QED BY <1>3, <1>4, <1>5 DEF A, B

\* The pages left to take, for a last token that is not forwarded.
LEMMA LeftIs ==
    ASSUME NEW m \in Nat, NEW c \in Nat, c < m
    PROVE  /\ Pages(m - 1) \in Nat /\ Pages(c) \in Nat /\ Pages(m - 1) - Pages(c) \in Nat
           /\ PageSize * Pages(m - 1) \in Nat /\ PageSize * Pages(c) \in Nat
           /\ PageSize * (Pages(m - 1) - Pages(c)) = PageSize * Pages(m - 1) - PageSize * Pages(c)
           /\ c <= PageSize * Pages(c) /\ PageSize * Pages(m - 1) <= m + PageSize - 2
<1> DEFINE n == m - 1  a == Pages(n)  b == Pages(c)
<1>1. n \in Nat /\ c <= n
    OBVIOUS
<1> HIDE DEF n
<1>2. a \in Nat /\ b \in Nat /\ b <= a
    BY <1>1, PagesGrow
<1>3. c <= b * PageSize /\ a * PageSize < n + PageSize
    BY <1>1, PagesIs
<1> HIDE DEF a, b
<1>4. /\ PageSize * a \in Nat /\ PageSize * b \in Nat /\ a * PageSize = PageSize * a
      /\ b * PageSize = PageSize * b /\ PageSize * (a - b) = PageSize * a - PageSize * b
    BY <1>2, PageSizeAssumption
<1>5. a - b \in Nat
    BY <1>2
<1>6. PageSize * a <= m + PageSize - 2
    BY <1>1, <1>3, <1>4, PageSizeAssumption DEF n
<1> QED BY <1>1, <1>2, <1>3, <1>4, <1>5, <1>6 DEF a, b, n

LEMMA NeedIs ==
    ASSUME Types, NEW u \in Req, Budget(u)
    PROVE  /\ Need[u] \in Nat
           /\ phase[u] = "new" => Need[u] = 0
           /\ phase[u] # "new" => Need[u] = Pages(MaxDeviceLen(u) - 1) - Pages(cachedLen[u])
<1>1. CASE phase[u] = "new"
    BY <1>1 DEF Need
<1>2. CASE phase[u] # "new"
    <2>1. MaxDeviceLen(u) \in Nat /\ cachedLen[u] \in Nat /\ cachedLen[u] < MaxDeviceLen(u)
        BY <1>2 DEF Types, Budget, MaxDeviceLen
    <2> QED BY <1>2, <2>1, LeftIs DEF Need
<1> QED BY <1>1, <1>2

\* A step for u leaves the others' needs alone.
Alone(u) ==
    \A v \in Req \ {u} :
        /\ phase'[v] = phase[v] /\ row'[v] = row[v] /\ cachedLen'[v] = cachedLen[v]
        /\ promptLen'[v] = promptLen[v] /\ outputLen'[v] = outputLen[v]

\* Such a step keeps the needs covered, when u lets go of the pages of D, takes those
\* of T, and needs that much less.
LEMMA CoverStep ==
    ASSUME CacheInv, CoverInv, NEW u \in Req, Alone(u), ~dead', Budget(u)', Need'[u] \in Nat,
           NEW D \in SUBSET Range(row[u]), \A v \in Req \ {u} : Range(row[v]) \cap D = {},
           NEW T, IsFiniteSet(T), Range(row'[u]) \subseteq (Range(row[u]) \ D) \cup T,
           Need'[u] + Cardinality(T) <= Need[u] + Cardinality(D)
    PROVE  CoverInv'
<1>1. Types /\ \A v \in Req : Budget(v) /\ Need[v] \in Nat
    BY NeedIs DEF CacheInv, CoverInv
<1>2. ASSUME NEW v \in Req \ {u} PROVE Budget(v)' /\ Need'[v] = Need[v]
    BY <1>1 DEF Alone, Budget, Need, MaxDeviceLen
<1>3. SumOver(Need', Req) = SumOver(Need, Req) + Need'[u] - Need[u]
    <2>1. \A v \in Req : Need[v] \in Int /\ Need'[v] \in Int
        BY <1>1, <1>2
    <2>2. \A v \in Req \ {u} : Need'[v] = Need[v]
        BY <1>2
    <2> QED BY <2>1, <2>2, PoolAssumption, SumUpdate
<1>4. SumOver(Need, Req) \in Nat
    BY <1>1, PoolAssumption, SumNat
<1>5. Pinned \in SUBSET Page /\ D \in SUBSET Pinned /\ Pinned' \subseteq (Pinned \ D) \cup T
    <2>1. Pinned \subseteq Page
        BY SpareIs
    <2>2. D \subseteq Pinned
        BY DEF Pinned
    <2>3. Pinned' = UNION {Range(row'[v]) : v \in Req}
        BY DEF Pinned
    <2>4. \A v \in Req : Range(row'[v]) \subseteq (Pinned \ D) \cup T
        BY DEF Alone, Pinned
    <2> QED BY <2>1, <2>2, <2>3, <2>4
<1>6. /\ Spare \in Nat /\ Spare' \in Nat /\ Cardinality(D) \in Nat /\ Cardinality(T) \in Nat
      /\ Spare + Cardinality(D) <= Spare' + Cardinality(T)
    <2> DEFINE X == Pinned  Y == Pinned'
    <2>1. Spare = Cardinality(Page \ X) /\ Spare' = Cardinality(Page \ Y)
        BY DEF Spare
    <2>2. X \in SUBSET Page /\ D \in SUBSET X /\ Y \subseteq (X \ D) \cup T
        BY <1>5
    <2> HIDE DEF X, Y
    <2> QED BY <2>1, <2>2, SpareMoves
<1>7. SumOver(Need, Req) <= Spare
    BY DEF CoverInv
<1>8. Need[u] \in Nat
    BY <1>1
<1>9. SumOver(Need', Req) <= Spare'
    BY <1>3, <1>4, <1>6, <1>7, <1>8
<1> QED BY <1>2, <1>9 DEF CoverInv

\* A step that takes no page.
LEMMA CoverIdle ==
    ASSUME CacheInv, CoverInv, NEW u \in Req, Alone(u), ~dead', Budget(u)', Need'[u] \in Nat,
           Range(row'[u]) \subseteq Range(row[u]), Need'[u] <= Need[u]
    PROVE  CoverInv'
<1>1. {} \in SUBSET Range(row[u]) /\ \A v \in Req \ {u} : Range(row[v]) \cap {} = {}
    OBVIOUS
<1>2. IsFiniteSet({}) /\ Cardinality({}) = 0
    BY FS_EmptySet
<1>3. Range(row'[u]) \subseteq (Range(row[u]) \ {}) \cup {}
    OBVIOUS
<1>4. Need[u] \in Nat
    BY NeedIs DEF CacheInv, CoverInv
<1>5. Need'[u] + Cardinality({}) <= Need[u] + Cardinality({})
    BY <1>2, <1>4
<1> QED BY <1>1, <1>2, <1>3, <1>5, CoverStep

LEMMA ReleaseCover ==
    ASSUME CacheInv, CoverInv, NEW u \in Req, NEW host, Release(u, host)
    PROVE  CoverInv'
<1>1. Types /\ ~dead /\ Need[u] \in Nat
    BY NeedIs DEF CacheInv, CoverInv
<1>2. Alone(u)
    BY <1>1 DEF Release, Alone, Types
<1>3. phase'[u] = "new" /\ row'[u] = <<>> /\ ~dead'
    BY <1>1 DEF Release, Types
<1>4. Budget(u)' /\ Need'[u] = 0
    BY <1>3 DEF Budget, Need
<1>5. Range(row'[u]) \subseteq Range(row[u])
    BY <1>3 DEF Range
<1> QED BY <1>1, <1>2, <1>3, <1>4, <1>5, CoverIdle

\* A commit lets go of the duplicates, and takes as many pages of the tree at most.
LEMMA CommitCover ==
    ASSUME CacheInv, CoverInv, NEW u \in Req, phase[u] = "drain", hostLen[u] < Len(text[u]),
           Commit(u, hostLen[u] + 1), phase' = [phase EXCEPT ![u] = "decode"],
           UNCHANGED <<promptLen, outputLen, cachedLen, dead>>
    PROVE  CoverInv'
<1> DEFINE host == hostLen[u] + 1  c == Inserted(u, host)  hit == Hit(u, host)
           key == Committed(u, host)  new == Repoint(u, c, hit)
           a == Len(handle[u]) \div PageSize  b == Len(hit) \div PageSize
           d == Len(key) \div PageSize  e == Len(row[u])
<1>1. /\ Types /\ Lengths(u) /\ TreeInv /\ Places /\ Written /\ ~dead' /\ row[u] \in Seq(Page)
      /\ Len(handle[u]) \in Nat /\ cachedLen[u] \in Nat /\ hostLen[u] \in Nat /\ Len(text[u]) \in Nat
      /\ u \in DOMAIN row /\ Need[u] \in Nat
    BY SMTT(60), NeedIs DEF CacheInv, CoverInv, Types
<1>2. /\ Budget(u)' /\ Need'[u] = Need[u]
    BY <1>1 DEF CoverInv, Budget, Need, MaxDeviceLen, Types
<1>3. CASE image[u]
    <2>1. row' = row
        BY <1>3 DEF Commit
    <2>2. Alone(u) /\ Range(row'[u]) \subseteq Range(row[u])
        BY <1>1, <2>1 DEF Alone, Types
    <2> QED BY <1>1, <1>2, <2>2, CoverIdle
<1>4. CASE ~image[u]
    <2>1. Committing(u, host)
        <3>1. Len(text[u]) = cachedLen[u] + 1 /\ Len(handle[u]) <= hostLen[u]
            BY <1>1 DEF Lengths, Sampling
        <3> QED BY <1>1, <1>4, <3>1 DEF Committing
    <2>2. row' = [row EXCEPT ![u] = new]
        BY <1>4 DEF Commit, Inserted, Hit, Committed, KeyOf
    <2>3. /\ a \in Nat /\ b \in Nat /\ d \in Nat /\ e \in Nat /\ a <= b /\ b <= d /\ d <= e
          /\ OwnPositions(u) = (a + 1)..e
        BY <2>1, PositionsSplit
    <2>4. /\ new \in Seq(Page) /\ Len(new) = e
          /\ \A k \in Keys(c) : IsPrefix(k, key) => new[Len(k) \div PageSize] = c.pages[k]
        BY <2>1, RepointIs
    <2>5. \A i \in (b + 1)..e : new[i] = row[u][i]
        BY <2>3 DEF Repoint
    <2>6. /\ Keys(radix) \subseteq Keys(c) /\ \A k \in Keys(radix) : c.pages[k] = radix.pages[k]
        BY <2>1, InsertedIs
    <2>7. /\ IsPrefix(handle[u], hit) /\ IsPrefix(hit, key)
          /\ handle[u] \in Seq(Token) /\ hit \in Seq(Token) /\ key \in Seq(Token)
        BY <2>1, KnownIs DEF Committing, Types
    <2> HIDE DEF host, c, hit, key, new, a, b, d, e
    <2>8. ASSUME NEW i \in 1..a
          PROVE  new[i] = row[u][i] /\ row[u][i] \in TreePages(radix)
        <3>1. i \in 1..Len(row[u]) /\ i \notin OwnPositions(u)
            BY <2>3 DEF e
        <3>2. PICK k \in Keys(radix) :
                  /\ k = Upto(handle[u], i * PageSize) /\ IsPrefix(k, handle[u])
                  /\ row[u][i] = radix.pages[k]
            BY <3>1, RowPageIs
        <3>3. k \in Seq(Token)
            BY <1>1, WholeKeyIs DEF TreeInv, Tree
        <3>4. IsPrefix(k, key)
            BY <2>7, <3>2, <3>3, PrefixOrder
        <3>5. Len(k) \div PageSize = i
            <4>1. Len(handle[u]) % PageSize = 0
                BY <1>1, RowIs
            <4>2. Len(Upto(handle[u], i * PageSize)) \div PageSize = i
                BY <2>7, <4>1, PageKeyIs DEF a
            <4> QED BY <3>2, <4>2
        <3>6. new[i] = c.pages[k]
            BY <2>4, <2>6, <3>4, <3>5
        <3> QED BY <2>6, <3>2, <3>6 DEF TreePages
    <2> DEFINE I == (a + 1)..b  D == {row[u][i] : i \in I}  T == {new[i] : i \in I}
    <2>9. IsFiniteSet(I)
        <3>1. a + 1 \in Int /\ b \in Int
            BY <2>3
        <3> QED BY <3>1, FS_Interval
    <2>10. IsFiniteSet(D) /\ Cardinality(D) = Cardinality(I)
        <3>1. \A i, j \in I : row[u][i] = row[u][j] => i = j
            BY SMTT(60), <1>1, <2>3 DEF Places
        <3> DEFINE r == row[u]
        <3>2. \A i, j \in I : r[i] = r[j] => i = j
            BY <3>1
        <3> HIDE DEF r, I
        <3>3. IsFiniteSet({r[i] : i \in I}) /\ Cardinality({r[i] : i \in I}) = Cardinality(I)
            BY ZenonT(60), <2>9, <3>2, ImageIs
        <3> QED BY <3>3 DEF r
    <2>11. IsFiniteSet(T) /\ Cardinality(T) <= Cardinality(I) /\ Cardinality(T) \in Nat
        <3> HIDE DEF I
        <3> QED BY <2>9, ImageIs
    <2>12. row'[u] = new /\ Alone(u)
        <3>1. row'[u] = new /\ \A v \in Req \ {u} : row'[v] = row[v]
            BY <1>1, <2>2 DEF Types
        <3> QED BY <1>1, <3>1 DEF Alone, Types
    <2>13. /\ Range(row[u]) = {row[u][i] : i \in 1..e} /\ Range(new) = {new[i] : i \in 1..e}
           /\ \A v \in Req : Range(row[v]) = {row[v][i] : i \in 1..Len(row[v])}
        <3>1. Range(new) = {new[i] : i \in 1..e}
            BY <2>4 DEF Range
        <3>2. \A v \in Req : Range(row[v]) = {row[v][i] : i \in 1..Len(row[v])}
            BY RowPageIs
        <3> QED BY <3>1, <3>2 DEF e
    <2>14. D \subseteq Range(row[u]) /\ D \subseteq OwnPages(u)
        BY <2>3, <2>13 DEF OwnPages
    <2>15. Partition(free, TreePages(radix), Owns) /\ \A v \in Req : Owns[v] = OwnPages(v)
        BY <1>1 DEF Places, Owns
    <2>16. ASSUME NEW v \in Req \ {u} PROVE Range(row[v]) \cap D = {}
        <3>1. ASSUME NEW i \in 1..Len(row[v]) PROVE row[v][i] \in OwnPages(v) \cup TreePages(radix)
            <4>1. CASE i \in OwnPositions(v)
                BY <4>1 DEF OwnPages
            <4>2. CASE i \notin OwnPositions(v)
                <5>1. \E k \in Keys(radix) : row[v][i] = radix.pages[k]
                    BY <4>2, RowPageIs
                <5> QED BY <5>1 DEF TreePages
            <4> QED BY <4>1, <4>2
        <3>2. Range(row[v]) \subseteq OwnPages(v) \cup TreePages(radix)
            <4>1. Range(row[v]) = {row[v][i] : i \in 1..Len(row[v])}
                BY <2>13
            <4> QED BY <3>1, <4>1
        <3>3. OwnPages(u) \cap OwnPages(v) = {} /\ OwnPages(u) \cap TreePages(radix) = {}
            BY <2>15 DEF Partition
        <3> QED BY <2>14, <3>2, <3>3
    <2>17. Range(new) \subseteq (Range(row[u]) \ D) \cup T
        <3>1. ASSUME NEW i \in 1..e PROVE new[i] \in (Range(row[u]) \ D) \cup T
            <4>1. row[u][i] \in Range(row[u])
                BY <2>13
            <4>2. CASE i \in 1..a
                <5>1. TreePages(radix) \cap OwnPages(u) = {}
                    BY <2>15 DEF Partition
                <5> QED BY <2>8, <2>14, <4>1, <4>2, <5>1
            <4>3. CASE i \in I
                BY <4>3
            <4>4. CASE i \in (b + 1)..e
                <5>1. row[u][i] \notin D
                    <6>1. \A j \in I : row[u][i] # row[u][j]
                        BY SMTT(60), <1>1, <2>3, <4>4 DEF Places
                    <6> QED BY <6>1
                <5> QED BY <2>5, <4>1, <4>4, <5>1
            <4> QED BY <2>3, <4>2, <4>3, <4>4
        <3> QED BY <2>13, <3>1
    <2>18. Need'[u] + Cardinality(T) <= Need[u] + Cardinality(D)
        <3>1. Cardinality(I) \in Nat
            BY <2>9, FS_CardinalityType
        <3> HIDE DEF D, T, I
        <3> QED BY <1>1, <1>2, <2>10, <2>11, <3>1
    <2> HIDE DEF D, T, I
    <2> QED BY <1>1, <1>2, <2>11, <2>12, <2>14, <2>16, <2>17, <2>18, CoverStep
<1> QED BY <1>3, <1>4

LEMMA DrainCover ==
    ASSUME CacheInv, CoverInv, NEW u \in Req, Drain(u)
    PROVE  CoverInv'
<1>1. CASE Release(u, hostLen[u] + 1)
    BY <1>1, ReleaseCover
<1>2. CASE phase[u] = "drain" /\ Commit(u, hostLen[u] + 1)
            /\ phase' = [phase EXCEPT ![u] = "decode"]
            /\ UNCHANGED <<promptLen, outputLen, cachedLen, dead>>
    BY <1>2, CommitCover DEF Drain
<1>3. CASE row' = row /\ phase' = [phase EXCEPT ![u] = "decode"] /\ Sampling(u)
            /\ UNCHANGED <<promptLen, outputLen, cachedLen, dead>>
    <2>1. Types /\ ~dead /\ Need[u] \in Nat /\ Budget(u)
        BY NeedIs DEF CacheInv, CoverInv
    <2>2. Alone(u)
        BY <1>3, <2>1 DEF Alone, Types
    <2>3. Budget(u)' /\ Need'[u] = Need[u]
        BY <1>3, <2>1 DEF Budget, Need, MaxDeviceLen, Sampling, Types
    <2> QED BY <1>3, <2>1, <2>2, <2>3, CoverIdle
<1> QED BY <1>1, <1>2, <1>3 DEF Drain

LEMMA AbortCover ==
    ASSUME CacheInv, CoverInv, NEW u \in Req, Abort(u)
    PROVE  CoverInv'
BY ReleaseCover DEF Abort

\* A step that changes no row and no request.
LEMMA CoverStays ==
    ASSUME CoverInv, UNCHANGED <<phase, row, promptLen, outputLen, cachedLen, dead>>
    PROVE  CoverInv'
<1>1. Need' = Need /\ Spare' = Spare
    BY DEF Need, Spare, Pinned, MaxDeviceLen
<1>2. \A u \in Req : Budget(u)'
    BY DEF CoverInv, Budget, MaxDeviceLen
<1> QED BY <1>1, <1>2 DEF CoverInv

\* A forward finds the pages it needs.
LEMMA ForwardCover ==
    ASSUME CacheInv, CoverInv, NEW u \in Req, NEW n \in Nat, Forward(u, n)
    PROVE  CoverInv'
<1> DEFINE m == MaxDeviceLen(u)  x == cachedLen[u]  y == x + n  new == NewPages(u, n)
<1>1. /\ Types /\ Lengths(u) /\ TreeInv /\ ~dead /\ Budget(u) /\ CanForward(u, n)
      /\ x \in Nat /\ y \in Nat /\ m \in Nat /\ promptLen[u] \in Nat /\ outputLen[u] \in Nat
      /\ DOMAIN phase = Req /\ DOMAIN cachedLen = Req /\ DOMAIN row = Req
    BY SMTT(60) DEF CacheInv, CoverInv, Types, Forward, MaxDeviceLen
<1>2. phase[u] # "new" /\ outputLen[u] >= 1 /\ x < m
      /\ PageSize * Pages(m - 1) <= m
    BY <1>1 DEF CanForward, InPrompt, Sampling, Budget
<1>3. y < m
    <2>1. CASE InPrompt(u)
        <3>1. n <= promptLen[u] - x
            BY <1>1, <2>1 DEF CanForward, InPrompt, Sampling
        <3> QED BY <1>1, <1>2, <3>1 DEF MaxDeviceLen
    <2>2. CASE ~InPrompt(u)
        <3>1. Sampling(u) /\ n = 1 /\ Len(text[u]) < m
            BY <1>1, <2>2 DEF CanForward
        <3>2. Len(text[u]) = x + 1
            BY <1>1, <3>1 DEF Lengths
        <3> QED BY <3>1, <3>2
    <2> QED BY <2>1, <2>2
<1> HIDE DEF m
<1>4. /\ Need[u] = Pages(m - 1) - Pages(x) /\ Need[u] \in Nat
    BY <1>1, <1>2, NeedIs DEF m
<1>5. /\ Pages(x) \in Nat /\ Pages(y) \in Nat /\ Pages(x) <= Pages(y)
      /\ Pages(m - 1) - Pages(y) \in Nat /\ Pages(m - 1) \in Nat /\ new = Pages(y) - Pages(x)
    BY <1>1, <1>3, LeftIs, PagesGrow DEF NewPages
<1> HIDE DEF x, y, new
<1>6. new \in Nat /\ new <= Need[u] /\ Pages(m - 1) - Pages(y) = Need[u] - new
    BY <1>4, <1>5
<1>7. Need[u] <= SumOver(Need, Req) /\ SumOver(Need, Req) \in Nat
    <2>1. \A v \in Req : Need[v] \in Nat
        BY NeedIs DEF CacheInv, CoverInv
    <2> QED BY <2>1, PoolAssumption, SumNat
<1>8. PICK i \in Nat : radix.evictable = PageSize * i /\ i + FreeCount = Spare /\ FreeCount \in Nat
    BY SpareIs
<1>9. new - FreeCount <= i
    <2>1. SumOver(Need, Req) <= Spare
        BY DEF CoverInv
    <2> QED BY <1>4, <1>6, <1>7, <1>8, <2>1
<1>10. Short(new) <= radix.evictable
    <2> DEFINE s == new - FreeCount  f == FreeCount
    <2>1. s \in Int /\ s <= i
        BY <1>6, <1>8, <1>9
    <2> HIDE DEF s
    <2>2. s * PageSize <= PageSize * i
        BY <1>8, <2>1, PageSizeAssumption
    <2> QED BY <1>8, <2>2 DEF Short, s
<1>11. Short(new) \in Int /\ radix.evictable \in Int
    <2>1. new - FreeCount \in Int
        BY <1>6, <1>8
    <2> DEFINE s == new - FreeCount
    <2> HIDE DEF s
    <2>2. s * PageSize \in Int /\ PageSize * i \in Int
        BY <1>8, <2>1, PageSizeAssumption DEF s
    <2> QED BY <1>8, <2>2 DEF Short, s
<1>12. Victims(new) # {}
    <2>1. new \in Int
        BY <1>6
    <2> QED BY <1>1, <1>8, <1>10, <2>1, VictimsExist
<1>13. ~(Short(new) > radix.evictable \/ Victims(new) = {})
    BY <1>10, <1>11, <1>12
<1>14. /\ \E E, fresh : Forwarding(u, n, E, fresh)
       /\ cachedLen' = [cachedLen EXCEPT ![u] = @ + n]
       /\ \/ phase' = [phase EXCEPT ![u] = "prefill"]
          \/ phase' = [phase EXCEPT ![u] = IF InPrompt(u) THEN "drain" ELSE @]
       /\ UNCHANGED <<promptLen, outputLen, handle, dead>>
    <2>1. ~(Short(NewPages(u, n)) > radix.evictable \/ Victims(NewPages(u, n)) = {})
        BY <1>13 DEF new
    <2>2. \E E \in Victims(NewPages(u, n)) :
              \E fresh \in Allocations(Return(free, FreedBy(E)), NewPages(u, n)) :
                  Forwarding(u, n, E, fresh)
        BY ZenonT(60), <2>1 DEF Forward, Forwarding
    <2>3. cachedLen' = [cachedLen EXCEPT ![u] = @ + n]
          /\ UNCHANGED <<promptLen, outputLen, handle, dead>>
        BY <2>1 DEF Forward
    <2>4. \/ phase' = [phase EXCEPT ![u] = "prefill"]
          \/ phase' = [phase EXCEPT ![u] = IF InPrompt(u) THEN "drain" ELSE @]
        BY <2>1 DEF Forward
    <2> QED BY <2>2, <2>3, <2>4
<1>15. PICK E, fresh : Forwarding(u, n, E, fresh)
    BY <1>14
<1>16. /\ cachedLen'[u] = y /\ phase'[u] # "new" /\ ~dead'
       /\ \A v \in Req \ {u} : cachedLen'[v] = cachedLen[v] /\ phase'[v] = phase[v]
    BY <1>1, <1>2, <1>14 DEF x, y
<1>17. Alone(u)
    <2>1. \A v \in Req \ {u} : row'[v] = row[v]
        BY <1>1, <1>15 DEF Forwarding
    <2> QED BY <1>14, <1>16, <2>1 DEF Alone
<1>18. Budget(u)' /\ Need'[u] = Need[u] - new /\ Need'[u] \in Nat
    <2>1. promptLen'[u] + outputLen'[u] = m
        BY <1>14 DEF m, MaxDeviceLen
    <2>2. Budget(u)'
        BY <1>2, <1>3, <1>14, <1>16, <2>1 DEF Budget, MaxDeviceLen
    <2>3. Need'[u] = Pages(m - 1) - Pages(y)
        BY <1>16, <2>1 DEF Need, MaxDeviceLen
    <2> QED BY <1>5, <1>6, <2>2, <2>3
<1>19. /\ row'[u] \in Seq(Page) /\ Len(row[u]) \in Nat /\ Len(row[u]) <= Len(row'[u])
       /\ \A j \in 1..Len(row[u]) : row'[u][j] = row[u][j]
       /\ \A j \in (Len(row[u]) + 1)..Len(row'[u]) : row'[u][j] \in Range(fresh)
    BY <1>14, <1>15, GrownIs
<1>20. IsFiniteSet(Range(fresh)) /\ Cardinality(Range(fresh)) <= new
       /\ Cardinality(Range(fresh)) \in Nat
    <2>1. DOMAIN fresh = 1..new
        BY <1>15 DEF Forwarding, Allocations, new
    <2>2. IsFiniteSet(1..new) /\ Cardinality(1..new) = new
        BY <1>6, FS_Interval
    <2>3. Range(fresh) = {fresh[j] : j \in 1..new}
        BY <2>1 DEF Range
    <2> QED BY ZenonT(60), <2>2, <2>3, ImageIs
<1>21. Range(row'[u]) \subseteq (Range(row[u]) \ {}) \cup Range(fresh)
    <2>1. Range(row'[u]) = {row'[u][j] : j \in 1..Len(row'[u])}
        BY <1>19 DEF Range
    <2>2. Range(row[u]) = {row[u][j] : j \in 1..Len(row[u])}
        BY RowPageIs
    <2>3. ASSUME NEW j \in 1..Len(row'[u]) PROVE row'[u][j] \in Range(row[u]) \cup Range(fresh)
        <3>1. CASE j \in 1..Len(row[u])
            BY <1>19, <2>2, <3>1
        <3>2. CASE j \notin 1..Len(row[u])
            <4>1. j \in (Len(row[u]) + 1)..Len(row'[u])
                BY <1>19, <3>2
            <4> QED BY <1>19, <4>1
        <3> QED BY <3>1, <3>2
    <2> QED BY <2>1, <2>3
<1>22. /\ {} \in SUBSET Range(row[u]) /\ \A v \in Req \ {u} : Range(row[v]) \cap {} = {}
       /\ Cardinality({}) = 0
    BY FS_EmptySet
<1>23. Need'[u] + Cardinality(Range(fresh)) <= Need[u] + Cardinality({})
    BY <1>4, <1>6, <1>18, <1>20, <1>22
<1> QED BY <1>16, <1>17, <1>18, <1>20, <1>21, <1>22, <1>23, CoverStep

\* reserved_size as a sum of a function.
Reserve ==
    [u \in Req |-> IF InPrompt(u) THEN MaxDeviceLen(u) - cachedLen[u]
                   ELSE IF Len(text[u]) < MaxDeviceLen(u)
                        THEN MaxDeviceLen(u) - Len(text[u]) + PageSize - 1 ELSE 0]

LEMMA ReservedSum == Reserved = SumOver(Reserve, Active)
<1> DEFINE f == Reserve
           one(u) == IF InPrompt(u) THEN MaxDeviceLen(u) - cachedLen[u]
                     ELSE IF Len(text[u]) < MaxDeviceLen(u)
                          THEN MaxDeviceLen(u) - Len(text[u]) + PageSize - 1 ELSE 0
           c(s) == CHOOSE x \in s : TRUE
           P(g, s) == IF s = {} THEN 0 ELSE one(c(s)) + g[s \ {c(s)}]
           Q(g) == g = [s \in SUBSET Active |-> P(g, s)]
           k == CHOOSE g : Q(g)
           h == CHOOSE g : IsPartial(f, g, Active)
<1>1. Reserved = k[Active]
    BY DEF Reserved, MapThenSumSet, MapThenFoldSet
<1>2. Active \in SUBSET Req /\ IsFiniteSet(Active)
    <2>1. Active \in SUBSET Req
        BY DEF Active
    <2> QED BY <2>1, PoolAssumption, FS_Subset
<1>3. ASSUME NEW g PROVE Q(g) <=> IsPartial(f, g, Active)
    <2>1. ASSUME NEW s \in SUBSET Active PROVE P(g, s) = Part(f, g, s)
        <3>1. CASE s = {}
            BY <3>1 DEF Part
        <3>2. CASE s # {}
            <4>1. c(s) \in Req
                BY <1>2, <3>2
            <4>2. f[c(s)] = one(c(s))
                BY <4>1 DEF Reserve
            <4> HIDE DEF f, one
            <4> QED BY <3>2, <4>2 DEF Part
        <3> QED BY <3>1, <3>2
    <2>2. [s \in SUBSET Active |-> P(g, s)] = [s \in SUBSET Active |-> Part(f, g, s)]
        <3> HIDE DEF P, f
        <3> QED BY <2>1, Zenon
    <2> HIDE DEF P, f
    <2> QED BY <2>2 DEF IsPartial
<1>4. IsPartial(f, h, Active)
    <2> HIDE DEF f
    <2> QED BY <1>2, PartialExists
<1> HIDE DEF f, P, h
<1>5. Q(h)
    BY <1>3, <1>4
<1> HIDE DEF Q
<1>6. Q(k)
    BY <1>5
<1> HIDE DEF k
<1>7. IsPartial(f, k, Active)
    BY <1>3, <1>6
<1>8. k = h
    BY <1>2, <1>4, <1>7, PartialUnique
<1>9. SumOver(f, Active) = h[Active]
    BY SumUnfold DEF h
<1> QED BY <1>1, <1>8, <1>9 DEF f

\* What is reserved for a request is enough for the pages it needs.
LEMMA ReserveIs ==
    ASSUME Types, NEW u \in Active, Lengths(u), Budget(u)
    PROVE  Need[u] \in Nat /\ Reserve[u] \in Int /\ PageSize * Need[u] <= Reserve[u]
<1> DEFINE m == MaxDeviceLen(u)  x == cachedLen[u]  a == Pages(m - 1)  b == Pages(x)
<1>1. /\ u \in Req /\ phase[u] # "new" /\ x \in Nat /\ m \in Nat /\ Len(text[u]) \in Nat
      /\ InPrompt(u) \/ Sampling(u)
    BY DEF Active, Types, MaxDeviceLen, Phases, InPrompt, Sampling
<1>2. x < m /\ PageSize * a <= m
    BY <1>1 DEF Budget
<1>3. Need[u] = a - b /\ Need[u] \in Nat
    BY <1>1, NeedIs
<1>4. Reserve[u] = IF InPrompt(u) THEN m - x
                   ELSE IF Len(text[u]) < m THEN m - Len(text[u]) + PageSize - 1 ELSE 0
    BY <1>1 DEF Reserve
<1> HIDE DEF m
<1>5. /\ a \in Nat /\ b \in Nat /\ PageSize * a \in Nat /\ PageSize * b \in Nat
      /\ PageSize * (a - b) = PageSize * a - PageSize * b
      /\ x <= PageSize * b /\ PageSize * a <= m + PageSize - 2
    BY <1>1, <1>2, LeftIs
<1> HIDE DEF x, a, b
<1>6. PageSize * Need[u] = PageSize * a - PageSize * b
    BY <1>3, <1>5
<1> DEFINE pa == PageSize * a  pb == PageSize * b  pn == PageSize * Need[u]
<1>7. /\ pn = pa - pb /\ pa \in Nat /\ pb \in Nat /\ x <= pb /\ pa <= m + PageSize - 2 /\ pa <= m
      /\ PageSize \in Nat
    BY <1>2, <1>5, <1>6, PageSizeAssumption
<1> HIDE DEF pa, pb, pn
<1>8. CASE InPrompt(u)
    <2>1. Reserve[u] = m - x
        BY <1>4, <1>8
    <2>2. Reserve[u] \in Int /\ pn <= Reserve[u]
        BY <1>1, <1>7, <2>1
    <2> QED BY <1>3, <2>2 DEF pn
<1>9. CASE ~InPrompt(u)
    <2>1. Len(text[u]) = x + 1
        BY <1>1, <1>9 DEF Lengths, x
    <2>2. CASE x + 1 < m
        <3>1. Reserve[u] = m - (x + 1) + PageSize - 1
            BY <1>4, <1>9, <2>1, <2>2
        <3>2. Reserve[u] \in Int /\ pn <= Reserve[u]
            BY <1>1, <1>7, <3>1
        <3> QED BY <1>3, <3>2 DEF pn
    <2>3. CASE ~(x + 1 < m)
        <3>1. Reserve[u] = 0
            BY <1>4, <1>9, <2>1, <2>3
        <3>2. x = m - 1
            BY <1>1, <1>2, <2>3
        <3>3. Need[u] = 0 /\ PageSize * 0 = 0
            BY <1>3, <1>5, <3>2, PageSizeAssumption DEF a, b
        <3> QED BY <3>1, <3>3
    <2> QED BY <2>2, <2>3
<1> QED BY <1>8, <1>9

LEMMA FreeCountIs == FreeCount = SumOver(free, Page)
BY DEF FreeCount, SumOver

\* What SpareIs says, before a step and after it.
SpareExact ==
    /\ SumOver(free, Page) \in Nat
    /\ \E n \in Nat : radix.evictable = PageSize * n /\ n + SumOver(free, Page) = Spare

LEMMA SpareHolds ==
    (CacheInv => SpareExact) /\ (CacheInv' => SpareExact')
<1>1. CacheInv => SpareExact
    BY SpareIs, FreeCountIs DEF SpareExact
<1>2. CacheInv' => SpareExact'
    BY <1>1, PTL
<1> QED BY <1>1, <1>2

\* Admission lets a request in when its tokens and what the others have reserved
\* fit into what is available once the prefix it shares is locked.
LEMMA AdmitCover ==
    ASSUME RoomyShapes, CacheInv, CacheInv', CoverInv, NEW u \in Req, Admit(u)
    PROVE  CoverInv'
<1>1. PICK shape \in Shapes :
          LET k == Walk(radix, MatchIds(shape))
              c == Match(radix, MatchIds(shape))
          IN  /\ Gate(c, k, Estimated(shape, k))
              /\ radix' = Lock(c, k)
              /\ row' = [row EXCEPT ![u] = MatchedPages(c, k)]
              /\ cachedLen' = [cachedLen EXCEPT ![u] = Len(k)]
              /\ promptLen' = [promptLen EXCEPT ![u] = Len(shape.prompt)]
              /\ outputLen' = [outputLen EXCEPT ![u] = shape.output]
    BY DEF Admit
<1> DEFINE k == Walk(radix, MatchIds(shape))  c == Match(radix, MatchIds(shape))
           l == Len(k)  o == shape.output  e == Len(shape.prompt)  m == e + o
<1>2. /\ Types /\ TreeInv /\ ~dead /\ (\A v \in Req : Budget(v) /\ Lengths(v))
      /\ phase[u] = "new" /\ phase' = [phase EXCEPT ![u] = "admitted"] /\ ~dead'
      /\ free' = free
    BY DEF CacheInv, CoverInv, Admit
<1>3. l \in Nat /\ l % PageSize = 0 /\ l < e /\ e \in Nat /\ o \in Nat \ {0}
    BY <1>2, MatchedIs, ShapesAssumption
<1>4. PageSize * Pages(m - 1) <= m
    BY DEF RoomyShapes
<1>5. e - l + o + Reserved <= Lock(c, k).evictable + FreeCount * PageSize
    BY <1>1 DEF Gate, Available, Estimated
<1>6. e - l + o + Reserved <= radix'.evictable + SumOver(free', Page) * PageSize
    <2> HIDE DEF k, c, l, e, o
    <2> QED BY <1>1, <1>2, <1>5, FreeCountIs DEF k, c
<1>7. /\ cachedLen'[u] = l /\ promptLen'[u] = e /\ outputLen'[u] = o /\ phase'[u] = "admitted"
      /\ \A v \in Req \ {u} : /\ phase'[v] = phase[v] /\ cachedLen'[v] = cachedLen[v]
                              /\ promptLen'[v] = promptLen[v] /\ outputLen'[v] = outputLen[v]
    BY <1>1, <1>2 DEF Types
<1> HIDE DEF k, c, l, o, e
<1>8. m \in Nat /\ l < m
    BY <1>3
<1>9. Budget(u)'
    BY <1>3, <1>4, <1>7, <1>8 DEF Budget, MaxDeviceLen
<1>10. \A v \in Req \ {u} : Budget(v)' /\ Need'[v] = Need[v]
    BY <1>2, <1>7 DEF Budget, Need, MaxDeviceLen
<1>11. Need'[u] = Pages(m - 1) - Pages(l)
    BY <1>7 DEF Need, MaxDeviceLen
<1> HIDE DEF m
<1>12. Need'[u] \in Nat /\ PageSize * Need'[u] \in Nat /\ PageSize * Need'[u] <= m - l
    <2> DEFINE a == Pages(m - 1)  b == Pages(l)
    <2>1. /\ a - b \in Nat /\ PageSize * a \in Nat /\ PageSize * b \in Nat
          /\ PageSize * (a - b) = PageSize * a - PageSize * b
        BY ZenonT(60), <1>3, <1>8, LeftIs
    <2>2. b * PageSize = l /\ b \in Nat
        BY <1>3, WholeIs
    <2> HIDE DEF a, b
    <2>3. PageSize * b = l
        BY <2>2, PageSizeAssumption
    <2>4. PageSize * a <= m
        BY <1>4 DEF a
    <2> DEFINE pa == PageSize * a
    <2>5. PageSize * (a - b) = pa - l /\ pa \in Nat /\ pa <= m
        BY <2>1, <2>3, <2>4
    <2> HIDE DEF pa
    <2>6. PageSize * (a - b) \in Int /\ PageSize * (a - b) <= m - l
        BY <1>3, <1>8, <2>5
    <2>7. PageSize * (a - b) \in Nat
        BY <2>1, PageSizeAssumption
    <2> QED BY <1>11, <2>1, <2>6, <2>7 DEF a, b
<1>13. /\ \A v \in Req : Need[v] \in Nat /\ (v \notin Active => Need[v] = 0)
       /\ Active \in SUBSET Req /\ u \notin Active /\ IsFiniteSet(Active) /\ IsFiniteSet(Req \ {u})
    <2>1. Active \in SUBSET Req /\ u \notin Active /\ Req \ {u} \in SUBSET Req
        BY <1>2 DEF Active
    <2>2. IsFiniteSet(Active) /\ IsFiniteSet(Req \ {u})
        BY <2>1, PoolAssumption, FS_Subset
    <2>3. \A v \in Req : Need[v] \in Nat /\ (phase[v] = "new" => Need[v] = 0)
        BY <1>2, NeedIs
    <2> QED BY <2>1, <2>2, <2>3 DEF Active
<1>14. SumOver(Need', Req) = Need'[u] + SumOver(Need, Active)
    <2> DEFINE f == Need'  g == Need  S == Req \ {u}
    <2>1. \A v \in S : f[v] \in Int /\ f[v] = g[v]
        BY <1>10, <1>13
    <2>2. \A v \in Req : f[v] \in Int
        BY <1>12, <2>1
    <2>3. Active \in SUBSET S /\ (\A v \in Active : g[v] \in Int) /\ (\A v \in S \ Active : g[v] = 0)
        BY <1>13
    <2> HIDE DEF f, g
    <2>4. SumOver(f, Req) = f[u] + SumOver(f, S)
        BY <2>2, PoolAssumption, SumRemove
    <2> HIDE DEF S
    <2>5. SumOver(f, S) = SumOver(g, S)
        BY <1>13, <2>1, SumAgree DEF S
    <2>6. SumOver(g, S) = SumOver(g, Active)
        BY <1>13, <2>3, SumSupport DEF S
    <2> QED BY <2>4, <2>5, <2>6 DEF f, g
<1>15. /\ SumOver(Need, Active) \in Nat /\ Reserved \in Int
       /\ PageSize * SumOver(Need, Active) \in Nat /\ PageSize * SumOver(Need, Active) <= Reserved
    <2>1. \A v \in Active : Need[v] \in Int /\ Reserve[v] \in Int /\ PageSize * Need[v] <= Reserve[v]
        <3> SUFFICES ASSUME NEW v \in Active
                     PROVE  Need[v] \in Int /\ Reserve[v] \in Int /\ PageSize * Need[v] <= Reserve[v]
            OBVIOUS
        <3>1. Lengths(v) /\ Budget(v)
            BY <1>2, <1>13
        <3> QED BY <1>2, <3>1, ReserveIs
    <2> DEFINE f == Need  g == Reserve  P == PageSize
    <2>2. (\A v \in Active : f[v] \in Int /\ g[v] \in Int /\ P * f[v] <= g[v]) /\ P \in Nat
        BY <2>1, PageSizeAssumption
    <2>3. \A v \in Active : f[v] \in Nat
        BY <1>13
    <2> HIDE DEF f, g, P
    <2>4. P * SumOver(f, Active) <= SumOver(g, Active)
        BY <1>13, <2>2, SumScaled
    <2>5. SumOver(f, Active) \in Nat /\ SumOver(g, Active) \in Int
        BY <1>13, <2>2, <2>3, SumNat, SumInt
    <2>6. P * SumOver(f, Active) \in Nat
        BY <2>2, <2>5
    <2> QED BY <2>4, <2>5, <2>6, ReservedSum DEF f, g, P
<1>16. PICK n \in Nat : radix'.evictable = PageSize * n /\ n + SumOver(free', Page) = Spare' /\ SumOver(free', Page) \in Nat
    BY SpareHolds DEF SpareExact
<1>17. SumOver(Need', Req) <= Spare'
    <2> DEFINE a == Need'[u]  b == SumOver(Need, Active)  f == SumOver(free', Page)
               pa == PageSize * a  pb == PageSize * b  r == Reserved
    <2>1. a \in Nat /\ b \in Nat /\ f \in Nat /\ pa \in Nat /\ pb \in Nat /\ r \in Int
        BY <1>12, <1>15, <1>16
    <2>2. pa <= e - l + o /\ pb <= r /\ e - l + o \in Int
        BY <1>3, <1>12, <1>15 DEF m
    <2>3. e - l + o + r <= PageSize * n + f * PageSize
        BY <1>6, <1>16
    <2> HIDE DEF r, f
    <2>4. pa + pb <= PageSize * n + f * PageSize
        <3> DEFINE x == e - l + o  y == PageSize * n + f * PageSize
        <3>1. x \in Int /\ y \in Int /\ pa <= x /\ pb <= r /\ x + r <= y
            BY <2>1, <2>2, <2>3, PageSizeAssumption
        <3> HIDE DEF x, y, pa, pb
        <3>2. pa + pb <= y
            BY <2>1, <3>1
        <3> QED BY <3>2 DEF y
    <2> HIDE DEF a, b
    <2>5. pa + pb = PageSize * (a + b) /\ PageSize * n + f * PageSize = PageSize * (n + f)
        BY <2>1, PageSizeAssumption
    <2>6. PageSize * (a + b) <= PageSize * (n + f)
        BY <2>4, <2>5
    <2>7. a + b <= n + f
        <3> DEFINE x == a + b  y == n + f
        <3>1. x \in Nat /\ y \in Nat /\ PageSize * x <= PageSize * y
            BY <2>1, <2>6
        <3> HIDE DEF x, y
        <3>2. x <= y
            BY <3>1, PageSizeAssumption
        <3> QED BY <3>2 DEF x, y
    <2> QED BY <1>14, <1>16, <2>7 DEF a, b, f
<1> QED BY <1>2, <1>9, <1>10, <1>17 DEF CoverInv

LEMMA CoverInit ==
    ASSUME Init
    PROVE  CoverInv
<1>1. ~dead /\ \A u \in Req : phase[u] = "new"
    BY DEF Init
<1>2. \A u \in Req : Need[u] = 0
    BY <1>1 DEF Need
<1>3. SumOver(Need, Req) = 0
    BY <1>2, PoolAssumption, SumZero
<1>4. Spare \in Nat
    <2>1. Page \ Pinned \in SUBSET Page
        OBVIOUS
    <2>2. IsFiniteSet(Page \ Pinned)
        BY <2>1, PoolAssumption, FS_Subset
    <2> QED BY <2>2, FS_CardinalityType DEF Spare
<1> QED BY <1>1, <1>3, <1>4 DEF CoverInv, Budget

LEMMA CoverNext ==
    ASSUME RoomyShapes, CacheInv, CacheInv', CoverInv, [Next]_vars
    PROVE  CoverInv'
<1>1. CASE AdmitRefused \/ Rebuild \/ UNCHANGED vars
    <2>1. UNCHANGED <<phase, row, promptLen, outputLen, cachedLen, dead>>
        BY <1>1 DEF AdmitRefused, Rebuild, vars, reqVars
    <2> QED BY <2>1, CoverStays
<1>2. CASE \E u \in Req : Admit(u) \/ Drain(u) \/ Abort(u)
    BY <1>2, AdmitCover, DrainCover, AbortCover
<1>3. CASE \E u \in Req, n \in 1..(NumPages * PageSize) : Forward(u, n)
    <2>1. PICK u \in Req, n \in 1..(NumPages * PageSize) : Forward(u, n)
        BY <1>3
    <2>2. n \in Nat
        OBVIOUS
    <2> QED BY <2>1, <2>2, ForwardCover
<1> QED BY <1>1, <1>2, <1>3 DEF Next

\* A page of one or two tokens leaves no slack.
LEMMA SmallPagesAreRoomy ==
    PageSize \in {1, 2} => RoomyShapes
<1> SUFFICES ASSUME PageSize \in {1, 2}, NEW s \in Shapes
             PROVE  PageSize * Pages((Len(s.prompt) + s.output) - 1) <= Len(s.prompt) + s.output
    BY DEF RoomyShapes
<1> DEFINE m == Len(s.prompt) + s.output
<1>1. m \in Nat /\ 0 < m
    BY ShapesAssumption
<1> HIDE DEF m
<1>2. PageSize * Pages(m - 1) <= m + PageSize - 2 /\ PageSize * Pages(m - 1) \in Nat
    BY <1>1, LeftIs
<1>3. PageSize * Pages(m - 1) <= m
    <2> DEFINE x == PageSize * Pages(m - 1)
    <2> HIDE DEF x
    <2>1. x <= m
        BY <1>1, <1>2 DEF x
    <2> QED BY <2>1 DEF x
<1> QED BY <1>3 DEF m

-----------------------------------------------------------------------------
\* Between two calls of the scheduler the tree is closed under prefixes with its
\* counts exact, every page is in one place, a row begins with the tree's pages for
\* its handle, and every page holds what its place says (scheduler/cache.py).
THEOREM CacheManagerInvariant == Spec => []CacheInv
<1>1. Init => CacheInv
    BY InitIs
<1>2. CacheInv /\ [Next]_vars => CacheInv'
    BY NextStep
<1> QED BY <1>1, <1>2, PTL DEF Spec

\* No page is leaked, freed twice or handed to two requests: it is once on the free
\* list, under one key of the tree, or at one position of one request's own part
\* (free_and_cache_finished_req, cache_req, _allocate, evict).
THEOREM PagesAreOwned == Spec => []PageOwnership
<1>1. CacheInv => PageOwnership
    BY OwnershipIs
<1> QED BY <1>1, CacheManagerInvariant, PTL

\* What attention reads through a row is the KV of its own request's tokens and
\* image, whatever was deduplicated, evicted and reused in between.
THEOREM RowsReadTheirOwn == Spec => []KVMatches
<1>1. CacheInv => KVMatches
    BY MatchesIs
<1> QED BY <1>1, CacheManagerInvariant, PTL

\* A node's reference count is the number of handles that run through it, and
\* evictable_size and protected_size are the sizes of the unlocked and the locked
\* part of the tree, though both are kept by increments (radix_cache.py).
THEOREM CountersAreExact == Spec => []CountersExact
<1>1. CacheInv => CountersExact
    BY CountersIs
<1> QED BY <1>1, CacheManagerInvariant, PTL

\* An admitted request always gets the pages it needs (the assertions of evict and
\* _allocate), when a page holds one or two tokens, or no request ends its prompt and
\* its output less its last token with more than one token of the last page empty.
THEOREM AllocationIsCovered ==
    ASSUME PageSize \in {1, 2} \/ RoomyShapes
    PROVE  Spec => []AllocationCovered
<1>1. RoomyShapes
    BY SmallPagesAreRoomy
<1>2. Init => CoverInv
    BY CoverInit
<1>3. CacheInv /\ CacheInv' /\ CoverInv /\ [Next]_vars => CoverInv'
    BY <1>1, CoverNext
<1>4. CoverInv => AllocationCovered
    BY DEF CoverInv, AllocationCovered
<1> QED BY <1>2, <1>3, <1>4, CacheManagerInvariant, PTL DEF Spec

=============================================================================
