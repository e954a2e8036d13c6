--------------------------- MODULE TTLCacheProofs ---------------------------
(***************************************************************************)
(* Proofs about the two parts that keep their state in a                   *)
(* cachetools.TTLCache: JWKSManager, for any issuers, keys, requests, time *)
(* to live, timeout and cache size, and RateLimiter, for any clients,      *)
(* capacity, refill rate, time to live and cache size.                     *)
(***************************************************************************)
EXTENDS JWKSManager, RateLimiter, Integers, FiniteSetTheorems, SequenceTheorems, WellFoundedInduction, TLAPS
-----------------------------------------------------------------------------
(* Loops.  Induction over the turns of a loop is induction over a set of    *)
(* numbers, which has a least element outside unless it has all of them.    *)

\* A set that has 0, and with a number the next one, has them all.
LEMMA SetInduction ==
    ASSUME NEW S, 0 \in S, \A n \in Nat : n \in S => n + 1 \in S
    PROVE  Nat \subseteq S
<1> DEFINE R == OpToRel(<, Nat)
           T == Nat \ S
<1>1. IsWellFoundedOn(R, Nat)
  BY NatLessThanWellFounded
<1>2. \A x, y \in Nat : x < y => <<x, y>> \in R
  BY DEF OpToRel
<1> HIDE DEF R
<1> SUFFICES ASSUME T # {} PROVE FALSE
  OBVIOUS
<1>3. PICK x \in T : \A y \in T : ~ (<<y, x>> \in R)
  BY <1>1, WFMin
<1>4. x # 0 /\ x - 1 \in Nat /\ x - 1 < x
  OBVIOUS
<1>5. x - 1 \in S
  BY <1>2, <1>3, <1>4
<1> QED BY <1>4, <1>5

\* f is what a loop over 1..n has after each turn, when its i-th turn is step[i].
IsRun(f, n, start, step) ==
    f[0] = start /\ \A i \in 1..n : f[i] = step[i][f[i - 1]]

LEMMA LoopRuns ==
    ASSUME NEW n \in Nat, NEW V, NEW start \in V, NEW step \in [1..n -> [V -> V]]
    PROVE  \E f \in [0..n -> V] : IsRun(f, n, start, step)
<1> DEFINE Runs(m, f) == f[0] = start /\ \A i \in 1..m : f[i] = step[i][f[i - 1]]
           S == {m \in Nat : m <= n => \E f \in [0..m -> V] : Runs(m, f)}
<1>1. 0 \in S
  <2> DEFINE f == [i \in 0..0 |-> start]
  <2>1. f \in [0..0 -> V] /\ Runs(0, f)
    OBVIOUS
  <2> QED BY <2>1
<1>2. ASSUME NEW m \in Nat, m \in S PROVE m + 1 \in S
  <2> SUFFICES ASSUME m + 1 <= n PROVE \E f \in [0..(m + 1) -> V] : Runs(m + 1, f)
    OBVIOUS
  <2>1. PICK f \in [0..m -> V] : Runs(m, f)
    BY <1>2
  <2> DEFINE g == [i \in 0..(m + 1) |-> IF i = m + 1 THEN step[m + 1][f[m]] ELSE f[i]]
  <2>2. step[m + 1][f[m]] \in V
    OBVIOUS
  <2>3. g \in [0..(m + 1) -> V]
    BY <2>2
  <2>4. g[0] = start
    BY <2>1
  <2>5. ASSUME NEW i \in 1..(m + 1) PROVE g[i] = step[i][g[i - 1]]
    <3>1. CASE i = m + 1
      BY <3>1
    <3>2. CASE i # m + 1
      BY <2>1, <3>2
    <3> QED BY <3>1, <3>2
  <2> QED BY <2>3, <2>4, <2>5
<1> HIDE DEF S
<1>3. n \in S
  BY <1>1, <1>2, SetInduction
<1> QED BY <1>3 DEF S, IsRun
-----------------------------------------------------------------------------
(* Sequences.                                                               *)

\* g embeds r into the first n places of c: r has the members of c among them
\* that are in keep, in their order.
Selects(r, c, n, keep, g) ==
    /\ g \in [1..Len(r) -> 1..n]
    /\ \A i \in 1..Len(r) : r[i] = c[g[i]] /\ r[i] \in keep
    /\ \A i, j \in 1..Len(r) : i < j => g[i] < g[j]
    /\ \A l \in 1..n : c[l] \in keep => \E i \in 1..Len(r) : g[i] = l

\* One more place.
LEMMA SelectsNext ==
    ASSUME NEW S, NEW c \in Seq(S), NEW n \in Nat, n + 1 <= Len(c), NEW keep,
           NEW r \in Seq(S), NEW g, Selects(r, c, n, keep, g)
    PROVE  LET q == IF c[n + 1] \in keep THEN Append(r, c[n + 1]) ELSE r
           IN \E h : Selects(q, c, n + 1, keep, h)
<1> DEFINE x == c[n + 1]
           m == Len(r)
<1>1. x \in S /\ m \in Nat
  OBVIOUS
<1>2. CASE x \notin keep
  <2>1. \A l \in 1..(n + 1) : l \in 1..n \/ l = n + 1
    OBVIOUS
  <2>2. Selects(r, c, n + 1, keep, g)
    BY <1>2, <2>1 DEF Selects
  <2> QED BY <1>2, <2>2
<1>3. CASE x \in keep
  <2> DEFINE q == Append(r, x)
             h == [i \in 1..(m + 1) |-> IF i = m + 1 THEN n + 1 ELSE g[i]]
  <2>1. /\ Len(q) = m + 1 /\ q[m + 1] = x
        /\ \A i \in 1..m : q[i] = r[i]
    BY <1>1
  <2>2. /\ g \in [1..m -> 1..n]
        /\ \A i \in 1..m : r[i] = c[g[i]] /\ r[i] \in keep
        /\ \A i, j \in 1..m : i < j => g[i] < g[j]
        /\ \A l \in 1..n : c[l] \in keep => \E i \in 1..m : g[i] = l
    BY DEF Selects
  <2>3. \A i \in 1..(m + 1) : i \in 1..m \/ i = m + 1
    BY <1>1
  <2>a. \A i \in 1..m : g[i] \in 1..n /\ h[i] = g[i]
    BY <1>1, <2>2
  <2>b. h[m + 1] = n + 1
    BY <1>1
  <2> HIDE DEF q, x, m
  <2>4. h \in [1..(m + 1) -> 1..(n + 1)]
    BY <1>1, <2>2
  <2> HIDE DEF h
  <2>5. \A i \in 1..(m + 1) : q[i] = c[h[i]] /\ q[i] \in keep
    BY <1>1, <1>3, <2>1, <2>2, <2>3, <2>a, <2>b DEF x
  <2>6. ASSUME NEW i \in 1..(m + 1), NEW j \in 1..(m + 1), i < j PROVE h[i] < h[j]
    <3>1. i \in 1..m
      BY <1>1, <2>6
    <3>2. CASE j = m + 1
      BY <2>a, <2>b, <3>1, <3>2
    <3>3. CASE j \in 1..m
      BY <2>2, <2>6, <2>a, <3>1, <3>3
    <3> QED BY <2>3, <3>2, <3>3
  <2>7. ASSUME NEW l \in 1..(n + 1), c[l] \in keep
        PROVE  \E i \in 1..(m + 1) : h[i] = l
    <3>1. CASE l = n + 1
      BY <1>1, <2>b, <3>1
    <3>2. CASE l # n + 1
      <4>1. PICK i \in 1..m : g[i] = l
        BY <2>2, <2>7, <3>2
      <4> QED BY <1>1, <2>a, <4>1
    <3> QED BY <3>1, <3>2
  <2>8. Selects(q, c, n + 1, keep, h)
    BY <2>1, <2>4, <2>5, <2>6, <2>7 DEF Selects
  <2> QED BY <1>3, <2>8 DEF q, x
<1> QED BY <1>2, <1>3

\* Only(c, keep) is a sequence, and the selection of all of c.
LEMMA OnlySelects ==
    ASSUME NEW S, NEW c \in Seq(S), NEW keep
    PROVE  /\ Only(c, keep) \in Seq(S)
           /\ \E g : Selects(Only(c, keep), c, Len(c), keep, g)
<1> DEFINE n == Len(c)
           V == Seq(S)
           Turn(i, r) == IF c[i] \in keep THEN Append(r, c[i]) ELSE r
           step == [i \in 1..n |-> [r \in V |-> Turn(i, r)]]
           Is(f) == f = [i \in 0..n |-> IF i = 0 THEN <<>> ELSE
                          IF c[i] \in keep THEN Append(f[i - 1], c[i]) ELSE f[i - 1]]
           kept == CHOOSE f : Is(f)
<1>1. n \in Nat /\ <<>> \in V /\ step \in [1..n -> [V -> V]]
  <2>1. \A i \in 1..n : \A r \in V : Turn(i, r) \in V
    OBVIOUS
  <2> HIDE DEF Turn
  <2> QED BY <2>1
<1>2. PICK f \in [0..n -> V] : f[0] = <<>> /\ \A i \in 1..n : f[i] = step[i][f[i - 1]]
  <2> HIDE DEF n, V, step
  <2>1. \E f \in [0..n -> V] : IsRun(f, n, <<>>, step)
    BY <1>1, LoopRuns
  <2> QED BY <2>1 DEF IsRun
<1>3. \A i \in 1..n : f[i - 1] \in V /\ f[i] = Turn(i, f[i - 1])
  <2> HIDE DEF n, V, Turn
  <2> SUFFICES ASSUME NEW i \in 1..n PROVE f[i - 1] \in V /\ f[i] = Turn(i, f[i - 1])
    OBVIOUS
  <2>1. i - 1 \in 0..n
    BY <1>1
  <2>2. f[i - 1] \in V
    BY <1>2, <2>1
  <2> QED BY <1>2, <2>2
<1>4. Is(f)
  <2> HIDE DEF n, V, step
  <2>1. \A i \in 0..n : i = 0 \/ i \in 1..n
    BY <1>1
  <2>2. f = [i \in 0..n |-> f[i]]
    BY <1>2
  <2>3. \A i \in 0..n : f[i] = IF i = 0 THEN <<>> ELSE
                          IF c[i] \in keep THEN Append(f[i - 1], c[i]) ELSE f[i - 1]
    BY <1>2, <1>3, <2>1
  <2> QED BY <2>2, <2>3
<1>5. Is(kept)
  <2> HIDE DEF Is
  <2> QED BY <1>4
<1>6. Only(c, keep) = kept[n]
  BY DEF Only
<1>7. kept[0] = <<>> /\ \A i \in 1..n : kept[i] = Turn(i, kept[i - 1])
  <2> HIDE DEF n, kept
  <2>1. 0 \in 0..n /\ \A i \in 1..n : i \in 0..n /\ i # 0
    BY <1>1
  <2> QED BY <1>5, <2>1
<1> HIDE DEF n, kept, step, Is
<1> DEFINE Good(i) == kept[i] \in Seq(S) /\ \E g : Selects(kept[i], c, i, keep, g)
           T == {i \in Nat : i <= n => Good(i)}
<1>8. 0 \in T
  <2>1. Selects(<<>>, c, 0, keep, [i \in 1..0 |-> 0])
    BY DEF Selects
  <2>2. Good(0)
    BY <1>7, <2>1
  <2> QED BY <2>2
<1>9. ASSUME NEW i \in Nat, i \in T PROVE i + 1 \in T
  <2> SUFFICES ASSUME i + 1 <= n PROVE Good(i + 1)
    OBVIOUS
  <2>1. Good(i)
    BY <1>1, <1>9
  <2>2. kept[i + 1] = Turn(i + 1, kept[i])
    <3>1. i + 1 \in 1..n /\ (i + 1) - 1 = i
      BY <1>1
    <3> QED BY <1>7, <3>1
  <2>3. PICK g : Selects(kept[i], c, i, keep, g)
    BY <2>1
  <2>4. \E h : Selects(Turn(i + 1, kept[i]), c, i + 1, keep, h)
    BY <2>1, <2>3, SelectsNext DEF n
  <2>5. kept[i + 1] \in Seq(S)
    BY <2>1, <2>2 DEF n
  <2> QED BY <2>2, <2>4, <2>5
<1> HIDE DEF T
<1>10. n \in T
  BY <1>1, <1>8, <1>9, SetInduction
<1> QED BY <1>1, <1>6, <1>10 DEF T, n

\* A selection is no longer than the sequence, and shorter if it leaves one out.
LEMMA SelectionShorter ==
    ASSUME NEW S, NEW c \in Seq(S), NEW r \in Seq(S), NEW keep, NEW g,
           Selects(r, c, Len(c), keep, g)
    PROVE  /\ Len(r) <= Len(c)
           /\ \A l \in 1..Len(c) : c[l] \notin keep => Len(r) < Len(c)
<1> DEFINE m == Len(r)
           n == Len(c)
<1>1. m \in Nat /\ n \in Nat
  OBVIOUS
<1>2. /\ g \in [1..m -> 1..n]
      /\ \A i \in 1..m : r[i] = c[g[i]] /\ r[i] \in keep
      /\ \A i, j \in 1..m : i < j => g[i] < g[j]
  BY DEF Selects
<1> HIDE DEF m, n
<1>3. g \in Injection(1..m, 1..n)
  <2>1. \A i \in 1..m : g[i] \in Nat
    BY <1>1, <1>2
  <2>2. ASSUME NEW i \in 1..m, NEW j \in 1..m, g[i] = g[j] PROVE i = j
    <3>1. ~(i < j) /\ ~(j < i)
      BY <1>2, <2>1, <2>2
    <3> QED BY <1>1, <3>1
  <2> QED BY <1>2, <2>2 DEF Injection, IsInjective
<1>4. /\ IsFiniteSet(1..m) /\ Cardinality(1..m) = m
      /\ IsFiniteSet(1..n) /\ Cardinality(1..n) = n
  <2>1. IsFiniteSet(1..m) /\ Cardinality(1..m) = IF 1 > m THEN 0 ELSE (m - 1) + 1
    BY <1>1, FS_Interval
  <2>2. IsFiniteSet(1..n) /\ Cardinality(1..n) = IF 1 > n THEN 0 ELSE (n - 1) + 1
    BY <1>1, FS_Interval
  <2> QED BY <1>1, <2>1, <2>2
<1>5. m <= n /\ (m = n => g \in Surjection(1..m, 1..n))
  BY <1>3, <1>4, FS_Injection
<1>6. ASSUME NEW l \in 1..n, c[l] \notin keep PROVE m < n
  <2> SUFFICES ASSUME m = n PROVE FALSE
    BY <1>1, <1>5
  <2>1. PICK i \in 1..m : g[i] = l
    BY <1>5 DEF Surjection
  <2> QED BY <1>2, <1>6, <2>1
<1> QED BY <1>5, <1>6 DEF m, n

-----------------------------------------------------------------------------
(* The cache.                                                               *)

Entries == [kid : Kids, provider : Providers, expires : Nat]

\* A cache within its size that has each kid once.
CacheOK(c) ==
    /\ c \in Seq(Entries) /\ Len(c) <= MaxSize
    /\ \A i, j \in 1..Len(c) : c[i].kid = c[j].kid => i = j

\* Every entry of d is one of c.
Drawn(d, c) == \A i \in 1..Len(d) : \E l \in 1..Len(c) : d[i] = c[l]

LEMMA OnlyKeeps ==
    ASSUME NEW c, CacheOK(c), NEW keep
    PROVE  /\ CacheOK(Only(c, keep)) /\ Drawn(Only(c, keep), c)
           /\ Len(Only(c, keep)) \in Nat /\ Len(Only(c, keep)) <= Len(c)
           /\ \A i \in 1..Len(Only(c, keep)) : Only(c, keep)[i] \in keep
           /\ \A l \in 1..Len(c) : c[l] \notin keep => Len(Only(c, keep)) < Len(c)
<1> DEFINE r == Only(c, keep)
<1>1. c \in Seq(Entries) /\ MaxSize \in Nat
  BY JWKSAssumption DEF CacheOK
<1>2. r \in Seq(Entries) /\ \E g : Selects(r, c, Len(c), keep, g)
  BY <1>1, OnlySelects
<1> HIDE DEF r
<1>3. PICK g : Selects(r, c, Len(c), keep, g)
  BY <1>2
<1>4. /\ Len(r) <= Len(c)
      /\ \A l \in 1..Len(c) : c[l] \notin keep => Len(r) < Len(c)
  BY <1>1, <1>2, <1>3, SelectionShorter
<1>5. Len(r) \in Nat /\ Len(c) \in Nat
  BY <1>1, <1>2
<1>6. /\ \A i \in 1..Len(r) : g[i] \in 1..Len(c) /\ r[i] = c[g[i]] /\ r[i] \in keep
      /\ \A i, j \in 1..Len(r) : i < j => g[i] < g[j]
  BY <1>3 DEF Selects
<1>7. ASSUME NEW i \in 1..Len(r), NEW j \in 1..Len(r), r[i].kid = r[j].kid
      PROVE  i = j
  <2>1. g[i] = g[j]
    BY <1>6, <1>7 DEF CacheOK
  <2>2. g[i] \in Nat /\ g[j] \in Nat
    BY <1>5, <1>6
  <2>3. ~(i < j) /\ ~(j < i)
    BY <1>6, <2>1, <2>2
  <2> QED BY <1>5, <2>3
<1>8. CacheOK(r)
  BY <1>1, <1>2, <1>4, <1>5, <1>7 DEF CacheOK
<1>9. Drawn(r, c)
  BY <1>6 DEF Drawn
<1> QED BY <1>4, <1>5, <1>6, <1>8, <1>9 DEF r

\* What __setitem__ does to the cache: the new entry is the last, and the others
\* are old ones of other kids.
Stored(d, c, k, p) ==
    /\ Len(d) \in Nat \ {0} /\ d[Len(d)] = NewEntry(k, p)
    /\ \A i \in 1..(Len(d) - 1) :
          d[i].kid # k /\ \E l \in 1..Len(c) : d[i] = c[l]

LEMMA NewEntryType ==
    ASSUME now \in Nat, NEW k \in Kids, NEW p \in Providers
    PROVE  /\ NewEntry(k, p) \in Entries
           /\ NewEntry(k, p).kid = k /\ NewEntry(k, p).provider = p
           /\ NewEntry(k, p).expires = now + TTL
  BY JWKSAssumption DEF NewEntry, Entries

\* An entry put behind a cache that has room for it and none of its kid.
LEMMA AppendEntry ==
    ASSUME NEW c, CacheOK(c), Len(c) < MaxSize, NEW e \in Entries,
           \A i \in 1..Len(c) : c[i].kid # e.kid
    PROVE  /\ CacheOK(Append(c, e)) /\ Len(Append(c, e)) = Len(c) + 1
           /\ Len(c) \in Nat
           /\ Append(c, e)[Len(c) + 1] = e
           /\ \A i \in 1..Len(c) : Append(c, e)[i] = c[i]
<1> DEFINE n == Len(c)
           d == Append(c, e)
<1>1. c \in Seq(Entries) /\ n \in Nat /\ MaxSize \in Nat
  BY JWKSAssumption DEF CacheOK
<1>2. /\ d \in Seq(Entries) /\ Len(d) = n + 1 /\ d[n + 1] = e
      /\ \A i \in 1..n : d[i] = c[i]
  BY <1>1
<1>3. Len(d) <= MaxSize
  BY <1>1, <1>2
<1> HIDE DEF n, d
<1>4. ASSUME NEW i \in 1..(n + 1), NEW j \in 1..(n + 1), d[i].kid = d[j].kid
      PROVE  i = j
  <2>1. i \in 1..n \/ i = n + 1
    BY <1>1
  <2>2. j \in 1..n \/ j = n + 1
    BY <1>1
  <2>3. CASE i \in 1..n /\ j \in 1..n
    BY <1>2, <1>4, <2>3 DEF CacheOK, n
  <2>4. CASE i \in 1..n /\ j = n + 1
    BY <1>2, <1>4, <2>4 DEF n
  <2>5. CASE i = n + 1 /\ j \in 1..n
    BY <1>2, <1>4, <2>5 DEF n
  <2> QED BY <2>1, <2>2, <2>3, <2>4, <2>5
<1>5. CacheOK(d)
  BY <1>2, <1>3, <1>4 DEF CacheOK
<1> QED BY <1>1, <1>2, <1>5 DEF n, d

\* The entries that are still there when a new one is stored.
Unexpired(c, k) == {e \in Range(c) : e.kid # k /\ now < e.expires}

\* What room is made for the new entry.
Room(c, k) ==
    IF Len(Only(c, Unexpired(c, k))) < MaxSize
    THEN Only(c, Unexpired(c, k)) ELSE Tail(Only(c, Unexpired(c, k)))

LEMMA RoomMade ==
    ASSUME NEW c, CacheOK(c), NEW k
    PROVE  /\ CacheOK(Room(c, k)) /\ Len(Room(c, k)) < MaxSize
           /\ Drawn(Room(c, k), c)
           /\ \A i \in 1..Len(Room(c, k)) : Room(c, k)[i].kid # k
<1> DEFINE keep == Unexpired(c, k)
           r == Only(c, keep)
<1>1. /\ CacheOK(r) /\ Drawn(r, c) /\ Len(r) \in Nat /\ Len(r) <= Len(c)
      /\ \A i \in 1..Len(r) : r[i] \in keep
  BY OnlyKeeps
<1>2. \A i \in 1..Len(r) : r[i].kid # k
  BY <1>1 DEF Unexpired
<1>3. Room(c, k) = IF Len(r) < MaxSize THEN r ELSE Tail(r)
  BY DEF Room
<1>4. MaxSize \in Nat /\ MaxSize # 0
  BY JWKSAssumption
<1>5. Len(c) \in Nat /\ Len(c) <= MaxSize
  BY DEF CacheOK
<1> HIDE DEF r
<1>6. CASE Len(r) < MaxSize
  BY <1>1, <1>2, <1>3, <1>6
<1>7. CASE ~(Len(r) < MaxSize)
  <2> DEFINE q == Tail(r)
  <2>1. Len(r) = MaxSize /\ r # <<>> /\ r \in Seq(Entries)
    BY <1>1, <1>4, <1>5, <1>7 DEF CacheOK
  <2>2. /\ q \in Seq(Entries) /\ Len(q) = MaxSize - 1
        /\ \A i \in 1..Len(q) : i + 1 \in 1..Len(r) /\ q[i] = r[i + 1]
    BY <1>4, <2>1
  <2> HIDE DEF q
  <2>3. Len(q) \in Nat /\ Len(q) < MaxSize /\ Len(q) <= MaxSize
    BY <1>4, <2>2
  <2>4. ASSUME NEW i \in 1..Len(q), NEW j \in 1..Len(q), q[i].kid = q[j].kid
        PROVE  i = j
    <3>1. i + 1 = j + 1
      BY <1>1, <2>2, <2>4 DEF CacheOK
    <3> QED BY <2>3, <3>1
  <2>5. CacheOK(q)
    BY <2>2, <2>3, <2>4 DEF CacheOK
  <2>6. Drawn(q, c)
    BY <1>1, <2>2 DEF Drawn
  <2>7. \A i \in 1..Len(q) : q[i].kid # k
    BY <1>2, <2>2
  <2> QED BY <1>3, <1>7, <2>3, <2>5, <2>6, <2>7 DEF q
<1> QED BY <1>6, <1>7

LEMMA StoreEffect ==
    ASSUME now \in Nat, NEW c, CacheOK(c), NEW k \in Kids, NEW p \in Providers
    PROVE  CacheOK(Store(c, k, p)) /\ Stored(Store(c, k, p), c, k, p)
<1> DEFINE q == Room(c, k)
           e == NewEntry(k, p)
<1>1. Store(c, k, p) = Append(q, e)
  BY DEF Store, Room, Unexpired
<1>2. /\ CacheOK(q) /\ Len(q) < MaxSize /\ Drawn(q, c)
      /\ \A i \in 1..Len(q) : q[i].kid # k
  BY RoomMade
<1>3. e \in Entries /\ e.kid = k
  BY NewEntryType
<1> HIDE DEF q, e
<1>4. /\ CacheOK(Append(q, e)) /\ Len(Append(q, e)) = Len(q) + 1 /\ Len(q) \in Nat
      /\ Append(q, e)[Len(q) + 1] = e
      /\ \A i \in 1..Len(q) : Append(q, e)[i] = q[i]
  BY <1>2, <1>3, AppendEntry
<1> DEFINE d == Append(q, e)
<1>5. Len(d) = Len(q) + 1 /\ Len(d) - 1 = Len(q) /\ Len(d) \in Nat \ {0}
  BY <1>4
<1> HIDE DEF d
<1>6. Stored(d, c, k, p)
  BY <1>2, <1>4, <1>5 DEF Stored, Drawn, d, e
<1> QED BY <1>1, <1>4, <1>6 DEF d

\* What __getitem__ does: the same entries, in another order.
LEMMA UseEffect ==
    ASSUME now \in Nat, NEW c, CacheOK(c), NEW k, Live(c, k)
    PROVE  /\ CacheOK(Use(c, k)) /\ Drawn(Use(c, k), c)
           /\ Live(Use(c, k), k)
<1> DEFINE keep == {x \in Range(c) : x.kid # k}
           r == Only(c, keep)
           e == Entry(c, k)
           d == Append(r, e)
<1>1. Use(c, k) = d
  BY DEF Use, Without
<1>2. PICK l \in 1..Len(c) : c[l].kid = k /\ now < c[l].expires
  BY DEF Live, CacheOK
<1>3. e = c[l]
  <2>1. DOMAIN c = 1..Len(c)
    BY DEF CacheOK
  <2>2. \A i \in 1..Len(c) : c[i].kid = k => i = l
    BY <1>2 DEF CacheOK
  <2> QED BY <1>2, <2>1, <2>2 DEF Entry
<1>4. c[l] \in Entries /\ c[l] \notin keep /\ Len(c) \in Nat /\ MaxSize \in Nat
  BY <1>2, JWKSAssumption DEF CacheOK
<1>5. /\ CacheOK(r) /\ Drawn(r, c) /\ Len(r) \in Nat /\ Len(r) < Len(c)
      /\ \A i \in 1..Len(r) : r[i] \in keep
  BY <1>4, OnlyKeeps
<1>6. Len(r) < MaxSize /\ \A i \in 1..Len(r) : r[i].kid # e.kid
  BY <1>2, <1>3, <1>4, <1>5 DEF CacheOK
<1> HIDE DEF r, e
<1>7. /\ CacheOK(d) /\ Len(d) = Len(r) + 1 /\ d[Len(r) + 1] = e
      /\ \A i \in 1..Len(r) : d[i] = r[i]
  BY <1>3, <1>4, <1>5, <1>6, AppendEntry
<1> HIDE DEF d
<1>8. Drawn(d, c)
  <2>1. \A i \in 1..Len(d) : i \in 1..Len(r) \/ i = Len(r) + 1
    BY <1>5, <1>7
  <2> QED BY <1>3, <1>5, <1>7, <2>1 DEF Drawn
<1>9. Live(d, k)
  <2>1. DOMAIN d = 1..Len(d) /\ Len(r) + 1 \in 1..Len(d)
    BY <1>5, <1>7 DEF CacheOK
  <2> QED BY <1>2, <1>3, <1>7, <2>1 DEF Live
<1> QED BY <1>1, <1>7, <1>8, <1>9

-----------------------------------------------------------------------------
(* populate().                                                              *)

Metas == [Names -> Providers \cup {None}]

\* p is recorded for k, or a provider that has k as its audience.
Recorded(m, k, p) == m[k] = p \/ (m[k] \in Providers /\ Audience[m[k]] = k)

\* The provider recorded for a cached kid is the one the key is from, or has the
\* kid as its audience.
Agree(c, m) == \A i \in 1..Len(c) : Recorded(m, c[i].kid, c[i].provider)

\* The caches and dictionaries that belong together.
Pairs == {x \in Seq(Entries) \X Metas : CacheOK(x[1]) /\ Agree(x[1], x[2])}

LEMMA PutEffect ==
    ASSUME now \in Nat, NEW x \in Pairs, NEW k \in Kids, NEW p \in Providers
    PROVE  /\ Put(x[1], x[2], k, p) \in Pairs
           /\ Put(x[1], x[2], k, p)[1] = Store(x[1], k, p)
<1> DEFINE c == x[1]
           m == x[2]
           d == Store(c, k, p)
           w == [m EXCEPT ![k] = p]
<1>1. CacheOK(c) /\ m \in Metas /\ Agree(c, m)
  BY DEF Pairs
<1>2. CacheOK(d) /\ Stored(d, c, k, p)
  BY <1>1, StoreEffect
<1>3. w \in Metas /\ w[k] = p /\ \A j \in Kids : j # k => w[j] = m[j]
  BY <1>1 DEF Metas, Names
<1>4. NewEntry(k, p).kid = k /\ NewEntry(k, p).provider = p
  BY NewEntryType
<1>5. Put(c, m, k, p) = <<d, w>>
  BY DEF Put
<1> HIDE DEF c, m, d, w
<1>6. ASSUME NEW i \in 1..Len(d) PROVE Recorded(w, d[i].kid, d[i].provider)
  <2>1. Len(d) \in Nat
    BY <1>2 DEF Stored
  <2>2. CASE i = Len(d)
    BY <1>2, <1>3, <1>4, <2>2 DEF Stored, Recorded
  <2>3. CASE i # Len(d)
    <3>1. i \in 1..(Len(d) - 1)
      BY <2>1, <2>3
    <3>2. PICK l \in 1..Len(c) : d[i] = c[l]
      BY <1>2, <3>1 DEF Stored
    <3>3. d[i].kid # k
      BY <1>2, <3>1 DEF Stored
    <3>4. c[l].kid \in Kids
      <4>1. c[l] \in Entries
        BY <1>1 DEF CacheOK
      <4> QED BY <4>1 DEF Entries
    <3> QED BY <1>1, <1>3, <3>2, <3>3, <3>4 DEF Agree, Recorded
  <2> QED BY <2>2, <2>3
<1>7. <<d, w>> \in Pairs
  BY <1>2, <1>3, <1>6 DEF Pairs, Agree, CacheOK
<1> QED BY <1>5, <1>7 DEF c, m, d

\* Entering a provider under its audience: the kid it is entered under, if it is
\* one, is excused.
LEMMA AnnounceEffect ==
    ASSUME NEW x \in Pairs, NEW p \in Providers
    PROVE  Announce(x[1], x[2], p) \in Pairs /\ Announce(x[1], x[2], p)[1] = x[1]
<1> DEFINE c == x[1]
           m == x[2]
           w == [m EXCEPT ![Audience[p]] = p]
<1>1. CacheOK(c) /\ m \in Metas /\ Agree(c, m)
  BY DEF Pairs
<1>2. w \in Metas /\ \A n \in Names : w[n] = IF n = Audience[p] THEN p ELSE m[n]
  BY <1>1 DEF Metas, Names
<1>3. Announce(c, m, p) = <<c, w>>
  BY DEF Announce
<1> HIDE DEF c, m, w
<1>4. ASSUME NEW i \in 1..Len(c) PROVE Recorded(w, c[i].kid, c[i].provider)
  <2>1. c[i] \in Entries
    BY <1>1 DEF CacheOK
  <2>2. c[i].kid \in Names
    BY <2>1 DEF Entries, Names
  <2>3. Recorded(m, c[i].kid, c[i].provider)
    BY <1>1 DEF Agree
  <2> QED BY <1>2, <2>2, <2>3 DEF Recorded
<1>5. <<c, w>> \in Pairs
  BY <1>1, <1>2, <1>4 DEF Pairs, Agree, CacheOK
<1> QED BY <1>3, <1>5 DEF c, m

\* s has a step for every provider and key.
Covers(s) ==
    /\ Len(s) \in Nat
    /\ \A i \in 1..Len(s) : s[i].provider \in Providers /\ s[i].kid \in Kids \cup {None}
    /\ \A p \in Providers : \A k \in Kids :
          \E i \in 1..Len(s) : s[i].provider = p /\ s[i].kid = k

LEMMA ListingsCover ==
    ASSUME NEW s \in Listings
    PROVE  Covers(s)
<1> DEFINE P == 1..Len(ProviderList)
           K == Kids \cup {None}
           steps == P \X K
           n == Cardinality(steps)
           Step(x) == [provider |-> ProviderList[x[1]], kid |-> x[2]]
<1>1. /\ ProviderList \in Seq(Providers) /\ Len(ProviderList) \in Nat
      /\ DOMAIN ProviderList = P
  BY JWKSAssumption
<1>2. n \in Nat
  <2>1. IsFiniteSet(P)
    BY <1>1, FS_Interval
  <2>2. IsFiniteSet(K)
    BY JWKSAssumption, FS_AddElement
  <2> HIDE DEF P, K
  <2>3. IsFiniteSet(steps)
    BY <2>1, <2>2, FS_Product
  <2> HIDE DEF steps
  <2> QED BY <2>3, FS_CardinalityType
<1>3. PICK o \in [1..n -> steps] :
         Range(o) = steps /\ s = [i \in DOMAIN o |-> Step(o[i])]
  BY <1>1 DEF Listings
<1> HIDE DEF n, steps, Step
<1>4. DOMAIN s = 1..n /\ Len(s) = n /\ \A i \in 1..n : s[i] = Step(o[i])
  BY <1>2, <1>3
<1>5. ASSUME NEW i \in 1..n
      PROVE  s[i].provider \in Providers /\ s[i].kid \in Kids \cup {None}
  <2>1. o[i] \in steps
    BY <1>3
  <2>2. o[i][1] \in P /\ o[i][2] \in Kids \cup {None}
    BY <2>1 DEF steps
  <2> QED BY <1>1, <1>4, <2>2 DEF Step, Providers
<1>6. ASSUME NEW p \in Providers, NEW k \in Kids
      PROVE  \E i \in 1..n : s[i].provider = p /\ s[i].kid = k
  <2>1. PICK q \in P : p = ProviderList[q]
    BY <1>1 DEF Providers
  <2>2. <<q, k>> \in steps
    BY DEF steps
  <2>3. PICK i \in DOMAIN o : o[i] = <<q, k>>
    BY <1>3, <2>2 DEF Range
  <2>4. i \in 1..n
    BY <1>3
  <2> QED BY <1>4, <2>1, <2>3, <2>4 DEF Step
<1> QED BY <1>2, <1>4, <1>5, <1>6 DEF Covers

\* The i-th step of populate().
Turn(y, s, keys, i) ==
    IF \E j \in 1..i : Raises(s[j], keys) THEN y
    ELSE IF s[i].kid = None THEN Announce(y[1], y[2], s[i].provider)
    ELSE IF Listed(s[i], keys) THEN Put(y[1], y[2], s[i].kid, s[i].provider)
    ELSE y

\* It stores a key of its answer, or leaves the cache.
LEMMA TurnEffect ==
    ASSUME now \in Nat, NEW y \in Pairs, NEW s, NEW keys, Covers(s), NEW i \in 1..Len(s)
    PROVE  /\ Turn(y, s, keys, i) \in Pairs
           /\ \/ Turn(y, s, keys, i)[1] = y[1]
              \/ /\ s[i].kid \in Kids /\ s[i].provider \in Providers
                 /\ s[i].kid \in keys[s[i].provider]
                 /\ Turn(y, s, keys, i)[1] = Store(y[1], s[i].kid, s[i].provider)
           /\ (Listed(s[i], keys) /\ ~\E j \in 1..i : Raises(s[j], keys))
              => Turn(y, s, keys, i)[1] = Store(y[1], s[i].kid, s[i].provider)
<1> DEFINE p == s[i].provider
           k == s[i].kid
           stopped == \E j \in 1..i : Raises(s[j], keys)
<1>1. p \in Providers /\ k \in Kids \cup {None}
  BY DEF Covers
<1> HIDE DEF stopped
<1>2. CASE stopped \/ (k # None /\ ~Listed(s[i], keys))
  <2>1. Turn(y, s, keys, i) = y
    BY <1>2, JWKSAssumption DEF Turn, stopped
  <2> QED BY <1>2, <2>1 DEF stopped
<1>3. CASE ~stopped /\ k = None
  <2>1. Turn(y, s, keys, i) = Announce(y[1], y[2], p) /\ ~Listed(s[i], keys)
    BY <1>3 DEF Turn, stopped, Listed
  <2> QED BY <1>1, <2>1, AnnounceEffect
<1>4. CASE ~stopped /\ k # None /\ Listed(s[i], keys)
  <2>1. Turn(y, s, keys, i) = Put(y[1], y[2], k, p) /\ k \in Kids /\ k \in keys[p]
    BY <1>1, <1>4 DEF Turn, stopped, Listed
  <2> QED BY <1>1, <2>1, PutEffect
<1> QED BY <1>2, <1>3, <1>4

\* d is c, or c with the key of step x.
Adds(d, c, x, keys) ==
    \/ d = c
    \/ /\ x.kid \in Kids /\ x.provider \in Providers /\ x.kid \in keys[x.provider]
       /\ d = Store(c, x.kid, x.provider)

LEMMA TurnAdds ==
    ASSUME now \in Nat, NEW y \in Pairs, NEW s, NEW keys, Covers(s), NEW i \in 1..Len(s)
    PROVE  Adds(Turn(y, s, keys, i)[1], y[1], s[i], keys)
  BY TurnEffect DEF Adds

\* What populate() has after each of its steps.
PopulationRun(f, s, keys) ==
    /\ f \in [0..Len(s) -> Pairs] /\ f[0] = <<cache, metadata>>
    /\ \A i \in 1..Len(s) : f[i] = Turn(f[i - 1], s, keys, i)
    /\ Populated(s, keys) = f[Len(s)]

LEMMA PopulationRuns ==
    ASSUME now \in Nat, <<cache, metadata>> \in Pairs, NEW s, NEW keys, Covers(s)
    PROVE  \E f : PopulationRun(f, s, keys)
<1> DEFINE n == Len(s)
           start == <<cache, metadata>>
           step == [i \in 1..n |-> [y \in Pairs |-> Turn(y, s, keys, i)]]
           Is(f) == f = [i \in 0..n |-> IF i = 0 THEN <<cache, metadata>>
                                        ELSE Turn(f[i - 1], s, keys, i)]
           after == CHOOSE f : Is(f)
<1>1. n \in Nat /\ start \in Pairs /\ step \in [1..n -> [Pairs -> Pairs]]
  <2>1. \A i \in 1..n : \A y \in Pairs : Turn(y, s, keys, i) \in Pairs
    BY TurnEffect
  <2> QED BY <2>1 DEF Covers
<1>2. PICK f \in [0..n -> Pairs] : f[0] = start /\ \A i \in 1..n : f[i] = step[i][f[i - 1]]
  <2> HIDE DEF n, step, start
  <2>1. \E f \in [0..n -> Pairs] : IsRun(f, n, start, step)
    BY <1>1, LoopRuns
  <2> QED BY <2>1 DEF IsRun
<1>3. \A i \in 1..n : f[i - 1] \in Pairs /\ f[i] = Turn(f[i - 1], s, keys, i)
  <2> HIDE DEF n
  <2> SUFFICES ASSUME NEW i \in 1..n
               PROVE  f[i - 1] \in Pairs /\ f[i] = Turn(f[i - 1], s, keys, i)
    OBVIOUS
  <2>1. i - 1 \in 0..n
    BY <1>1
  <2>2. f[i - 1] \in Pairs
    BY <1>2, <2>1
  <2> QED BY <1>2, <2>2
<1>4. Is(f)
  <2> HIDE DEF n, step
  <2>1. \A i \in 0..n : i = 0 \/ i \in 1..n
    BY <1>1
  <2>2. f = [i \in 0..n |-> f[i]]
    BY <1>2
  <2>3. \A i \in 0..n : f[i] = IF i = 0 THEN <<cache, metadata>>
                               ELSE Turn(f[i - 1], s, keys, i)
    BY <1>2, <1>3, <2>1
  <2> QED BY <2>2, <2>3
<1>5. ASSUME NEW g, Is(g) PROVE g = f
  <2> HIDE DEF n, step
  <2>1. g[0] = f[0]
    <3>1. 0 \in 0..n
      BY <1>1
    <3> QED BY <1>2, <1>5, <3>1
  <2> DEFINE T == {i \in Nat : i <= n => g[i] = f[i]}
  <2>2. 0 \in T
    BY <2>1
  <2>3. ASSUME NEW i \in Nat, i \in T PROVE i + 1 \in T
    <3> SUFFICES ASSUME i + 1 <= n PROVE g[i + 1] = f[i + 1]
      OBVIOUS
    <3>1. g[i] = f[i] /\ i + 1 \in 0..n /\ i + 1 \in 1..n /\ (i + 1) - 1 = i /\ i + 1 # 0
      BY <1>1, <2>3
    <3>2. g[i + 1] = Turn(g[i], s, keys, i + 1)
      BY <1>5, <3>1
    <3>3. f[i + 1] = Turn(f[i], s, keys, i + 1)
      BY <1>4, <3>1
    <3> QED BY <3>1, <3>2, <3>3
  <2> HIDE DEF T
  <2>4. Nat \subseteq T
    BY <2>2, <2>3, SetInduction
  <2>5. \A i \in 0..n : g[i] = f[i]
    BY <1>1, <2>4 DEF T
  <2>6. g = [i \in 0..n |-> g[i]]
    BY <1>5
  <2>7. f = [i \in 0..n |-> f[i]]
    BY <1>2
  <2> QED BY <2>5, <2>6, <2>7
<1>6. after = f
  <2> HIDE DEF Is
  <2> QED BY <1>4, <1>5
<1>7. Populated(s, keys) = after[n]
  BY DEF Populated, Turn
<1> HIDE DEF after
<1>8. PopulationRun(f, s, keys)
  <2> HIDE DEF step
  <2> QED BY <1>2, <1>3, <1>6, <1>7 DEF PopulationRun
<1> QED BY <1>8

\* Every entry of c was in the cache, or is a key of the listing.
Supplied(c, keys) ==
    \A i \in 1..Len(c) :
        \/ \E l \in 1..Len(cache) : c[i] = cache[l]
        \/ \E p \in Providers : \E k \in Kids :
              k \in keys[p] /\ c[i] = NewEntry(k, p)

LEMMA StoreSupplied ==
    ASSUME now \in Nat, NEW keys, NEW c, CacheOK(c), Supplied(c, keys),
           NEW p \in Providers, NEW k \in Kids, k \in keys[p]
    PROVE  Supplied(Store(c, k, p), keys)
<1> DEFINE d == Store(c, k, p)
<1>1. Stored(d, c, k, p)
  BY StoreEffect
<1> HIDE DEF d
<1>2. Len(d) \in Nat \ {0} /\ d[Len(d)] = NewEntry(k, p)
  BY <1>1 DEF Stored
<1> SUFFICES ASSUME NEW i \in 1..Len(d)
             PROVE  \/ \E l \in 1..Len(cache) : d[i] = cache[l]
                    \/ \E q \in Providers : \E j \in Kids :
                          j \in keys[q] /\ d[i] = NewEntry(j, q)
  BY DEF Supplied, d
<1>3. CASE i = Len(d)
  BY <1>2, <1>3
<1>4. CASE i # Len(d)
  <2>1. i \in 1..(Len(d) - 1)
    BY <1>2, <1>4
  <2>2. PICK l \in 1..Len(c) : d[i] = c[l]
    BY <1>1, <2>1 DEF Stored
  <2> QED BY <2>2 DEF Supplied
<1> QED BY <1>3, <1>4

\* What populate() leaves belongs together and has no key from anywhere else.
LEMMA PopulatedSupplied ==
    ASSUME now \in Nat, <<cache, metadata>> \in Pairs, NEW s, NEW keys, Covers(s)
    PROVE  Populated(s, keys) \in Pairs /\ Supplied(Populated(s, keys)[1], keys)
<1>1. PICK f : PopulationRun(f, s, keys)
  BY PopulationRuns
<1> DEFINE n == Len(s)
           T == {i \in Nat : i <= n => Supplied(f[i][1], keys)}
<1>2. n \in Nat /\ \A i \in 0..n : f[i] \in Pairs
  BY <1>1 DEF Covers, PopulationRun
<1>3. 0 \in T
  <2>1. f[0][1] = cache
    BY <1>1 DEF PopulationRun
  <2>2. Supplied(cache, keys)
    BY DEF Supplied
  <2> QED BY <2>1, <2>2
<1>4. ASSUME NEW i \in Nat, i \in T PROVE i + 1 \in T
  <2> SUFFICES ASSUME i + 1 <= n PROVE Supplied(f[i + 1][1], keys)
    OBVIOUS
  <2> DEFINE c == f[i][1]
             k == s[i + 1].kid
             p == s[i + 1].provider
  <2>1. i + 1 \in 1..n /\ (i + 1) - 1 = i /\ f[i] \in Pairs /\ Supplied(c, keys)
    BY <1>2, <1>4
  <2>2. f[i + 1] = Turn(f[i], s, keys, i + 1)
    <3>1. f[i + 1] = Turn(f[(i + 1) - 1], s, keys, i + 1)
      BY <1>1, <2>1 DEF PopulationRun
    <3> QED BY <2>1, <3>1
  <2>3. CacheOK(c)
    BY <2>1 DEF Pairs
  <2>4. \/ f[i + 1][1] = c
        \/ k \in Kids /\ p \in Providers /\ k \in keys[p] /\ f[i + 1][1] = Store(c, k, p)
    <3>1. PICK l \in 1..n : l = i + 1
      BY <2>1
    <3>2. PICK y \in Pairs : y = f[i]
      BY <2>1
    <3>3. f[l] = Turn(y, s, keys, l)
      BY <2>2, <3>1, <3>2
    <3>4. Adds(Turn(y, s, keys, l)[1], y[1], s[l], keys)
      BY TurnAdds
    <3>5. Adds(f[i + 1][1], c, s[i + 1], keys)
      BY <3>1, <3>2, <3>3, <3>4
    <3> QED BY <3>5 DEF Adds
  <2> HIDE DEF c, k, p
  <2> QED BY <2>1, <2>3, <2>4, StoreSupplied
<1> HIDE DEF T
<1>5. n \in T
  BY <1>2, <1>3, <1>4, SetInduction
<1>6. Supplied(f[n][1], keys) /\ f[n] \in Pairs
  BY <1>2, <1>5 DEF T
<1> QED BY <1>1, <1>6 DEF PopulationRun

\* k can be used, and all that was used after it is in U.
Recent(c, k, U) ==
    \E j \in 1..Len(c) :
        /\ c[j].kid = k /\ now < c[j].expires
        /\ \A i \in 1..Len(c) : j < i => c[i].kid \in U

\* A key just stored can be used.
LEMMA StoreRecent ==
    ASSUME now \in Nat, NEW U, NEW c, CacheOK(c), NEW k \in Kids, NEW p \in Providers
    PROVE  Recent(Store(c, k, p), k, U)
<1> DEFINE d == Store(c, k, p)
<1>1. Stored(d, c, k, p)
  BY StoreEffect
<1>2. /\ NewEntry(k, p).kid = k /\ NewEntry(k, p).expires = now + TTL
      /\ TTL \in Nat \ {0}
  BY NewEntryType, JWKSAssumption
<1> HIDE DEF d
<1>3. Len(d) \in 1..Len(d) /\ \A i \in 1..Len(d) : ~(Len(d) < i)
  BY <1>1 DEF Stored
<1>4. d[Len(d)].kid = k /\ now < d[Len(d)].expires
  BY <1>1, <1>2 DEF Stored
<1> QED BY <1>3, <1>4 DEF Recent, d

\* Storing one of the kids in U does not throw out another one of them that is
\* recent: all entries behind it are in U, and U fits into the cache.
LEMMA StoreKeepsRecent ==
    ASSUME now \in Nat, NEW U, IsFiniteSet(U), Cardinality(U) <= MaxSize,
           NEW c, CacheOK(c), NEW k \in Kids, k \in U, NEW p \in Providers,
           NEW kid \in U, kid # k, Recent(c, kid, U)
    PROVE  Recent(Store(c, k, p), kid, U)
<1> DEFINE keep == Unexpired(c, k)
           r == Only(c, keep)
           q == Room(c, k)
           e == NewEntry(k, p)
           m == Len(r)
<1>1. PICK j \in 1..Len(c) :
         /\ c[j].kid = kid /\ now < c[j].expires
         /\ \A i \in 1..Len(c) : j < i => c[i].kid \in U
  BY DEF Recent
<1>2. c \in Seq(Entries) /\ Len(c) \in Nat /\ MaxSize \in Nat /\ MaxSize # 0
  BY JWKSAssumption DEF CacheOK
<1>3. PICK g : Selects(r, c, Len(c), keep, g)
  BY <1>2, OnlySelects
<1>4. CacheOK(r) /\ m \in Nat /\ \A i \in 1..m : r[i] \in keep
  BY OnlyKeeps
<1>5. c[j] \in keep
  BY <1>1, <1>2 DEF Unexpired, Range
<1> HIDE DEF r, m, q, e
<1>6. /\ \A i \in 1..m : g[i] \in 1..Len(c) /\ r[i] = c[g[i]]
      /\ \A i, l \in 1..m : i < l => g[i] < g[l]
      /\ \E i \in 1..m : g[i] = j
  BY <1>3, <1>5 DEF Selects, m
<1>7. PICK x \in 1..m : g[x] = j
  BY <1>6
<1>8. /\ r[x].kid = kid /\ now < r[x].expires
      /\ \A i \in 1..m : x < i => r[i].kid \in U
  BY <1>1, <1>6, <1>7
<1>9. \A i \in 1..m : r[i].kid # k
  BY <1>4 DEF Unexpired
<1>10. q = IF m < MaxSize THEN r ELSE Tail(r)
  BY DEF q, Room, m, r
<1>11. Recent(q, kid, U)
  <2>1. CASE m < MaxSize
    BY <1>8, <1>10, <2>1 DEF Recent, m
  <2>2. CASE ~(m < MaxSize)
    <3>1. x # 1
      <4> SUFFICES ASSUME x = 1 PROVE FALSE
        OBVIOUS
      <4> DEFINE h == [i \in 1..m |-> r[i].kid]
                 W == U \ {k}
      <4>1. \A i \in 1..m : r[i].kid \in W
        <5> SUFFICES ASSUME NEW i \in 1..m PROVE r[i].kid \in U
          BY <1>9
        <5>1. CASE i = 1
          BY <1>8, <5>1
        <5>2. CASE i # 1
          BY <1>4, <1>8, <5>2
        <5> QED BY <5>1, <5>2
      <4>2. \A i, l \in 1..m : r[i].kid = r[l].kid => i = l
        BY <1>4 DEF CacheOK, m
      <4>3. h \in Injection(1..m, W)
        BY <4>1, <4>2 DEF Injection, IsInjective
      <4>4. IsFiniteSet(W) /\ Cardinality(W) = Cardinality(U) - 1 /\ Cardinality(U) \in Nat
        BY FS_RemoveElement, FS_CardinalityType
      <4>5. Cardinality(1..m) = m
        <5>1. Cardinality(1..m) = IF 1 > m THEN 0 ELSE (m - 1) + 1
          BY <1>4, FS_Interval
        <5> QED BY <1>4, <5>1
      <4> HIDE DEF h, W
      <4>6. m <= Cardinality(W)
        BY <4>3, <4>4, <4>5, FS_Injection
      <4> QED BY <1>2, <1>4, <2>2, <4>4, <4>6
    <3>2. r \in Seq(Entries) /\ r # <<>> /\ Len(r) = m
      BY <1>2, <1>4, <2>2 DEF CacheOK, m
    <3>3. /\ Len(q) = m - 1
          /\ \A i \in 1..Len(q) : q[i] = r[i + 1]
      BY <1>10, <2>2, <3>2
    <3>4. x - 1 \in 1..Len(q) /\ q[x - 1] = r[x]
      BY <1>4, <3>1, <3>3
    <3>5. ASSUME NEW i \in 1..Len(q), x - 1 < i PROVE q[i].kid \in U
      <4>1. i + 1 \in 1..m /\ x < i + 1
        BY <1>4, <3>3, <3>5
      <4> QED BY <1>8, <3>3, <4>1
    <3> QED BY <1>8, <3>4, <3>5 DEF Recent
  <2> QED BY <2>1, <2>2
<1>12. Store(c, k, p) = Append(q, e)
  BY DEF Store, Room, Unexpired, q, e
<1>13. q \in Seq(Entries) /\ e \in Entries /\ e.kid = k /\ Len(q) \in Nat
  BY RoomMade, NewEntryType DEF CacheOK, q, e
<1>14. PICK y \in 1..Len(q) :
         /\ q[y].kid = kid /\ now < q[y].expires
         /\ \A i \in 1..Len(q) : y < i => q[i].kid \in U
  BY <1>11 DEF Recent
<1> DEFINE d == Append(q, e)
<1>15. /\ Len(d) = Len(q) + 1 /\ d[Len(q) + 1] = e
       /\ \A i \in 1..Len(q) : d[i] = q[i]
  BY <1>13
<1> HIDE DEF d
<1>16. \A i \in 1..Len(d) : i \in 1..Len(q) \/ i = Len(q) + 1
  BY <1>13, <1>15
<1>17. y \in 1..Len(d) /\ d[y] = q[y]
  BY <1>13, <1>15
<1>18. \A i \in 1..Len(d) : y < i => d[i].kid \in U
  BY <1>13, <1>14, <1>15, <1>16
<1>19. Recent(d, kid, U)
  BY <1>14, <1>17, <1>18 DEF Recent
<1> QED BY <1>12, <1>19 DEF d

\* All the kids of the key sets.
AllKids(keys) == UNION {keys[p] : p \in Providers}

\* After populate(), every key can be used if the key sets fit and none of the keys
\* raises.
LEMMA PopulatedHas ==
    ASSUME now \in Nat, <<cache, metadata>> \in Pairs, NEW s, NEW keys, Covers(s),
           \A p \in Providers : keys[p] \subseteq Kids, Fits(keys), Readable(keys),
           NEW q \in Providers, NEW kid \in keys[q]
    PROVE  Live(Populated(s, keys)[1], kid)
<1> DEFINE U == AllKids(keys)
           n == Len(s)
<1>1. /\ IsFiniteSet(U) /\ Cardinality(U) <= MaxSize /\ kid \in U /\ kid \in Kids
      /\ n \in Nat
  <2>1. U \in SUBSET Kids /\ kid \in U
    BY DEF AllKids
  <2>2. IsFiniteSet(Kids)
    BY JWKSAssumption
  <2>3. IsFiniteSet(U)
    BY <2>1, <2>2, FS_Subset
  <2> QED BY <2>1, <2>3 DEF Fits, AllKids, Covers
<1>2. PICK f : PopulationRun(f, s, keys)
  BY PopulationRuns
<1>3. \A i \in 0..n : f[i] \in Pairs
  BY <1>2 DEF PopulationRun
<1>4. PICK a \in 1..n : s[a].provider = q /\ s[a].kid = kid
  BY <1>1 DEF Covers
<1>5. Listed(s[a], keys)
  BY <1>1, <1>4, JWKSAssumption DEF Listed
<1>6. ~\E j \in 1..n : Raises(s[j], keys)
  BY DEF Raises, Listed, Readable, Covers
<1> DEFINE T == {i \in Nat : a <= i /\ i <= n => Recent(f[i][1], kid, U)}
<1>7. ASSUME NEW i \in Nat, i + 1 <= n, a <= i => Recent(f[i][1], kid, U), a <= i + 1
      PROVE  Recent(f[i + 1][1], kid, U)
  <2> DEFINE c == f[i][1]
             k == s[i + 1].kid
             p == s[i + 1].provider
             d == f[i + 1][1]
  <2>1. i + 1 \in 1..n /\ (i + 1) - 1 = i /\ i \in 0..n
    BY <1>1, <1>7
  <2>2. f[i] \in Pairs
    BY <1>3, <2>1
  <2>3. f[i + 1] = Turn(f[i], s, keys, i + 1)
    <3>1. f[i + 1] = Turn(f[(i + 1) - 1], s, keys, i + 1)
      BY <1>2, <2>1 DEF PopulationRun
    <3> QED BY <2>1, <3>1
  <2>4. CacheOK(c)
    BY <2>2 DEF Pairs
  <2>5. \A j \in 1..(i + 1) : j \in 1..n
    BY <1>1, <2>1
  <2>6. /\ \/ d = c
           \/ k \in Kids /\ p \in Providers /\ k \in keys[p] /\ d = Store(c, k, p)
        /\ Listed(s[i + 1], keys) => d = Store(c, k, p)
    <3>1. PICK l \in 1..n : l = i + 1
      BY <2>1
    <3>2. PICK y \in Pairs : y = f[i]
      BY <2>2
    <3>3. f[l] = Turn(y, s, keys, l)
      BY <2>3, <3>1, <3>2
    <3>4. ~\E j \in 1..l : Raises(s[j], keys)
      BY <1>6, <2>5, <3>1
    <3>5. /\ \/ Turn(y, s, keys, l)[1] = y[1]
             \/ /\ s[l].kid \in Kids /\ s[l].provider \in Providers
                /\ s[l].kid \in keys[s[l].provider]
                /\ Turn(y, s, keys, l)[1] = Store(y[1], s[l].kid, s[l].provider)
          /\ Listed(s[l], keys)
             => Turn(y, s, keys, l)[1] = Store(y[1], s[l].kid, s[l].provider)
      BY <3>4, TurnEffect
    <3> QED BY <3>1, <3>2, <3>3, <3>5
  <2>7. a = i + 1 \/ a <= i
    BY <1>1, <1>4, <1>7
  <2>8. CASE a = i + 1
    <3>1. k = kid /\ p = q /\ d = Store(c, kid, q)
      BY <1>4, <1>5, <2>6, <2>8
    <3> HIDE DEF c, d, U
    <3> QED BY <1>1, <2>4, <3>1, StoreRecent DEF d
  <2>9. CASE a <= i
    <3>1. Recent(c, kid, U)
      BY <1>7, <2>9
    <3>2. k \in Kids /\ p \in Providers /\ k \in keys[p] => k \in U
      BY DEF AllKids
    <3> HIDE DEF c, d, k, p, U
    <3>3. CASE d = c
      BY <3>1, <3>3 DEF d
    <3>4. CASE k \in Kids /\ p \in Providers /\ k \in keys[p] /\ d = Store(c, k, p)
      <4>1. CASE k = kid
        BY <2>4, <3>4, <4>1, StoreRecent DEF d
      <4>2. CASE k # kid
        BY <1>1, <2>4, <3>1, <3>2, <3>4, <4>2, StoreKeepsRecent DEF d
      <4> QED BY <4>1, <4>2
    <3> QED BY <2>6, <3>3, <3>4
  <2> QED BY <2>7, <2>8, <2>9
<1> HIDE DEF U
<1>8. 0 \in T
  BY <1>1, <1>4
<1>9. \A i \in Nat : i \in T => i + 1 \in T
  BY <1>1, <1>4, <1>7
<1> HIDE DEF T
<1>10. n \in T
  BY <1>1, <1>8, <1>9, SetInduction
<1>11. Recent(f[n][1], kid, U)
  BY <1>1, <1>4, <1>10 DEF T
<1>12. Populated(s, keys)[1] = f[n][1] /\ f[n] \in Pairs
  BY <1>1, <1>2, <1>3 DEF PopulationRun
<1>13. DOMAIN f[n][1] = 1..Len(f[n][1])
  BY <1>12 DEF Pairs
<1> QED BY <1>11, <1>12, <1>13 DEF Recent, Live

-----------------------------------------------------------------------------
(* The invariant of JWKSManager.                                            *)

RequestStates ==
    [pc : {"idle", "fetching"}, kid : Kids \cup {None}, since : Nat,
     seen : [Providers -> (SUBSET Kids) \cup {None}], known : SUBSET Providers]

JWKSTypes ==
    /\ now \in 0..MaxTime
    /\ published \in [Providers -> SUBSET Kids]
    /\ retiredAt \in [Providers -> [Kids -> Nat \cup {None}]]
    /\ <<cache, metadata>> \in Pairs
    /\ req \in [Requests -> RequestStates]

\* A key is published or was retired, in the past.
KeysRetireOnce ==
    \A p \in Providers : \A k \in Kids : retiredAt[p][k] # None =>
        k \notin published[p] /\ retiredAt[p][k] <= now

\* An entry lapses within a TTL, and if its key is retired, within a TTL of the
\* end of the last fetch that could have brought it.
Lapses(e) ==
    /\ e.expires <= now + TTL
    /\ retiredAt[e.provider][e.kid] # None =>
          e.expires <= retiredAt[e.provider][e.kid] + FetchTimeout + TTL

\* A fetch does not outlast its timeout, brings no key that was retired before it
\* began, and brings the key of the token from those who publish it throughout.
FetchIsRecent(r) ==
    req[r].pc = "fetching" =>
        /\ req[r].kid \in Kids
        /\ req[r].since <= now /\ now <= req[r].since + FetchTimeout
        /\ \A p \in Providers : \A k \in Kids :
              (req[r].seen[p] # None /\ k \in req[r].seen[p] /\ retiredAt[p][k] # None)
              => req[r].since <= retiredAt[p][k]
        /\ \A p \in req[r].known :
              /\ req[r].kid \in published[p]
              /\ req[r].seen[p] # None => req[r].kid \in req[r].seen[p]

JWKSInv ==
    /\ JWKSTypes /\ KeysRetireOnce
    /\ \A i \in 1..Len(cache) : Lapses(cache[i])
    /\ \A r \in Requests : FetchIsRecent(r)

LEMMA IdleType == Idle \in RequestStates /\ Idle.pc = "idle"
  BY DEF Idle, RequestStates

\* Entries drawn from others that belong together belong together.
LEMMA DrawnAgree ==
    ASSUME NEW c, NEW d, NEW m \in Metas, CacheOK(d), Drawn(d, c), Agree(c, m)
    PROVE  <<d, m>> \in Pairs
<1>1. Agree(d, m)
  BY DEF Agree, Drawn
<1> QED BY <1>1 DEF Pairs, CacheOK

\* What becomes of the entries when populate() stores keys, none of which was
\* retired more than a fetch ago.
LEMMA PopulateLapses ==
    ASSUME JWKSInv, NEW keys, NEW s \in Listings,
           \A p \in Providers : \A k \in Kids :
               (k \in keys[p] /\ retiredAt[p][k] # None)
               => now <= retiredAt[p][k] + FetchTimeout
    PROVE  /\ Populated(s, keys) \in Pairs
           /\ \A i \in 1..Len(Populated(s, keys)[1]) : Lapses(Populated(s, keys)[1][i])
<1>1. /\ now \in Nat /\ TTL \in Nat /\ FetchTimeout \in Nat /\ MaxTime \in Nat
      /\ <<cache, metadata>> \in Pairs
  BY JWKSAssumption DEF JWKSInv, JWKSTypes
<1>2. Covers(s)
  BY ListingsCover
<1>3. Populated(s, keys) \in Pairs /\ Supplied(Populated(s, keys)[1], keys)
  BY <1>1, <1>2, PopulatedSupplied
<1>4. ASSUME NEW p \in Providers, NEW k \in Kids, k \in keys[p]
      PROVE  Lapses(NewEntry(k, p))
  <2>1. /\ NewEntry(k, p).kid = k /\ NewEntry(k, p).provider = p
        /\ NewEntry(k, p).expires = now + TTL
    BY <1>1, NewEntryType
  <2>2. retiredAt[p][k] \in Nat \cup {None}
    BY DEF JWKSInv, JWKSTypes
  <2>3. retiredAt[p][k] # None => now + TTL <= retiredAt[p][k] + FetchTimeout + TTL
    BY <1>1, <1>4, <2>2
  <2> QED BY <1>1, <2>1, <2>3 DEF Lapses
<1>5. \A l \in 1..Len(cache) : Lapses(cache[l])
  BY DEF JWKSInv
<1> QED BY <1>3, <1>4, <1>5 DEF Supplied

LEMMA JWKSInit == Init => JWKSInv
<1> SUFFICES ASSUME Init PROVE JWKSInv
  OBVIOUS
<1> USE JWKSAssumption DEF Init
<1>1. <<cache, metadata>> \in Pairs
  <2>1. CacheOK(cache)
    BY DEF CacheOK
  <2>2. Agree(cache, metadata) /\ metadata \in Metas
    BY DEF Agree, Metas
  <2> QED BY <2>1, <2>2 DEF Pairs, CacheOK
<1>2. req \in [Requests -> RequestStates] /\ \A r \in Requests : FetchIsRecent(r)
  BY IdleType DEF FetchIsRecent
<1>3. JWKSTypes
  BY <1>1, <1>2 DEF JWKSTypes
<1>4. KeysRetireOnce /\ \A i \in 1..Len(cache) : Lapses(cache[i])
  BY DEF KeysRetireOnce
<1> QED BY <1>2, <1>3, <1>4 DEF JWKSInv

\* The issuers, the clock and the entries stay: steps of one request.
LEMMA RequestStep ==
    ASSUME JWKSInv, NEW r \in Requests, NEW v \in RequestStates,
           req' = [req EXCEPT ![r] = v], FetchIsRecent(r)',
           <<cache', metadata'>> \in Pairs,
           \A i \in 1..Len(cache') : Lapses(cache'[i]),
           UNCHANGED <<now, issuerVars>>
    PROVE  JWKSInv'
<1>1. JWKSTypes'
  BY DEF JWKSInv, JWKSTypes, issuerVars
<1>2. KeysRetireOnce'
  BY DEF JWKSInv, KeysRetireOnce, issuerVars
<1>3. ASSUME NEW i \in 1..Len(cache') PROVE Lapses(cache[i])'
  <2>1. Lapses(cache'[i])
    OBVIOUS
  <2> QED BY <2>1 DEF Lapses, issuerVars
<1>4. ASSUME NEW o \in Requests PROVE FetchIsRecent(o)'
  <2>1. CASE o = r
    BY <2>1
  <2>2. CASE o # r
    <3>1. req'[o] = req[o]
      BY <2>2 DEF JWKSInv, JWKSTypes
    <3> QED BY <3>1 DEF JWKSInv, FetchIsRecent, issuerVars
  <2> QED BY <2>1, <2>2
<1> QED BY <1>1, <1>2, <1>3, <1>4 DEF JWKSInv

\* Steps that only touch the cache.
LEMMA CacheStep ==
    ASSUME JWKSInv, <<cache', metadata'>> \in Pairs,
           \A i \in 1..Len(cache') : Lapses(cache'[i]),
           UNCHANGED <<now, issuerVars, req>>
    PROVE  JWKSInv'
<1>1. JWKSTypes' /\ KeysRetireOnce'
  BY DEF JWKSInv, JWKSTypes, KeysRetireOnce, issuerVars
<1>3. ASSUME NEW i \in 1..Len(cache') PROVE Lapses(cache[i])'
  <2>1. Lapses(cache'[i])
    OBVIOUS
  <2> QED BY <2>1 DEF Lapses, issuerVars
<1>4. \A o \in Requests : FetchIsRecent(o)'
  BY DEF JWKSInv, FetchIsRecent, issuerVars
<1> QED BY <1>1, <1>3, <1>4 DEF JWKSInv

LEMMA StartUpStep == JWKSInv /\ StartUp => JWKSInv'
<1> SUFFICES ASSUME JWKSInv, StartUp PROVE JWKSInv'
  OBVIOUS
<1>1. PICK s \in Listings :
         cache' = Populated(s, published)[1] /\ metadata' = Populated(s, published)[2]
  BY DEF StartUp
<1>2. \A p \in Providers : \A k \in Kids : k \in published[p] => retiredAt[p][k] = None
  BY DEF JWKSInv, KeysRetireOnce
<1>3. /\ Populated(s, published) \in Pairs
      /\ \A i \in 1..Len(Populated(s, published)[1]) : Lapses(Populated(s, published)[1][i])
  BY <1>2, PopulateLapses
<1>4. <<cache', metadata'>> = Populated(s, published)
  BY <1>1, <1>3 DEF Pairs
<1> QED BY <1>1, <1>3, <1>4, CacheStep DEF StartUp

LEMMA VerifyStep ==
    ASSUME JWKSInv, NEW kid \in Kids, Verify(kid) PROVE JWKSInv'
<1>1. /\ now \in Nat /\ CacheOK(cache) /\ metadata \in Metas /\ Agree(cache, metadata)
      /\ Live(cache, kid) /\ cache' = Use(cache, kid)
      /\ UNCHANGED <<now, issuerVars, metadata, req>>
  BY JWKSAssumption DEF JWKSInv, JWKSTypes, Pairs, Verify
<1>2. CacheOK(cache') /\ Drawn(cache', cache)
  BY <1>1, UseEffect
<1>3. <<cache', metadata'>> \in Pairs
  BY <1>1, <1>2, DrawnAgree
<1>4. \A i \in 1..Len(cache') : Lapses(cache'[i])
  BY <1>2 DEF Drawn, JWKSInv
<1> QED BY <1>1, <1>3, <1>4, CacheStep

LEMMA FetchStep ==
    ASSUME JWKSInv, NEW r \in Requests, NEW kid \in Kids, Fetch(r, kid)
    PROVE  JWKSInv'
<1> DEFINE v == [Idle EXCEPT !.pc = "fetching", !.kid = kid, !.since = now,
                              !.known = {p \in Providers : kid \in published[p]}]
<1>1. /\ now \in Nat /\ FetchTimeout \in Nat
      /\ req' = [req EXCEPT ![r] = v] /\ UNCHANGED <<now, issuerVars, cacheVars>>
      /\ req'[r] = v
  BY JWKSAssumption DEF JWKSInv, JWKSTypes, Fetch
<1>2. /\ v.pc = "fetching" /\ v.kid = kid /\ v.since = now
      /\ v.known = {p \in Providers : kid \in published[p]}
      /\ \A p \in Providers : v.seen[p] = None
      /\ v \in RequestStates
  BY <1>1 DEF Idle, RequestStates
<1> HIDE DEF v
<1>3. FetchIsRecent(r)'
  BY <1>1, <1>2 DEF FetchIsRecent, issuerVars
<1> QED BY <1>1, <1>2, <1>3, RequestStep DEF JWKSInv, JWKSTypes, cacheVars

LEMMA AnswerStep ==
    ASSUME JWKSInv, NEW r \in Requests, NEW p \in Providers, Answer(r, p)
    PROVE  JWKSInv'
<1> DEFINE v == [req[r] EXCEPT !.seen[p] = published[p]]
<1>1. /\ req[r] \in RequestStates /\ published[p] \in SUBSET Kids
      /\ req' = [req EXCEPT ![r] = v] /\ UNCHANGED <<now, issuerVars, cacheVars>>
      /\ req'[r] = v /\ req[r].pc = "fetching"
  BY DEF JWKSInv, JWKSTypes, Answer
<1>2. /\ v.pc = req[r].pc /\ v.kid = req[r].kid /\ v.since = req[r].since
      /\ v.known = req[r].known /\ v.known \subseteq Providers
      /\ \A q \in Providers : v.seen[q] = IF q = p THEN published[p] ELSE req[r].seen[q]
      /\ v \in RequestStates
  BY <1>1 DEF RequestStates
<1> HIDE DEF v
<1>3. FetchIsRecent(r) /\ \A k \in Kids : k \in published[p] => retiredAt[p][k] = None
  BY DEF JWKSInv, KeysRetireOnce
<1>4. FetchIsRecent(r)'
  BY <1>1, <1>2, <1>3 DEF FetchIsRecent, issuerVars
<1> QED BY <1>1, <1>2, <1>4, RequestStep DEF JWKSInv, JWKSTypes, cacheVars

LEMMA FetchFailsStep ==
    ASSUME JWKSInv, NEW r \in Requests, FetchFails(r) PROVE JWKSInv'
<1>1. /\ req' = [req EXCEPT ![r] = Idle] /\ UNCHANGED <<now, issuerVars, cacheVars>>
      /\ req'[r] = Idle
  BY DEF FetchFails, JWKSInv, JWKSTypes
<1>2. FetchIsRecent(r)'
  BY <1>1, IdleType DEF FetchIsRecent
<1> QED BY <1>1, <1>2, IdleType, RequestStep DEF JWKSInv, JWKSTypes, cacheVars

\* No key of a fetch that is complete was retired more than a fetch ago.
LEMMA CompleteFetch ==
    ASSUME JWKSInv, NEW r \in Requests, req[r].pc = "fetching",
           \A p \in Providers : req[r].seen[p] # None
    PROVE  /\ \A p \in Providers : req[r].seen[p] \subseteq Kids
           /\ \A p \in Providers : \A k \in Kids :
               (k \in req[r].seen[p] /\ retiredAt[p][k] # None)
               => now <= retiredAt[p][k] + FetchTimeout
<1>1. /\ req[r] \in RequestStates /\ now \in Nat /\ FetchTimeout \in Nat
      /\ FetchIsRecent(r)
  BY JWKSAssumption DEF JWKSInv, JWKSTypes
<1>2. req[r].since \in Nat /\ \A p \in Providers : req[r].seen[p] \subseteq Kids
  BY <1>1 DEF RequestStates
<1>3. ASSUME NEW p \in Providers, NEW k \in Kids,
             k \in req[r].seen[p], retiredAt[p][k] # None
      PROVE  now <= retiredAt[p][k] + FetchTimeout
  <2>1. retiredAt[p][k] \in Nat
    BY <1>3 DEF JWKSInv, JWKSTypes
  <2>2. req[r].since <= retiredAt[p][k] /\ now <= req[r].since + FetchTimeout
    BY <1>1, <1>3 DEF FetchIsRecent
  <2> QED BY <1>1, <1>2, <2>1, <2>2
<1> QED BY <1>2, <1>3

LEMMA FinishStep ==
    ASSUME JWKSInv, NEW r \in Requests, Finish(r) PROVE JWKSInv'
<1> DEFINE kid == req[r].kid
           keys == req[r].seen
<1>1. /\ req[r].pc = "fetching" /\ \A p \in Providers : keys[p] # None
      /\ req' = [req EXCEPT ![r] = Idle] /\ UNCHANGED <<now, issuerVars>>
      /\ req'[r] = Idle
  BY DEF Finish, JWKSInv, JWKSTypes
<1>2. PICK s \in Listings :
         /\ cache' = IF Readable(keys) /\ Live(Populated(s, keys)[1], kid)
                     THEN Use(Populated(s, keys)[1], kid) ELSE Populated(s, keys)[1]
         /\ metadata' = Populated(s, keys)[2]
  BY DEF Finish
<1> DEFINE c == Populated(s, keys)[1]
           m == Populated(s, keys)[2]
           found == Readable(keys) /\ Live(c, kid)
<1>3. Populated(s, keys) \in Pairs /\ \A i \in 1..Len(c) : Lapses(c[i])
  <2>1. \A p \in Providers : \A k \in Kids :
           (k \in keys[p] /\ retiredAt[p][k] # None)
           => now <= retiredAt[p][k] + FetchTimeout
    BY <1>1, CompleteFetch
  <2> HIDE DEF keys
  <2> QED BY <2>1, PopulateLapses
<1>4. CacheOK(c) /\ m \in Metas /\ Agree(c, m) /\ <<c, m>> \in Pairs /\ now \in Nat
  BY <1>3, JWKSAssumption DEF Pairs, JWKSInv, JWKSTypes
<1> HIDE DEF c, m, kid
<1>5. cache' = (IF found THEN Use(c, kid) ELSE c) /\ metadata' = m
  BY <1>2 DEF c, m
<1>6. <<cache', metadata'>> \in Pairs /\ \A i \in 1..Len(cache') : Lapses(cache'[i])
  <2>1. CASE found
    <3>1. CacheOK(Use(c, kid)) /\ Drawn(Use(c, kid), c)
      BY <1>4, <2>1, UseEffect
    <3>2. <<Use(c, kid), m>> \in Pairs
      BY <1>4, <3>1, DrawnAgree
    <3>3. \A i \in 1..Len(Use(c, kid)) : Lapses(Use(c, kid)[i])
      BY <1>3, <3>1 DEF Drawn
    <3> QED BY <1>5, <2>1, <3>2, <3>3
  <2>2. CASE ~found
    BY <1>3, <1>4, <1>5, <2>2
  <2> QED BY <2>1, <2>2
<1>7. FetchIsRecent(r)'
  BY <1>1, IdleType DEF FetchIsRecent
<1> QED BY <1>1, <1>6, <1>7, IdleType, RequestStep

LEMMA PublishStep ==
    ASSUME JWKSInv, NEW p \in Providers, NEW k \in Kids, Publish(p, k)
    PROVE  JWKSInv'
<1>1. /\ retiredAt[p][k] = None
      /\ published' = [published EXCEPT ![p] = @ \cup {k}]
      /\ UNCHANGED <<now, retiredAt, cacheVars, req>>
      /\ published \in [Providers -> SUBSET Kids]
  BY DEF Publish, JWKSInv, JWKSTypes
<1>2. /\ published' \in [Providers -> SUBSET Kids]
      /\ \A q \in Providers : published[q] \subseteq published'[q]
      /\ \A q \in Providers : \A j \in Kids :
            j \in published'[q] => j \in published[q] \/ (q = p /\ j = k)
  BY <1>1
<1>3. JWKSTypes'
  BY <1>1, <1>2 DEF JWKSInv, JWKSTypes, cacheVars
<1>4. KeysRetireOnce'
  BY <1>1, <1>2 DEF JWKSInv, KeysRetireOnce
<1>5. \A i \in 1..Len(cache') : Lapses(cache[i])'
  BY <1>1 DEF JWKSInv, Lapses, cacheVars
<1>6. ASSUME NEW r \in Requests PROVE FetchIsRecent(r)'
  <2>1. FetchIsRecent(r) /\ req[r].known \subseteq Providers
    BY DEF JWKSInv, JWKSTypes, RequestStates
  <2> QED BY <1>1, <1>2, <2>1 DEF FetchIsRecent
<1> QED BY <1>3, <1>4, <1>5, <1>6 DEF JWKSInv

LEMMA RetireStep ==
    ASSUME JWKSInv, NEW p \in Providers, NEW k \in Kids, Retire(p, k)
    PROVE  JWKSInv'
<1>1. /\ k \in published[p]
      /\ published' = [published EXCEPT ![p] = @ \ {k}]
      /\ retiredAt' = [retiredAt EXCEPT ![p][k] = now]
      /\ req' = [r \in Requests |->
                   IF req[r].kid = k
                   THEN [req[r] EXCEPT !.known = @ \ {p}] ELSE req[r]]
      /\ UNCHANGED <<now, cacheVars>>
  BY DEF Retire
<1>2. /\ published \in [Providers -> SUBSET Kids]
      /\ retiredAt \in [Providers -> [Kids -> Nat \cup {None}]]
      /\ now \in Nat /\ None \notin Nat /\ TTL \in Nat /\ FetchTimeout \in Nat
  BY JWKSAssumption DEF JWKSInv, JWKSTypes
<1>3. /\ published' \in [Providers -> SUBSET Kids]
      /\ \A q \in Providers : \A j \in Kids :
            j \in published'[q] <=> j \in published[q] /\ ~(q = p /\ j = k)
  BY <1>1, <1>2
<1>4. /\ retiredAt' \in [Providers -> [Kids -> Nat \cup {None}]]
      /\ \A q \in Providers : \A j \in Kids :
            retiredAt'[q][j] = IF q = p /\ j = k THEN now ELSE retiredAt[q][j]
  BY <1>1, <1>2
<1>5. ASSUME NEW r \in Requests
      PROVE  /\ req'[r] \in RequestStates /\ req'[r].pc = req[r].pc
             /\ req'[r].kid = req[r].kid /\ req'[r].since = req[r].since
             /\ req'[r].seen = req[r].seen
             /\ req'[r].known \subseteq req[r].known
             /\ req[r].known \subseteq Providers
             /\ req[r].kid = k => p \notin req'[r].known
  <2>1. req[r] \in RequestStates
    BY DEF JWKSInv, JWKSTypes
  <2>2. CASE req[r].kid = k
    <3>1. req'[r] = [req[r] EXCEPT !.known = @ \ {p}]
      BY <1>1, <2>2
    <3> QED BY <2>1, <2>2, <3>1 DEF RequestStates
  <2>3. CASE req[r].kid # k
    <3>1. req'[r] = req[r]
      BY <1>1, <2>3
    <3> QED BY <2>1, <2>3, <3>1 DEF RequestStates
  <2> QED BY <2>2, <2>3
<1>6. req' \in [Requests -> RequestStates]
  BY <1>1, <1>5
<1>7. JWKSTypes'
  BY <1>1, <1>3, <1>4, <1>6 DEF JWKSInv, JWKSTypes, cacheVars
<1>8. KeysRetireOnce'
  BY <1>1, <1>2, <1>3, <1>4 DEF JWKSInv, KeysRetireOnce
<1>9. ASSUME NEW i \in 1..Len(cache') PROVE Lapses(cache[i])'
  <2> DEFINE e == cache[i]
  <2>1. cache' = cache /\ now' = now /\ Lapses(e)
    BY <1>1, <1>9 DEF JWKSInv, cacheVars
  <2>2. e \in Entries
    BY <2>1 DEF JWKSInv, JWKSTypes, Pairs, CacheOK
  <2>3. e.provider \in Providers /\ e.kid \in Kids /\ e.expires \in Nat
    BY <2>2 DEF Entries
  <2> HIDE DEF e
  <2>4. CASE e.provider = p /\ e.kid = k
    <3>1. retiredAt'[e.provider][e.kid] = now /\ e.expires <= now + TTL
      BY <1>4, <2>1, <2>3, <2>4 DEF Lapses
    <3>2. e.expires <= now + FetchTimeout + TTL
      BY <1>2, <2>3, <3>1
    <3> QED BY <2>1, <3>1, <3>2 DEF Lapses, e
  <2>5. CASE ~(e.provider = p /\ e.kid = k)
    <3>1. retiredAt'[e.provider][e.kid] = retiredAt[e.provider][e.kid]
      BY <1>4, <2>3, <2>5
    <3> QED BY <2>1, <3>1 DEF Lapses, e
  <2> QED BY <2>4, <2>5
<1>10. ASSUME NEW r \in Requests PROVE FetchIsRecent(r)'
  <2> SUFFICES ASSUME req[r].pc = "fetching" PROVE FetchIsRecent(r)'
    BY <1>5 DEF FetchIsRecent
  <2>1. FetchIsRecent(r)
    BY DEF JWKSInv
  <2>2. req[r].kid \in Kids /\ req[r].since <= now /\ now <= req[r].since + FetchTimeout
    BY <2>1 DEF FetchIsRecent
  <2>3. ASSUME NEW q \in Providers, NEW j \in Kids,
               req[r].seen[q] # None, j \in req[r].seen[q], retiredAt'[q][j] # None
        PROVE  req[r].since <= retiredAt'[q][j]
    <3>1. CASE q = p /\ j = k
      BY <1>4, <2>2, <3>1
    <3>2. CASE ~(q = p /\ j = k)
      BY <1>4, <2>1, <2>3, <3>2 DEF FetchIsRecent
    <3> QED BY <3>1, <3>2
  <2>4. ASSUME NEW q \in req'[r].known
        PROVE  /\ req[r].kid \in published'[q]
               /\ req[r].seen[q] # None => req[r].kid \in req[r].seen[q]
    <3>1. q \in req[r].known /\ q \in Providers /\ ~(q = p /\ req[r].kid = k)
      BY <1>5, <2>4
    <3> QED BY <1>3, <2>1, <2>2, <3>1 DEF FetchIsRecent
  <2> QED BY <1>1, <1>5, <2>2, <2>3, <2>4 DEF FetchIsRecent
<1> QED BY <1>7, <1>8, <1>9, <1>10 DEF JWKSInv

LEMMA TickStep == JWKSInv /\ Tick => JWKSInv'
<1> SUFFICES ASSUME JWKSInv, Tick PROVE JWKSInv'
  OBVIOUS
<1>1. /\ now \in 0..MaxTime /\ MaxTime \in Nat /\ TTL \in Nat /\ FetchTimeout \in Nat
      /\ now < MaxTime /\ now' = now + 1
      /\ UNCHANGED <<issuerVars, cacheVars, req>>
  BY JWKSAssumption DEF JWKSInv, JWKSTypes, Tick
<1>2. JWKSTypes'
  BY <1>1 DEF JWKSInv, JWKSTypes, issuerVars, cacheVars
<1>3. ASSUME NEW p \in Providers, NEW k \in Kids, retiredAt[p][k] # None
      PROVE  k \notin published[p] /\ retiredAt[p][k] <= now + 1
  <2>1. retiredAt[p][k] \in Nat
    BY <1>3 DEF JWKSInv, JWKSTypes
  <2> QED BY <1>1, <1>3, <2>1 DEF JWKSInv, KeysRetireOnce
<1>4. KeysRetireOnce'
  BY <1>1, <1>3 DEF KeysRetireOnce, issuerVars
<1>5. ASSUME NEW i \in 1..Len(cache') PROVE Lapses(cache[i])'
  <2>1. cache' = cache /\ Lapses(cache[i])
    BY <1>1, <1>5 DEF JWKSInv, cacheVars
  <2>2. cache[i] \in Entries
    BY <2>1 DEF JWKSInv, JWKSTypes, Pairs, CacheOK
  <2>3. cache[i].expires \in Nat
    BY <2>2 DEF Entries
  <2>4. cache[i].expires <= now + 1 + TTL
    BY <1>1, <2>1, <2>3 DEF Lapses
  <2> QED BY <1>1, <2>1, <2>4 DEF Lapses, issuerVars
<1>6. ASSUME NEW r \in Requests PROVE FetchIsRecent(r)'
  <2>1. req[r] \in RequestStates /\ FetchIsRecent(r)
    BY DEF JWKSInv, JWKSTypes
  <2>2. req[r].since \in Nat
    BY <2>1 DEF RequestStates
  <2>3. req[r].pc = "fetching" => /\ req[r].since <= now + 1
                                  /\ now + 1 <= req[r].since + FetchTimeout
    BY <1>1, <2>1, <2>2 DEF Tick, FetchIsRecent
  <2> QED BY <1>1, <2>1, <2>3 DEF FetchIsRecent, issuerVars
<1> QED BY <1>2, <1>4, <1>5, <1>6 DEF JWKSInv

LEMMA JWKSInductive == JWKSInv /\ [Next]_vars => JWKSInv'
<1> SUFFICES ASSUME JWKSInv, [Next]_vars PROVE JWKSInv'
  OBVIOUS
<1>1. ASSUME UNCHANGED <<now, issuerVars, cacheVars, req>> PROVE JWKSInv'
  BY <1>1 DEF JWKSInv, JWKSTypes, KeysRetireOnce, Lapses, FetchIsRecent,
              issuerVars, cacheVars
<1>2. CASE StartUpFails
  BY <1>1, <1>2 DEF StartUpFails
<1>3. CASE UNCHANGED vars
  BY <1>1, <1>3 DEF vars
<1>4. ASSUME NEW key \in Keys, Publish(key[1], key[2]) \/ Retire(key[1], key[2])
      PROVE  JWKSInv'
  <2>1. key[1] \in Providers /\ key[2] \in Kids
    BY JWKSAssumption
  <2> QED BY <1>4, <2>1, PublishStep, RetireStep
<1> QED BY <1>2, <1>3, <1>4, StartUpStep, TickStep, VerifyStep, FetchStep,
           AnswerStep, FetchFailsStep, FinishStep DEF Next

LEMMA JWKSAlways == Spec => []JWKSInv
  BY JWKSInit, JWKSInductive, PTL DEF Spec
-----------------------------------------------------------------------------
(* What it means.                                                           *)

\* For any issuers, keys, requests, time to live, timeout and size: the cache
\* never holds more than its size and never a kid twice, whatever the order in
\* which populate() of several requests store their keys.
THEOREM TypeCorrect == Spec => []TypeOK
<1>1. JWKSInv => TypeOK
  <2> SUFFICES ASSUME JWKSInv PROVE TypeOK
    OBVIOUS
  <2>1. CacheOK(cache) /\ metadata \in Metas /\ now \in 0..MaxTime
    BY DEF JWKSInv, JWKSTypes, Pairs
  <2>2. /\ cache \in Seq(Entries) /\ DOMAIN cache = 1..Len(cache) /\ Len(cache) \in Nat
        /\ {MaxTime, TTL} \subseteq Nat
    BY <2>1, JWKSAssumption DEF CacheOK
  <2> DEFINE E == [kid : Kids, provider : Providers, expires : 0..MaxTime + TTL]
  <2>3. ASSUME NEW i \in 1..Len(cache) PROVE cache[i] \in E
    <3>1. cache[i] \in Entries /\ cache[i].expires <= now + TTL
      BY <2>2 DEF JWKSInv, Lapses
    <3>2. cache[i].expires \in 0..MaxTime + TTL
      BY <2>1, <2>2, <3>1 DEF Entries
    <3> QED BY <3>1, <3>2 DEF Entries
  <2> HIDE DEF E
  <2>4. cache \in Seq(E)
    BY <2>2, <2>3
  <2>5. \A r \in Requests : req[r].pc \in {"idle", "fetching"}
    BY DEF JWKSInv, JWKSTypes, RequestStates
  <2> QED BY <2>1, <2>2, <2>4, <2>5 DEF TypeOK, CacheOK, Metas, E
<1> QED BY <1>1, JWKSAlways, PTL

\* A token is not verified with one issuer's key and another one's issuer and
\* audience, for any number of issuers that share kids and any keys that end
\* populate() half-way, unless its kid is the audience of that other issuer.
THEOREM KeysMatchProviders == Spec => []KeyAndProviderAgree
<1>1. JWKSInv => KeyAndProviderAgree
  BY DEF JWKSInv, JWKSTypes, Pairs, Agree, Recorded, CacheOK, KeyAndProviderAgree
<1> QED BY <1>1, JWKSAlways, PTL

\* A key that its issuer withdrew is unusable a time to live and one fetch later,
\* however many requests fetch and in whatever order they store what they got.
THEOREM RetiredKeysExpire == Spec => []RetiredKeysLapse
<1>1. JWKSInv => RetiredKeysLapse
  <2> SUFFICES ASSUME JWKSInv, NEW i \in DOMAIN cache,
                      retiredAt[cache[i].provider][cache[i].kid] # None,
                      now >= retiredAt[cache[i].provider][cache[i].kid]
                             + FetchTimeout + TTL,
                      NEW j \in DOMAIN cache, cache[j].kid = cache[i].kid,
                      now < cache[j].expires
               PROVE  FALSE
    BY DEF RetiredKeysLapse, Live
  <2>1. CacheOK(cache) /\ now \in Nat /\ TTL \in Nat /\ FetchTimeout \in Nat
    BY JWKSAssumption DEF JWKSInv, JWKSTypes, Pairs
  <2>2. i \in 1..Len(cache) /\ j = i /\ cache[i] \in Entries
    BY <2>1 DEF CacheOK
  <2> DEFINE at == retiredAt[cache[i].provider][cache[i].kid]
  <2>3. at \in Nat /\ cache[i].expires \in Nat
    BY <2>2 DEF Entries, JWKSInv, JWKSTypes
  <2>4. cache[i].expires <= at + FetchTimeout + TTL
    BY <2>2 DEF JWKSInv, Lapses
  <2> QED BY <2>1, <2>2, <2>3, <2>4
<1> QED BY <1>1, JWKSAlways, PTL

\* A token whose key its issuer has published since the request began is found
\* when the fetch is complete, as long as the key sets fit into the cache and all of
\* their keys are of a supported type.
THEOREM PublishedKeysServed == Spec => PublishedKeysFound
<1> DEFINE Found == \A r \in Requests :
              (/\ Finish(r) /\ req[r].known # {}
               /\ Fits(req[r].seen) /\ Readable(req[r].seen))
              => Live(cache', req[r].kid)
<1>1. JWKSInv /\ [Next]_vars => [Found]_vars
  <2> SUFFICES ASSUME JWKSInv, NEW r \in Requests, Finish(r), req[r].known # {},
                      Fits(req[r].seen), Readable(req[r].seen)
               PROVE  Live(cache', req[r].kid)
    OBVIOUS
  <2> DEFINE kid == req[r].kid
             keys == req[r].seen
  <2>1. req[r].pc = "fetching" /\ now' = now /\ \A p \in Providers : keys[p] # None
    BY DEF Finish
  <2>2. PICK s \in Listings :
           cache' = IF Readable(keys) /\ Live(Populated(s, keys)[1], kid)
                    THEN Use(Populated(s, keys)[1], kid) ELSE Populated(s, keys)[1]
    BY DEF Finish
  <2>3. PICK q \in req[r].known : q \in Providers
    BY DEF JWKSInv, JWKSTypes, RequestStates
  <2>4. kid \in keys[q]
    BY <2>1, <2>3 DEF JWKSInv, FetchIsRecent
  <2>5. \A p \in Providers : keys[p] \subseteq Kids
    BY <2>1, CompleteFetch
  <2>6. now \in Nat /\ <<cache, metadata>> \in Pairs
    BY JWKSAssumption DEF JWKSInv, JWKSTypes
  <2> DEFINE c == Populated(s, keys)[1]
  <2>12. Readable(keys)
    OBVIOUS
  <2> HIDE DEF keys, kid
  <2>7. Covers(s)
    BY ListingsCover
  <2>8. Live(c, kid)
    BY <2>3, <2>4, <2>5, <2>6, <2>7, PopulatedHas DEF keys
  <2>9. CacheOK(c)
    <3>1. Populated(s, keys) \in Pairs
      BY <2>6, <2>7, PopulatedSupplied
    <3> QED BY <3>1 DEF Pairs
  <2> HIDE DEF c
  <2>10. cache' = Use(c, kid)
    BY <2>2, <2>8, <2>12 DEF c
  <2>11. Live(Use(c, kid), kid)
    BY <2>6, <2>8, <2>9, UseEffect
  <2> QED BY <2>10, <2>11 DEF kid
<1> QED BY <1>1, JWKSAlways, PTL DEF Spec, PublishedKeysFound

-----------------------------------------------------------------------------
(* The rate limiter.                                                        *)

\* What n ticks refill.
Refilled(n) == n * Refill

\* Refilling is additive and monotonic.
LEMMA RefillSplits ==
    ASSUME NEW m \in Nat, NEW n \in Nat
    PROVE  /\ Refilled(m) \in Nat
           /\ Refilled(m + n) = Refilled(m) + Refilled(n)
           /\ m <= n => Refilled(m) <= Refilled(n)
<1> USE LimiterAssumption
<1>1. Refilled(m) \in Nat /\ Refilled(m + n) = Refilled(m) + Refilled(n)
  BY DEF Refilled
<1>2. ASSUME m <= n PROVE Refilled(m) <= Refilled(n)
  <2> DEFINE d == n - m
  <2>1. d \in Nat /\ n = m + d
    BY <1>2
  <2>2. Refilled(n) = Refilled(m) + Refilled(d)
    BY <2>1 DEF Refilled
  <2>3. Refilled(m) \in Nat /\ Refilled(d) \in Nat
    BY <2>1 DEF Refilled
  <2> QED BY <2>2, <2>3
<1> QED BY <1>1, <1>2

\* What is known of a key whose bucket was not thrown out: what it was granted
\* and what is left in its bucket do not exceed a full bucket and the refill up
\* to the time the bucket was last touched; once the bucket is gone, the refill
\* alone covers what was granted.
Accounted(k) ==
    /\ updated[k] <= clock
    /\ k \in cached /\ updated[k] >= opened =>
          admitted[k] + tokens[k] <= Capacity + Refilled(updated[k] - opened)
    /\ k \in cached /\ updated[k] < opened => admitted[k] = 0
    /\ k \notin cached => admitted[k] <= Refilled(clock - opened)

LimiterTypes ==
    LimiterTypeOK /\ opened <= clock /\ \A k \in Fingerprints : updated[k] <= clock

LimiterInv ==
    /\ LimiterTypes
    /\ \A k \in Fingerprints \ evicted : Accounted(k)

\* The level of a bucket is at most a full bucket, and at most what it held plus
\* the refill since.
LEMMA LevelBounds ==
    ASSUME LimiterTypeOK, NEW k \in Fingerprints, updated[k] <= clock
    PROVE  /\ Level(k) \in 0..Capacity
           /\ k \in LiveBuckets => Level(k) <= tokens[k] + Refilled(clock - updated[k])
<1> DEFINE x == (clock - updated[k]) * Refill
<1>1. x \in Nat /\ x = Refilled(clock - updated[k])
  <2>1. clock - updated[k] \in Nat
    BY DEF LimiterTypeOK
  <2> QED BY <2>1, RefillSplits DEF Refilled
<1>2. tokens[k] \in 0..Capacity /\ Capacity \in Nat
  BY LimiterAssumption DEF LimiterTypeOK
<1>3. Level(k) = IF k \in LiveBuckets
                 THEN IF tokens[k] + x <= Capacity THEN tokens[k] + x ELSE Capacity
                 ELSE Capacity
  BY DEF Level
<1> HIDE DEF x
<1> QED BY <1>1, <1>2, <1>3

\* An expired bucket had time to fill: the refill covers all that was granted.
LEMMA ExpiredCovered ==
    ASSUME LimiterInv, Capacity <= Refilled(IdleTTL),
           NEW k \in Fingerprints \ evicted, k \notin LiveBuckets
    PROVE  admitted[k] <= Refilled(clock - opened)
<1>1. /\ clock \in Nat /\ opened \in Nat /\ updated[k] \in Nat /\ IdleTTL \in Nat
      /\ Capacity \in Nat /\ tokens[k] \in Nat /\ admitted[k] \in Nat
      /\ opened <= clock /\ updated[k] <= clock
  BY LimiterAssumption DEF LimiterInv, LimiterTypes, LimiterTypeOK
<1>2. Refilled(clock - opened) \in Nat
  <2>1. clock - opened \in Nat
    BY <1>1
  <2> QED BY <2>1, RefillSplits
<1>3. CASE k \notin cached
  BY <1>3 DEF LimiterInv, Accounted
<1>4. CASE k \in cached /\ updated[k] < opened
  BY <1>1, <1>2, <1>4 DEF LimiterInv, Accounted
<1>5. CASE k \in cached /\ updated[k] >= opened
  <2>1. clock - updated[k] >= IdleTTL
    BY <1>1, <1>5 DEF LiveBuckets
  <2>2. admitted[k] + tokens[k] <= Capacity + Refilled(updated[k] - opened)
    BY <1>5 DEF LimiterInv, Accounted
  <2>3. Refilled(IdleTTL) <= Refilled(clock - updated[k])
    <3>1. clock - updated[k] \in Nat
      BY <1>1
    <3> QED BY <1>1, <2>1, <3>1, RefillSplits
  <2>4. /\ updated[k] - opened \in Nat
        /\ clock - updated[k] \in Nat
        /\ (updated[k] - opened) + (clock - updated[k]) = clock - opened
    BY <1>1, <1>5
  <2>5. Refilled(clock - opened) = Refilled(updated[k] - opened) + Refilled(clock - updated[k])
    BY <2>4, RefillSplits
  <2>6. /\ Refilled(updated[k] - opened) \in Nat
        /\ Refilled(clock - updated[k]) \in Nat
        /\ Refilled(IdleTTL) \in Nat
    BY <1>1, <2>4, RefillSplits
  <2> QED BY <1>1, <2>2, <2>3, <2>5, <2>6
<1> QED BY <1>1, <1>3, <1>4, <1>5

\* Before an attempt, what was granted and the bucket's level are covered.
LEMMA LevelCovered ==
    ASSUME LimiterInv, Capacity <= Refilled(IdleTTL), NEW k \in Fingerprints \ evicted
    PROVE  admitted[k] + Level(k) <= Capacity + Refilled(clock - opened)
<1>1. /\ clock \in Nat /\ opened \in Nat /\ updated[k] \in Nat
      /\ Capacity \in Nat /\ tokens[k] \in Nat /\ admitted[k] \in Nat
      /\ opened <= clock /\ updated[k] <= clock
  BY LimiterAssumption DEF LimiterInv, LimiterTypes, LimiterTypeOK
<1>2. /\ Level(k) \in 0..Capacity
      /\ k \in LiveBuckets => Level(k) <= tokens[k] + Refilled(clock - updated[k])
  BY <1>1, LevelBounds DEF LimiterInv, LimiterTypes
<1>3. Refilled(clock - opened) \in Nat
  <2>1. clock - opened \in Nat
    BY <1>1
  <2> QED BY <2>1, RefillSplits
<1>4. CASE k \notin LiveBuckets
  BY <1>1, <1>2, <1>3, <1>4, ExpiredCovered
<1>5. CASE k \in LiveBuckets /\ updated[k] < opened
  <2>1. admitted[k] = 0
    BY <1>5 DEF LimiterInv, Accounted, LiveBuckets
  <2> QED BY <1>1, <1>2, <1>3, <2>1
<1>6. CASE k \in LiveBuckets /\ updated[k] >= opened
  <2>1. admitted[k] + tokens[k] <= Capacity + Refilled(updated[k] - opened)
    BY <1>6 DEF LimiterInv, Accounted, LiveBuckets
  <2>2. /\ updated[k] - opened \in Nat
        /\ clock - updated[k] \in Nat
        /\ (updated[k] - opened) + (clock - updated[k]) = clock - opened
    BY <1>1, <1>6
  <2>3. Refilled(clock - opened) = Refilled(updated[k] - opened) + Refilled(clock - updated[k])
    BY <2>2, RefillSplits
  <2>4. Refilled(updated[k] - opened) \in Nat /\ Refilled(clock - updated[k]) \in Nat
    BY <2>2, RefillSplits
  <2> QED BY <1>1, <1>2, <1>6, <2>1, <2>3, <2>4
<1> QED BY <1>1, <1>4, <1>5, <1>6

\* Every step preserves the types.
LEMMA StepTypeOK ==
    ASSUME LimiterTypes, [LimiterNext]_limiterVars
    PROVE  LimiterTypes'
<1> USE LimiterAssumption DEF LimiterTypes, LimiterTypeOK
<1>1. CASE ClockTick
  BY <1>1 DEF ClockTick
<1>2. CASE Observe
  BY <1>2 DEF Observe
<1>3. ASSUME NEW k \in Fingerprints, Allow(k)
      PROVE  LimiterTypes'
  <2>1. Level(k) \in 0..Capacity
    BY LevelBounds
  <2>2. PICK out \in Victims(k) :
           /\ tokens' = [tokens EXCEPT ![k] = IF Level(k) >= 1 THEN Level(k) - 1 ELSE Level(k)]
           /\ updated' = [updated EXCEPT ![k] = clock]
           /\ cached' = (LiveBuckets \ out) \cup {k}
           /\ admitted' = [admitted EXCEPT ![k] =
                             IF Level(k) >= 1 /\ k \notin evicted THEN @ + 1 ELSE @]
           /\ evicted' = evicted \cup out
           /\ UNCHANGED <<clock, opened>>
    BY <1>3 DEF Allow
  <2>3. out \subseteq Fingerprints
    BY <2>2 DEF Victims, LiveBuckets
  <2>4. (IF Level(k) >= 1 THEN Level(k) - 1 ELSE Level(k)) \in 0..Capacity
    BY <2>1
  <2> QED BY <2>2, <2>3, <2>4 DEF LiveBuckets
<1>4. CASE UNCHANGED limiterVars
  BY <1>4 DEF limiterVars
<1> QED BY <1>1, <1>2, <1>3, <1>4 DEF LimiterNext

\* Every step keeps the accounts.
LEMMA StepAccounted ==
    ASSUME LimiterInv, Capacity <= Refilled(IdleTTL), [LimiterNext]_limiterVars,
           NEW k \in Fingerprints, k \notin evicted'
    PROVE  Accounted(k)'
<1>a. /\ clock \in Nat /\ opened \in Nat /\ updated[k] \in Nat
      /\ Capacity \in Nat /\ tokens[k] \in Nat /\ admitted[k] \in Nat
      /\ opened <= clock /\ updated[k] <= clock
      /\ clock - opened \in Nat
  BY LimiterAssumption DEF LimiterInv, LimiterTypes, LimiterTypeOK
<1>b. Refilled(clock - opened) \in Nat
  BY <1>a, RefillSplits
<1>1. CASE ClockTick
  <2>1. Accounted(k)
    BY <1>1 DEF ClockTick, LimiterInv
  <2>2. /\ clock' = clock + 1
        /\ UNCHANGED <<cached, tokens, updated, opened, admitted>>
    BY <1>1 DEF ClockTick
  <2>3. Refilled(clock - opened) <= Refilled((clock + 1) - opened)
    <3>1. (clock + 1) - opened \in Nat /\ clock - opened <= (clock + 1) - opened
      BY <1>a
    <3> QED BY <1>a, <3>1, RefillSplits
  <2>4. Refilled((clock + 1) - opened) \in Nat
    <3>1. (clock + 1) - opened \in Nat
      BY <1>a
    <3> QED BY <3>1, RefillSplits
  <2>5. updated[k] <= clock + 1
    BY <1>a
  <2>6. k \notin cached => admitted[k] <= Refilled((clock + 1) - opened)
    BY <1>a, <1>b, <2>1, <2>3, <2>4 DEF Accounted
  <2> QED BY <2>1, <2>2, <2>5, <2>6 DEF Accounted
<1>2. CASE Observe
  <2>1. /\ opened' = clock /\ admitted'[k] = 0
        /\ UNCHANGED <<clock, cached, tokens, updated>>
    BY <1>2 DEF Observe
  <2>2. tokens[k] <= Capacity
    BY LimiterAssumption DEF LimiterInv, LimiterTypes, LimiterTypeOK
  <2>3. Refilled(clock - clock) \in Nat
    BY <1>a, RefillSplits
  <2>4. updated[k] >= clock => Refilled(updated[k] - clock) \in Nat
    <3>1. updated[k] >= clock => updated[k] - clock \in Nat
      BY <1>a
    <3> QED BY <3>1, RefillSplits
  <2> QED BY <1>a, <2>1, <2>2, <2>3, <2>4 DEF Accounted
<1>3. ASSUME NEW j \in Fingerprints, Allow(j) PROVE Accounted(k)'
  <2>1. PICK out \in Victims(j) :
           /\ tokens' = [tokens EXCEPT ![j] = IF Level(j) >= 1 THEN Level(j) - 1 ELSE Level(j)]
           /\ updated' = [updated EXCEPT ![j] = clock]
           /\ cached' = (LiveBuckets \ out) \cup {j}
           /\ admitted' = [admitted EXCEPT ![j] =
                             IF Level(j) >= 1 /\ j \notin evicted THEN @ + 1 ELSE @]
           /\ evicted' = evicted \cup out
           /\ UNCHANGED <<clock, opened>>
    BY <1>3 DEF Allow
  <2>2. k \notin evicted /\ k \notin out
    BY <2>1
  <2>3. CASE k = j
    <3>1. /\ updated'[k] = clock /\ k \in cached'
          /\ clock' = clock /\ opened' = opened
          /\ tokens'[k] = IF Level(k) >= 1 THEN Level(k) - 1 ELSE Level(k)
          /\ admitted'[k] = IF Level(k) >= 1 THEN admitted[k] + 1 ELSE admitted[k]
      BY <2>1, <2>2, <2>3 DEF LimiterInv, LimiterTypes, LimiterTypeOK
    <3>2. admitted[k] + Level(k) <= Capacity + Refilled(clock - opened)
      BY <2>2, LevelCovered
    <3>3. Level(k) \in 0..Capacity
      BY <1>a, LevelBounds DEF LimiterInv, LimiterTypes
    <3>4. admitted'[k] + tokens'[k] = admitted[k] + Level(k)
      BY <1>a, <3>1, <3>3
    <3> QED BY <1>a, <3>1, <3>2, <3>4 DEF Accounted
  <2>4. CASE k # j
    <3>1. /\ updated'[k] = updated[k] /\ tokens'[k] = tokens[k]
          /\ admitted'[k] = admitted[k]
          /\ clock' = clock /\ opened' = opened
          /\ k \in cached' <=> k \in LiveBuckets
      BY <2>1, <2>2, <2>4 DEF LimiterInv, LimiterTypes, LimiterTypeOK
    <3>2. CASE k \in LiveBuckets
      BY <2>2, <3>1, <3>2 DEF LimiterInv, Accounted, LiveBuckets
    <3>3. CASE k \notin LiveBuckets
      <4>1. admitted[k] <= Refilled(clock - opened)
        BY <2>2, <3>3, ExpiredCovered
      <4> QED BY <1>a, <3>1, <3>3, <4>1 DEF Accounted
    <3> QED BY <3>2, <3>3
  <2> QED BY <2>3, <2>4
<1>4. CASE UNCHANGED limiterVars
  BY <1>4 DEF limiterVars, LimiterInv, Accounted
<1> QED BY <1>1, <1>2, <1>3, <1>4 DEF LimiterNext

LEMMA LimiterTypesInit == LimiterInit => LimiterTypes
  BY LimiterAssumption DEF LimiterInit, LimiterTypes, LimiterTypeOK

\* A bucket never owes tokens and never has more than a full one, for every
\* capacity, refill rate, time to live and cache size.
THEOREM BucketsInRange == LimiterSpec => []LimiterTypeOK
<1>1. LimiterTypes => LimiterTypeOK
  BY DEF LimiterTypes
<1>2. LimiterTypes /\ [LimiterNext]_limiterVars => LimiterTypes'
  BY StepTypeOK
<1> QED BY <1>1, <1>2, LimiterTypesInit, PTL DEF LimiterSpec

\* For every capacity, refill rate, time to live and cache size: if an idle
\* bucket is full again before it expires, no client whose bucket was not thrown
\* out of the full cache gets more than Capacity attempts plus the refill of the
\* window, in any window.
THEOREM RateBounded == Capacity <= IdleTTL * Refill => (LimiterSpec => []RateBound)
<1> SUFFICES ASSUME Capacity <= Refilled(IdleTTL) PROVE LimiterSpec => []RateBound
  BY DEF Refilled
<1>1. LimiterInit => LimiterInv
  <2> SUFFICES ASSUME LimiterInit PROVE LimiterInv
    OBVIOUS
  <2>1. LimiterTypes
    BY LimiterTypesInit
  <2>2. Refilled(0) \in Nat
    BY RefillSplits
  <2>3. \A k \in Fingerprints : Accounted(k)
    BY <2>2 DEF LimiterInit, Accounted
  <2> QED BY <2>1, <2>3 DEF LimiterInv
<1>2. LimiterInv /\ [LimiterNext]_limiterVars => LimiterInv'
  <2> SUFFICES ASSUME LimiterInv, [LimiterNext]_limiterVars PROVE LimiterInv'
    OBVIOUS
  <2>1. LimiterTypes'
    BY StepTypeOK DEF LimiterInv
  <2>2. \A k \in Fingerprints \ evicted' : Accounted(k)'
    BY StepAccounted
  <2> QED BY <2>1, <2>2 DEF LimiterInv
<1>3. LimiterInv => RateBound
  <2> SUFFICES ASSUME LimiterInv, NEW k \in Fingerprints \ evicted
               PROVE  admitted[k] <= Capacity + Refilled(clock - opened)
    BY DEF RateBound, Refilled
  <2>1. admitted[k] + Level(k) <= Capacity + Refilled(clock - opened)
    BY LevelCovered
  <2>2. Level(k) \in 0..Capacity
    BY LevelBounds DEF LimiterInv, LimiterTypes
  <2>3. clock - opened \in Nat
    BY DEF LimiterInv, LimiterTypes, LimiterTypeOK
  <2>4. Refilled(clock - opened) \in Nat
    BY <2>3, RefillSplits
  <2> QED BY <2>1, <2>2, <2>4, LimiterAssumption DEF LimiterInv, LimiterTypes, LimiterTypeOK
<1> QED BY <1>1, <1>2, <1>3, PTL DEF LimiterSpec
=============================================================================
