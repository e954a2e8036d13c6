-------------------------- MODULE MountpointProofs --------------------------
(***************************************************************************)
(* Proofs about what the caster keeps for a mountpoint: its entry in the   *)
(* directory (MountpointDirectory), for any mountpoints, any headers that  *)
(* base stations send and any number of registrations; and the quality of  *)
(* its signal (QualityPipeline), for any frames, cut into chunks anyhow,   *)
(* and any size of the queue and the window.  The two specifications have  *)
(* no variable in common; both go round loops over sequences.              *)
(***************************************************************************)
EXTENDS MountpointDirectory, QualityPipeline, Integers, FiniteSetTheorems,
        SequenceTheorems, WellFoundedInduction, TLAPS

\* The keys of _mountpoints in their order, each once, and their records.
Keyed ==
    /\ order \in Seq(Mountpoints) /\ IsInjective(order)
    /\ entry \in [Mountpoints -> Records \cup {None}]
    /\ \A k \in Mountpoints : entry[k] # None <=> k \in Registered
    /\ online \subseteq Registered
-----------------------------------------------------------------------------
(* Sequences without repetition.                                            *)

\* Removing one place of a sequence.
LEMMA RemoveEffect ==
    ASSUME NEW S, NEW s \in Seq(S), NEW p \in 1..Len(s)
    PROVE  /\ RemoveAt(s, p) \in Seq(S) /\ Len(RemoveAt(s, p)) = Len(s) - 1
           /\ Len(s) \in Nat /\ Len(s) # 0
           /\ \A i \in 1..(Len(s) - 1) :
                 RemoveAt(s, p)[i] = IF i < p THEN s[i] ELSE s[i + 1]
<1> DEFINE n == Len(s)
           front == SubSeq(s, 1, p - 1)
           back == SubSeq(s, p + 1, n)
<1>1. n \in Nat /\ n # 0 /\ p \in Nat /\ 1 <= p /\ p <= n /\ \A i \in 1..n : s[i] \in S
  BY LenProperties, ElementOfSeq
<1>2. front \in Seq(S) /\ Len(front) = p - 1 /\ \A i \in 1..(p - 1) : front[i] = s[i]
  <2>1. \A i \in 1..(p - 1) : s[i] \in S
    BY <1>1
  <2>2. /\ SubSeq(s, 1, p - 1) \in Seq(S)
        /\ Len(SubSeq(s, 1, p - 1)) = IF 1 <= p - 1 THEN p - 1 - 1 + 1 ELSE 0
        /\ \A i \in 1..(p - 1 - 1 + 1) : SubSeq(s, 1, p - 1)[i] = s[1 + i - 1]
    BY <1>1, <2>1, SubSeqProperties
  <2> QED BY <1>1, <2>2
<1>3. back \in Seq(S) /\ Len(back) = n - p /\ \A i \in 1..(n - p) : back[i] = s[p + i]
  <2>1. \A i \in (p + 1)..n : s[i] \in S
    BY <1>1
  <2>2. /\ SubSeq(s, p + 1, n) \in Seq(S)
        /\ Len(SubSeq(s, p + 1, n)) = IF p + 1 <= n THEN n - (p + 1) + 1 ELSE 0
        /\ \A i \in 1..(n - (p + 1) + 1) : SubSeq(s, p + 1, n)[i] = s[(p + 1) + i - 1]
    BY <1>1, <2>1, SubSeqProperties
  <2> QED BY <1>1, <2>2
<1>4. RemoveAt(s, p) = front \o back
  BY DEF RemoveAt
<1> HIDE DEF front, back
<1>5. /\ front \o back \in Seq(S) /\ Len(front \o back) = n - 1
      /\ \A i \in 1..(n - 1) : (front \o back)[i] =
            IF i <= p - 1 THEN front[i] ELSE back[i - (p - 1)]
  <2>1. Len(front) + Len(back) = n - 1
    BY <1>1, <1>2, <1>3
  <2>2. /\ front \o back \in Seq(S) /\ Len(front \o back) = Len(front) + Len(back)
        /\ \A i \in 1..(Len(front) + Len(back)) : (front \o back)[i] =
              IF i <= Len(front) THEN front[i] ELSE back[i - Len(front)]
    BY <1>2, <1>3, ConcatProperties
  <2> QED BY <1>2, <2>1, <2>2
<1> HIDE DEF n
<1>6. ASSUME NEW i \in 1..(n - 1)
      PROVE  (front \o back)[i] = IF i < p THEN s[i] ELSE s[i + 1]
  <2>1. CASE i < p
    <3>1. i <= p - 1 /\ i \in 1..(p - 1)
      BY <1>1, <2>1
    <3> QED BY <1>2, <1>5, <2>1, <3>1
  <2>2. CASE ~(i < p)
    <3>1. ~(i <= p - 1) /\ i - (p - 1) \in 1..(n - p) /\ p + (i - (p - 1)) = i + 1
      BY <1>1, <2>2
    <3> QED BY <1>3, <1>5, <2>2, <3>1
  <2> QED BY <2>1, <2>2
<1> QED BY <1>1, <1>4, <1>5, <1>6 DEF n

\* Removing the only place of an element.
LEMMA RemoveOnce ==
    ASSUME NEW S, NEW s \in Seq(S), IsInjective(s), NEW p \in DOMAIN s
    PROVE  /\ RemoveAt(s, p) \in Seq(S) /\ IsInjective(RemoveAt(s, p))
           /\ {RemoveAt(s, p)[i] : i \in DOMAIN RemoveAt(s, p)}
                 = {s[i] : i \in DOMAIN s} \ {s[p]}
<1> DEFINE t == RemoveAt(s, p)
           n == Len(s)
           Old(i) == IF i < p THEN i ELSE i + 1
<1>1. DOMAIN s = 1..n /\ p \in 1..n
  BY LenProperties
<1>2. /\ t \in Seq(S) /\ Len(t) = n - 1 /\ n \in Nat /\ n # 0
      /\ \A i \in 1..(n - 1) : t[i] = IF i < p THEN s[i] ELSE s[i + 1]
  BY <1>1, RemoveEffect
<1> HIDE DEF t, n
<1>3. DOMAIN t = 1..(n - 1)
  BY <1>2, LenProperties
<1>4. \A i \in 1..(n - 1) : t[i] = s[Old(i)] /\ Old(i) \in 1..n /\ Old(i) # p
  BY <1>1, <1>2
<1>5. \A i, j \in 1..(n - 1) : Old(i) = Old(j) => i = j
  BY <1>1, <1>2
<1>6. \A j \in 1..n : j # p => \E i \in 1..(n - 1) : Old(i) = j
  <2> SUFFICES ASSUME NEW j \in 1..n, j # p PROVE \E i \in 1..(n - 1) : Old(i) = j
    OBVIOUS
  <2>1. CASE j < p
    <3>1. j \in 1..(n - 1) /\ Old(j) = j
      BY <1>1, <1>2, <2>1
    <3> QED BY <3>1
  <2>2. CASE ~(j < p)
    <3>1. j - 1 \in 1..(n - 1) /\ Old(j - 1) = j
      BY <1>1, <1>2, <2>2
    <3> QED BY <3>1
  <2> QED BY <2>1, <2>2
<1> HIDE DEF Old
<1>7. IsInjective(t)
  BY <1>1, <1>3, <1>4, <1>5 DEF IsInjective
<1>8. {t[i] : i \in DOMAIN t} = {s[i] : i \in DOMAIN s} \ {s[p]}
  <2>1. \A i \in 1..(n - 1) : t[i] \in {s[j] : j \in DOMAIN s} \ {s[p]}
    BY <1>1, <1>4 DEF IsInjective
  <2>2. \A j \in 1..n : s[j] # s[p] => s[j] \in {t[i] : i \in DOMAIN t}
    <3> SUFFICES ASSUME NEW j \in 1..n, s[j] # s[p] PROVE \E i \in DOMAIN t : t[i] = s[j]
      OBVIOUS
    <3>1. PICK i \in 1..(n - 1) : Old(i) = j
      BY <1>6
    <3> QED BY <1>3, <1>4, <3>1
  <2> QED BY <1>1, <1>3, <2>1, <2>2
<1> QED BY <1>2, <1>7, <1>8 DEF t
-----------------------------------------------------------------------------
(* Records.                                                                 *)

\* parse_ntrip_str gives every field a value of its type: a coordinate out of
\* range does not pass.
LEMMA ParseGives ==
    ASSUME NEW k \in Mountpoints, NEW h \in Headers
    PROVE  Parse(h, k) \in Records
<1> USE DirectoryAssumption
<1>1. h \in AllHeaders
  OBVIOUS
<1>2. Given(h.name, k) \in Names
  BY <1>1 DEF AllHeaders, Given
<1>3. Given(h.identifier, None) \in {None, "label"}
  BY <1>1 DEF AllHeaders, Given
<1>4. Given(h.text, "") \in {"", "given"}
  BY <1>1 DEF AllHeaders, Given
<1>5. (IF h.long THEN Given(h.country, "UNK") ELSE "UNK") \in Countries \cup {"UNK", None}
  BY <1>1, Zenon DEF AllHeaders, Given
<1>6. <<Coordinate(h, h.lat), Coordinate(h, h.lon)>> \in Places \cup {None}
  <2>1. Coordinate(h, h.lat) \in Degrees /\ Coordinate(h, h.lon) \in Degrees
    BY Zenon DEF Coordinate
  <2> QED BY <2>1 DEF Places
<1>7. Given(h.nmea, FALSE) \in BOOLEAN
  BY <1>1, Zenon DEF AllHeaders, Given
<1> QED BY <1>2, <1>3, <1>4, <1>5, <1>6, <1>7, Zenon DEF Parse, Records

LEMMA BlankGives ==
    ASSUME NEW k \in Mountpoints
    PROVE  Blank(k) \in Records
  BY DirectoryAssumption DEF Blank, Records
-----------------------------------------------------------------------------
(* The steps.                                                               *)

LEMMA RegisteredKnown == ASSUME Keyed PROVE Registered \subseteq Mountpoints
  BY LenProperties, ElementOfSeq DEF Keyed, Registered

LEMMA KeepNew ==
    ASSUME Keyed, NEW k \in Mountpoints, NEW mp \in Records, RegisterNew(k, mp)
    PROVE  Keyed'
<1> DEFINE r == [mp EXCEPT !.name = k]
<1>1. r \in Records /\ r.name = k /\ (Valid(mp) => Valid(r))
  BY DirectoryAssumption DEF Records, Valid
<1>2. /\ k \notin Registered /\ Valid(mp) /\ order' = Append(order, k)
      /\ entry' = [entry EXCEPT ![k] = r]
      /\ online' = online \cup {k}
  BY DEF RegisterNew
<1> HIDE DEF r
<1>3. order' \in Seq(Mountpoints) /\ IsInjective(order') /\ Registered' = Registered \cup {k}
  <2> DEFINE n == Len(order)
  <2>1. \A i \in DOMAIN order : order[i] # k
    BY <1>2 DEF Registered
  <2>2. order \in Seq(Mountpoints) /\ IsInjective(order)
    BY DEF Keyed
  <2>3. /\ n \in Nat /\ DOMAIN order = 1..n
        /\ order' \in Seq(Mountpoints) /\ DOMAIN order' = 1..(n + 1)
        /\ \A i \in 1..n : order'[i] = order[i]
        /\ order'[n + 1] = k
    BY <1>2, <2>2, AppendProperties, LenProperties
  <2> HIDE DEF n
  <2>4. /\ \A i \in 1..(n + 1) : i \in 1..n \/ i = n + 1
        /\ 1..n \subseteq 1..(n + 1) /\ n + 1 \in 1..(n + 1)
    BY <2>3
  <2>5. IsInjective(order')
    BY <2>1, <2>2, <2>3, <2>4 DEF IsInjective
  <2>6. {order'[i] : i \in DOMAIN order'} = {order[i] : i \in DOMAIN order} \cup {k}
    BY <2>3, <2>4
  <2> QED BY <2>3, <2>5, <2>6, Zenon DEF Registered
<1>4. /\ entry' \in [Mountpoints -> Records \cup {None}] /\ entry'[k] = r
      /\ \A x \in Mountpoints : x # k => entry'[x] = entry[x]
  BY <1>1, <1>2 DEF Keyed
<1>5. Keyed'
  BY <1>1, <1>2, <1>3, <1>4, DirectoryAssumption DEF Keyed
<1> QED BY <1>5

LEMMA KeepAgain ==
    ASSUME Keyed, NEW k \in Mountpoints, NEW mp \in Records, RegisterAgain(k, mp)
    PROVE  Keyed'
<1> DEFINE r == [mp EXCEPT !.identifier = entry[k].identifier]
<1>1. k \in Registered /\ entry[k] \in Records
  BY DEF RegisterAgain, Keyed
<1>2. r \in Records
  BY <1>1 DEF Records
<1>3. /\ entry' = [entry EXCEPT ![k] = r] /\ online' = online \cup {k}
      /\ order' = order
  BY DEF RegisterAgain
<1> HIDE DEF r
<1>4. Registered' = Registered
  BY <1>3 DEF Registered
<1>5. /\ entry' \in [Mountpoints -> Records \cup {None}] /\ entry'[k] = r
      /\ \A x \in Mountpoints : x # k => entry'[x] = entry[x]
  BY <1>2, <1>3 DEF Keyed
<1>6. Keyed'
  BY <1>1, <1>2, <1>3, <1>4, <1>5, DirectoryAssumption DEF Keyed
<1> QED BY <1>6

LEMMA KeepUnregister ==
    ASSUME Keyed, NEW k \in Mountpoints, Unregister(k)
    PROVE  Keyed'
<1>1. PICK i \in DOMAIN order : order[i] = k /\ order' = RemoveAt(order, i)
  BY DEF Unregister
<1>2. /\ entry' = [entry EXCEPT ![k] = None]
      /\ online' = online \ {k}
  BY DEF Unregister
<1>3. order' \in Seq(Mountpoints) /\ IsInjective(order') /\ Registered' = Registered \ {k}
  <2>1. order \in Seq(Mountpoints) /\ IsInjective(order)
    BY DEF Keyed
  <2>2. /\ RemoveAt(order, i) \in Seq(Mountpoints) /\ IsInjective(RemoveAt(order, i))
        /\ {RemoveAt(order, i)[j] : j \in DOMAIN RemoveAt(order, i)}
              = {order[j] : j \in DOMAIN order} \ {order[i]}
    BY <2>1, RemoveOnce
  <2> QED BY <1>1, <2>2, Zenon DEF Registered
<1>4. /\ entry' \in [Mountpoints -> Records \cup {None}] /\ entry'[k] = None
      /\ \A x \in Mountpoints : x # k => entry'[x] = entry[x]
  BY <1>2 DEF Keyed
<1>5. Keyed'
  BY <1>2, <1>3, <1>4 DEF Keyed
<1> QED BY <1>5

\* Only the transports change.
LEMMA KeepOnline ==
    ASSUME Keyed, UNCHANGED <<order, entry>>, online' \subseteq Registered
    PROVE  Keyed'
<1>1. Registered' = Registered
  BY DEF Registered
<1> QED BY <1>1 DEF Keyed

LEMMA NextInv == Keyed /\ [Next]_vars => Keyed'
<1> SUFFICES ASSUME Keyed, [Next]_vars PROVE Keyed'
  OBVIOUS
<1>0. online \subseteq Registered
  BY DEF Keyed
<1>a. ASSUME UNCHANGED vars PROVE Keyed'
  BY <1>a, <1>0, KeepOnline DEF vars
<1>1. ASSUME NEW k \in Mountpoints, NEW h \in Headers, PutWithHeader(k, h) PROVE Keyed'
  <2>1. Parse(h, k) \in Records
    BY ParseGives
  <2>2. CASE RegisterNew(k, Parse(h, k))
    BY <2>1, <2>2, KeepNew
  <2>3. CASE RegisterRefused(k, Parse(h, k))
    BY <1>a, <2>3 DEF RegisterRefused
  <2>4. CASE RegisterAgain(k, Parse(h, k))
    BY <2>1, <2>4, KeepAgain
  <2> QED BY <1>1, <2>2, <2>3, <2>4 DEF PutWithHeader
<1>2. ASSUME NEW k \in Mountpoints, PutWithoutHeader(k) PROVE Keyed'
  <2>1. CASE RegisterNew(k, Blank(k))
    BY <2>1, BlankGives, KeepNew
  <2>2. CASE k \in Registered /\ online' = online \cup {k} /\ UNCHANGED <<order, entry>>
    <3>1. online' \subseteq Registered
      BY <1>0, <2>2
    <3> QED BY <2>2, <3>1, KeepOnline
  <2> QED BY <1>2, <2>1, <2>2 DEF PutWithoutHeader
<1>3. ASSUME NEW k \in Mountpoints, Close(k) PROVE Keyed'
  <2>1. online' \subseteq Registered /\ UNCHANGED <<order, entry>>
    BY <1>0, <1>3 DEF Close
  <2> QED BY <2>1, KeepOnline
<1>4. ASSUME NEW k \in Mountpoints, Unregister(k) PROVE Keyed'
  BY <1>4, KeepUnregister
<1> QED BY <1>1, <1>2, <1>3, <1>4, <1>a DEF Next

LEMMA InitInv == Init => Keyed
<1> SUFFICES ASSUME Init PROVE Keyed
  OBVIOUS
<1>1. /\ order = <<>> /\ order \in Seq(Mountpoints) /\ DOMAIN order = {}
      /\ entry = [k \in Mountpoints |-> None] /\ online = {}
  BY DEF Init
<1>2. Registered = {} /\ IsInjective(order)
  BY <1>1 DEF Registered, IsInjective
<1> QED BY <1>1, <1>2 DEF Keyed

LEMMA Inductive == Spec => []Keyed
  BY InitInv, NextInv, PTL DEF Spec
-----------------------------------------------------------------------------
(* The theorems.                                                            *)

\* The dictionaries of NTRIPCaster stay in step and no registration, validated
\* or not, brings coordinates out of range into the directory.
THEOREM TypeCorrect == Spec => []TypeOK
<1>1. Keyed => TypeOK
  <2> SUFFICES ASSUME Keyed PROVE TypeOK
    OBVIOUS
  <2>1. Registered \subseteq Mountpoints
    BY RegisteredKnown
  <2>2. ASSUME NEW k \in Registered PROVE entry[k].place \in Places \cup {None}
    <3>1. entry[k] \in Records
      BY <2>1, <2>2 DEF Keyed
    <3> QED BY <3>1 DEF Records
  <2> QED BY <2>1, <2>2 DEF Keyed, TypeOK
<1> QED BY <1>1, Inductive, PTL
-----------------------------------------------------------------------------
(* Loops.  Induction over the turns of a loop is induction over a set of    *)
(* numbers, which has a least element outside unless it has all of them.    *)

\* A set that has 0, and with a number the next one, has them all.
LEMMA SetInduction ==
    ASSUME NEW S, 0 \in S, \A n \in Nat : n \in S => n + 1 \in S
    PROVE  Nat \subseteq S
<1> DEFINE R == OpToRel(<, Nat)
           T == Nat \ S
<1>1. IsWellFoundedOn(R, Nat)
  BY NatLessThanWellFounded
<1>2. \A x, y \in Nat : x < y => <<x, y>> \in R
  BY DEF OpToRel
<1> HIDE DEF R
<1> SUFFICES ASSUME T # {} PROVE FALSE
  OBVIOUS
<1>3. PICK x \in T : \A y \in T : ~ (<<y, x>> \in R)
  BY <1>1, WFMin
<1>4. x # 0 /\ x - 1 \in Nat /\ x - 1 < x
  OBVIOUS
<1>5. x - 1 \in S
  BY <1>2, <1>3, <1>4
<1> QED BY <1>4, <1>5

\* f is what a loop over 1..n has after each turn, when its i-th turn is step[i].
IsRun(f, n, start, step) ==
    f[0] = start /\ \A i \in 1..n : f[i] = step[i][f[i - 1]]

LEMMA LoopRuns ==
    ASSUME NEW n \in Nat, NEW V, NEW start \in V, NEW step \in [1..n -> [V -> V]]
    PROVE  \E f \in [0..n -> V] : IsRun(f, n, start, step)
<1> DEFINE Runs(m, f) == f[0] = start /\ \A i \in 1..m : f[i] = step[i][f[i - 1]]
           S == {m \in Nat : m <= n => \E f \in [0..m -> V] : Runs(m, f)}
<1>1. 0 \in S
  <2> DEFINE f == [i \in 0..0 |-> start]
  <2>1. f \in [0..0 -> V] /\ Runs(0, f)
    OBVIOUS
  <2> QED BY <2>1
<1>2. ASSUME NEW m \in Nat, m \in S PROVE m + 1 \in S
  <2> SUFFICES ASSUME m + 1 <= n PROVE \E f \in [0..(m + 1) -> V] : Runs(m + 1, f)
    OBVIOUS
  <2>1. PICK f \in [0..m -> V] : Runs(m, f)
    BY <1>2
  <2> DEFINE g == [i \in 0..(m + 1) |-> IF i = m + 1 THEN step[m + 1][f[m]] ELSE f[i]]
  <2>2. step[m + 1][f[m]] \in V
    OBVIOUS
  <2>3. g \in [0..(m + 1) -> V]
    BY <2>2
  <2>4. g[0] = start
    BY <2>1
  <2>5. ASSUME NEW i \in 1..(m + 1) PROVE g[i] = step[i][g[i - 1]]
    <3>1. CASE i = m + 1
      BY <3>1
    <3>2. CASE i # m + 1
      BY <2>1, <3>2
    <3> QED BY <3>1, <3>2
  <2> QED BY <2>3, <2>4, <2>5
<1> HIDE DEF S
<1>3. n \in S
  BY <1>1, <1>2, SetInduction
<1> QED BY <1>3 DEF S, IsRun
-----------------------------------------------------------------------------
(* The choice of NEAREST.                                                   *)

\* The places among the first i that have coordinates.
Located(i) == {j \in 1..i : entry[order[j]].place # None}

\* The distance of the i-th mountpoint.
Dist(p, i) == Distance[entry[order[i]].place, p]

\* The j-th is closer than the l-th, or as close and not after it.
Ahead(p, j, l) == Dist(p, j) < Dist(p, l) \/ (Dist(p, j) = Dist(p, l) /\ j <= l)

\* What the loop has found after i turns: the first of the closest.
Found(p, i, b) ==
    IF Located(i) = {} THEN b = None
    ELSE \E j \in Located(i) :
            /\ b = order[j]
            /\ \A l \in Located(i) : Ahead(p, j, l)

LEMMA PlacesKnown ==
    ASSUME Keyed
    PROVE  /\ Len(order) \in Nat /\ DOMAIN order = 1..Len(order)
           /\ \A i \in 1..Len(order) :
                 /\ order[i] \in Mountpoints /\ order[i] # None
                 /\ entry[order[i]].place \in Places \cup {None}
<1>1. order \in Seq(Mountpoints)
  BY DEF Keyed
<1>2. Len(order) \in Nat /\ DOMAIN order = 1..Len(order) /\ \A i \in 1..Len(order) : order[i] \in Mountpoints
  BY <1>1, LenProperties, ElementOfSeq
<1>3. ASSUME NEW i \in 1..Len(order) PROVE entry[order[i]].place \in Places \cup {None}
  <2>1. order[i] \in Registered
    BY <1>2 DEF Registered
  <2>2. entry[order[i]] \in Records
    BY <1>2, <2>1 DEF Keyed
  <2> QED BY <2>2 DEF Records
<1> QED BY <1>2, <1>3, DirectoryAssumption

\* One turn keeps it.
LEMMA TurnFinds ==
    ASSUME Keyed, NEW p \in Places, NEW i \in 1..Len(order), NEW b,
           Found(p, i - 1, b)
    PROVE  Found(p, i, Better(p, order[i], b))
<1> DEFINE k == order[i]
           old == Located(i - 1)
           better == Better(p, k, b)
<1>1. i \in Nat /\ i - 1 \in Nat /\ k # None
  BY PlacesKnown
<1>2. \A j \in old : j \in 1..Len(order) /\ j <= i /\ Dist(p, j) \in Nat
  <2> SUFFICES ASSUME NEW j \in old PROVE j \in 1..Len(order) /\ j <= i /\ Dist(p, j) \in Nat
    OBVIOUS
  <2>1. j \in 1..Len(order) /\ j <= i /\ entry[order[j]].place # None
    BY PlacesKnown DEF Located
  <2>2. entry[order[j]].place \in Places
    BY <2>1, PlacesKnown
  <2> QED BY <2>1, <2>2, DirectoryAssumption DEF Dist
<1>3. CASE entry[k].place = None
  <2>1. better = b /\ Located(i) = old
    BY <1>1, <1>3 DEF Better, Located
  <2> QED BY <2>1 DEF Found
<1>4. CASE entry[k].place # None
  <2>1. Located(i) = old \cup {i}
    BY <1>1, <1>4 DEF Located
  <2>2. Dist(p, i) \in Nat
    BY <1>4, PlacesKnown, DirectoryAssumption DEF Dist
  <2>3. CASE old = {}
    <3>1. b = None /\ better = k
      BY <1>4, <2>3 DEF Found, Better, Closer
    <3>2. i \in Located(i) /\ better = order[i] /\ \A l \in Located(i) : Ahead(p, i, l)
      BY <1>1, <2>1, <2>3, <3>1 DEF Ahead
    <3> QED BY <3>2, Zenon DEF Found
  <2>4. CASE old # {}
    <3>1. PICK j \in old : /\ b = order[j]
                           /\ \A l \in old : Ahead(p, j, l)
      BY <2>4 DEF Found
    <3>2. b # None /\ (Closer(p, k, b) <=> Dist(p, i) < Dist(p, j))
      BY <1>2, <3>1, PlacesKnown DEF Closer, Dist
    <3>3. CASE Dist(p, i) < Dist(p, j)
      <4>1. better = k
        BY <1>4, <3>2, <3>3 DEF Better
      <4>2. \A l \in old : Dist(p, i) < Dist(p, l)
        BY <1>2, <2>2, <3>1, <3>3 DEF Ahead
      <4>3. /\ i \in Located(i) /\ better = order[i]
            /\ \A l \in Located(i) : Ahead(p, i, l)
        BY <1>1, <2>1, <4>1, <4>2 DEF Ahead
      <4> QED BY <4>3, Zenon DEF Found
    <3>4. CASE ~(Dist(p, i) < Dist(p, j))
      <4>1. better = b
        BY <3>2, <3>4 DEF Better
      <4>2. Dist(p, j) < Dist(p, i) \/ (Dist(p, j) = Dist(p, i) /\ j <= i)
        BY <1>2, <2>2, <3>4
      <4>3. /\ j \in Located(i) /\ better = order[j]
            /\ \A l \in Located(i) : Ahead(p, j, l)
        BY <2>1, <3>1, <4>1, <4>2 DEF Ahead
      <4> QED BY <4>3, Zenon DEF Found
    <3> QED BY <3>3, <3>4
  <2> QED BY <2>3, <2>4
<1> QED BY <1>3, <1>4

\* The loop is a function: best[i] is defined for every i.
LEMMA LoopResult ==
    ASSUME Keyed, NEW p \in Places
    PROVE  \E f : /\ Nearest(p) = f[Len(order)] /\ f[0] = None
                  /\ \A i \in 1..Len(order) : f[i] = Better(p, order[i], f[i - 1])
<1> DEFINE n == Len(order)
           V == Mountpoints \cup {None}
           step == [i \in 1..n |-> [b \in V |-> Better(p, order[i], b)]]
           Is(f) == f = [i \in 0..n |-> IF i = 0 THEN None ELSE Better(p, order[i], f[i - 1])]
<1>1. n \in Nat /\ None \in V /\ step \in [1..n -> [V -> V]]
  BY PlacesKnown DEF Better
<1>2. PICK f \in [0..n -> V] : f[0] = None /\ \A i \in 1..n : f[i] = step[i][f[i - 1]]
  <2> HIDE DEF n, V, step
  <2>1. \E f \in [0..n -> V] : IsRun(f, n, None, step)
    BY <1>1, LoopRuns
  <2> QED BY <2>1 DEF IsRun
<1>3. \A i \in 1..n : f[i] = Better(p, order[i], f[i - 1])
  <2> HIDE DEF n
  <2> SUFFICES ASSUME NEW i \in 1..n PROVE f[i] = Better(p, order[i], f[i - 1])
    OBVIOUS
  <2>1. i - 1 \in 0..n
    BY <1>1
  <2>2. f[i - 1] \in V
    BY <1>2, <2>1
  <2> QED BY <1>2, <2>2
<1> HIDE DEF n, V, step
<1>4. Is(f)
  <2>1. \A i \in 0..n : i = 0 \/ i \in 1..n
    BY <1>1
  <2> QED BY <1>2, <1>3, <2>1
<1> DEFINE g == CHOOSE f_1 : Is(f_1)
<1>5. Is(g)
  BY <1>4
<1>6. Nearest(p) = g[n]
  BY DEF Nearest, n
<1> HIDE DEF g
<1>7. g[0] = None /\ \A i \in 1..n : g[i] = Better(p, order[i], g[i - 1])
  <2>1. 0 \in 0..n /\ \A i \in 1..n : i \in 0..n /\ i # 0
    BY <1>1
  <2> QED BY <1>5, <2>1
<1> QED BY <1>6, <1>7 DEF n

\* For every rover position NEAREST is the first registered of the mountpoints that
\* no other one is closer than, however many there are: find_and_read's loop.
THEOREM NearestIsClosest == Spec => []NearestIsFirstClosest
<1>1. ASSUME Keyed PROVE NearestIsFirstClosest
  <2> SUFFICES ASSUME NEW p \in Places PROVE Found(p, Len(order), Nearest(p))
    BY <1>1, PlacesKnown DEF NearestIsFirstClosest, Found, Located, Ahead, Dist
  <2>1. PICK f : /\ Nearest(p) = f[Len(order)] /\ f[0] = None
                 /\ \A i \in 1..Len(order) : f[i] = Better(p, order[i], f[i - 1])
    BY <1>1, LoopResult
  <2> DEFINE S == {i \in Nat : i <= Len(order) => Found(p, i, f[i])}
  <2>2. 0 \in S
    BY <2>1 DEF Found, Located
  <2>3. ASSUME NEW i \in Nat, i \in S PROVE i + 1 \in S
    <3> SUFFICES ASSUME i + 1 <= Len(order) PROVE Found(p, i + 1, f[i + 1])
      OBVIOUS
    <3>1. i + 1 \in 1..Len(order) /\ (i + 1) - 1 = i /\ Found(p, i, f[i])
      BY <1>1, <2>3, PlacesKnown
    <3>2. Found(p, i + 1, Better(p, order[i + 1], f[i]))
      BY <1>1, <3>1, TurnFinds
    <3> QED BY <2>1, <3>1, <3>2
  <2> HIDE DEF S
  <2>4. Len(order) \in S
    BY <1>1, <2>2, <2>3, PlacesKnown, SetInduction
  <2> QED BY <1>1, <2>1, <2>4, PlacesKnown DEF S
<1> QED BY <1>1, Inductive, PTL
-----------------------------------------------------------------------------
(* Concatenations.                                                          *)

\* f has the concatenation of the first i pieces for every i.
Joins(f, pieces) ==
    f[0] = <<>> /\ \A i \in 1..Len(pieces) : f[i] = f[i - 1] \o pieces[i]

\* Concatenation is associative.
Regroups(a, b, c) == (a \o b) \o c = a \o (b \o c)

LEMMA Regrouped ==
    ASSUME NEW S, NEW a \in Seq(S), NEW b \in Seq(S), NEW c \in Seq(S)
    PROVE  Regroups(a, b, c)
BY SMT DEF Regroups

LEMMA JoinedRun ==
    ASSUME NEW S, NEW pieces \in Seq(Seq(S))
    PROVE  \E f \in [0..Len(pieces) -> Seq(S)] :
              Joined(pieces) = f[Len(pieces)] /\ Joins(f, pieces)
<1> DEFINE n == Len(pieces)
           V == Seq(S)
           step == [i \in 1..n |-> [s \in V |-> s \o pieces[i]]]
           Is(f) == f = [i \in 0..n |-> IF i = 0 THEN <<>> ELSE f[i - 1] \o pieces[i]]
<1>1. n \in Nat /\ <<>> \in V /\ \A i \in 1..n : pieces[i] \in V
  BY LenProperties, ElementOfSeq, EmptySeq
<1>2. step \in [1..n -> [V -> V]]
  <2>1. \A i \in 1..n : \A s \in V : s \o pieces[i] \in V
    BY <1>1, ConcatProperties
  <2> QED BY <2>1
<1>3. PICK f \in [0..n -> V] : f[0] = <<>> /\ \A i \in 1..n : f[i] = step[i][f[i - 1]]
  <2> HIDE DEF n, V, step
  <2>1. \E f \in [0..n -> V] : IsRun(f, n, <<>>, step)
    BY <1>1, <1>2, LoopRuns
  <2> QED BY <2>1 DEF IsRun
<1>4. ASSUME NEW i \in 1..n PROVE f[i] = f[i - 1] \o pieces[i]
  <2>1. i - 1 \in 0..n
    BY <1>1
  <2>2. f[i - 1] \in V
    BY <1>3, <2>1
  <2> QED BY <1>3, <2>2
<1>5. Is(f)
  <2>1. \A i \in 0..n : i = 0 \/ i \in 1..n
    BY <1>1
  <2> HIDE DEF n, V
  <2> QED BY <1>3, <1>4, <2>1
<1> DEFINE g == CHOOSE h : Is(h)
<1>6. Is(g) /\ Joined(pieces) = g[n]
  BY <1>5 DEF Joined
<1> HIDE DEF g, n, V, step
<1>7. g[0] = <<>> /\ \A i \in 1..n : g[i] = g[i - 1] \o pieces[i]
  <2>1. 0 \in 0..n /\ \A i \in 1..n : i \in 0..n /\ i # 0
    BY <1>1
  <2> QED BY <1>6, <2>1
<1>8. g \in [0..n -> V]
  <2> DEFINE T == {i \in Nat : i <= n => g[i] \in V}
  <2>1. 0 \in T
    BY <1>1, <1>7
  <2>2. ASSUME NEW i \in Nat, i \in T PROVE i + 1 \in T
    <3> SUFFICES ASSUME i + 1 <= n PROVE g[i + 1] \in V
      OBVIOUS
    <3>1. i + 1 \in 1..n /\ (i + 1) - 1 = i /\ g[i] \in V
      BY <1>1, <2>2
    <3>2. g[i + 1] = g[i] \o pieces[i + 1] /\ pieces[i + 1] \in V
      BY <1>1, <1>7, <3>1
    <3> QED BY <3>1, <3>2, ConcatProperties DEF V
  <2> HIDE DEF T
  <2>3. Nat \subseteq T
    BY <2>1, <2>2, SetInduction
  <2>4. \A i \in 0..n : g[i] \in V
    BY <1>1, <2>3 DEF T
  <2> QED BY <1>6, <2>4
<1> QED BY <1>6, <1>7, <1>8 DEF Joins, n, V

\* The concatenation is determined by its turns.
LEMMA JoinedValue ==
    ASSUME NEW S, NEW pieces \in Seq(Seq(S)), NEW f, Joins(f, pieces)
    PROVE  Joined(pieces) = f[Len(pieces)]
<1> DEFINE n == Len(pieces)
<1>1. PICK g \in [0..n -> Seq(S)] : Joined(pieces) = g[n] /\ Joins(g, pieces)
  BY JoinedRun
<1> DEFINE T == {i \in Nat : i <= n => f[i] = g[i]}
<1>2. n \in Nat
  BY LenProperties
<1>3. 0 \in T
  BY <1>1 DEF Joins
<1>4. ASSUME NEW i \in Nat, i \in T PROVE i + 1 \in T
  <2> SUFFICES ASSUME i + 1 <= n PROVE f[i + 1] = g[i + 1]
    OBVIOUS
  <2>1. i + 1 \in 1..n /\ (i + 1) - 1 = i /\ f[i] = g[i]
    BY <1>2, <1>4
  <2> QED BY <1>1, <2>1 DEF Joins
<1> HIDE DEF T
<1>5. n \in T
  BY <1>2, <1>3, <1>4, SetInduction
<1> QED BY <1>1, <1>2, <1>5 DEF T

LEMMA JoinedType ==
    ASSUME NEW S, NEW pieces \in Seq(Seq(S)) PROVE Joined(pieces) \in Seq(S)
<1>1. PICK f \in [0..Len(pieces) -> Seq(S)] : Joined(pieces) = f[Len(pieces)]
  BY JoinedRun
<1>2. Len(pieces) \in 0..Len(pieces)
  BY LenProperties
<1> QED BY <1>1, <1>2

\* Nothing but empty pieces.
LEMMA JoinedNothing ==
    ASSUME NEW S, NEW pieces \in Seq(Seq(S)), \A i \in 1..Len(pieces) : pieces[i] = <<>>
    PROVE  Joined(pieces) = <<>>
<1> DEFINE n == Len(pieces)
           f == [i \in 0..n |-> <<>>]
<1>1. n \in Nat
  BY LenProperties
<1>2. <<>> \o <<>> = <<>>
  BY ConcatEmptySeq, EmptySeq
<1>3. f[0] = <<>> /\ \A i \in 1..n : f[i] = <<>> /\ f[i - 1] = <<>>
  BY <1>1
<1> HIDE DEF f
<1>4. Joins(f, pieces)
  BY <1>2, <1>3 DEF Joins
<1>5. Joined(pieces) = f[n]
  BY <1>4, JoinedValue
<1>6. f[n] = <<>>
  <2>1. n = 0 \/ n \in 1..n
    BY <1>1
  <2> QED BY <1>3, <2>1
<1> QED BY <1>5, <1>6

\* One more piece at the end.
LEMMA JoinedAppend ==
    ASSUME NEW S, NEW pieces \in Seq(Seq(S)), NEW piece \in Seq(S)
    PROVE  Joined(Append(pieces, piece)) = Joined(pieces) \o piece
<1> DEFINE n == Len(pieces)
           more == Append(pieces, piece)
<1>1. /\ n \in Nat /\ more \in Seq(Seq(S)) /\ Len(more) = n + 1
      /\ \A i \in 1..n : more[i] = pieces[i]
      /\ more[n + 1] = piece
  BY LenProperties, AppendProperties
<1> HIDE DEF more
<1>2. PICK f : Joined(more) = f[n + 1] /\ Joins(f, more)
  BY <1>1, JoinedRun
<1>3. Joins(f, pieces)
  <2>1. \A i \in 1..n : i \in 1..Len(more)
    BY <1>1
  <2> QED BY <1>1, <1>2, <2>1 DEF Joins
<1>4. Joined(pieces) = f[n]
  BY <1>3, JoinedValue
<1>5. f[n + 1] = f[n] \o piece
  <2>1. n + 1 \in 1..Len(more) /\ (n + 1) - 1 = n
    BY <1>1
  <2> QED BY <1>1, <1>2, <2>1 DEF Joins
<1> QED BY <1>2, <1>4, <1>5 DEF more

\* The first piece and the others.
LEMMA JoinedFirst ==
    ASSUME NEW S, NEW pieces \in Seq(Seq(S)), pieces # <<>>
    PROVE  Joined(pieces) = Head(pieces) \o Joined(Tail(pieces))
<1> DEFINE n == Len(pieces)
           rest == Tail(pieces)
           first == Head(pieces)
<1>1. /\ n \in Nat /\ n # 0 /\ rest \in Seq(Seq(S)) /\ Len(rest) = n - 1 /\ first \in Seq(S)
      /\ \A i \in 1..(n - 1) : rest[i] = pieces[i + 1]
      /\ first = pieces[1]
  BY LenProperties, HeadTailProperties, EmptySeq
<1> HIDE DEF n, rest, first
<1>2. PICK g \in [0..(n - 1) -> Seq(S)] : Joined(rest) = g[n - 1] /\ Joins(g, rest)
  BY <1>1, JoinedRun
<1>3. /\ g[0] = <<>>
      /\ \A i \in 1..(n - 1) : /\ g[i] = g[i - 1] \o pieces[i + 1]
                               /\ g[i - 1] \in Seq(S)
                               /\ pieces[i + 1] \in Seq(S)
  <2>1. \A i \in 1..(n - 1) : i - 1 \in 0..(n - 1) /\ i + 1 \in 1..n
    BY <1>1
  <2>2. \A i \in 1..n : pieces[i] \in Seq(S)
    BY ElementOfSeq DEF n
  <2> QED BY <1>1, <1>2, <2>1, <2>2 DEF Joins
<1> DEFINE f == [i \in 0..n |-> IF i = 0 THEN <<>> ELSE first \o g[i - 1]]
<1>4. f[0] = <<>> /\ \A i \in 1..n : f[i] = first \o g[i - 1]
  <2>1. 0 \in 0..n /\ \A i \in 1..n : i \in 0..n /\ i # 0
    BY <1>1
  <2> QED BY <2>1
<1> HIDE DEF f
<1>5. ASSUME NEW i \in 1..n PROVE f[i] = f[i - 1] \o pieces[i]
  <2>1. CASE i = 1
    <3>1. i - 1 = 0
      BY <2>1
    <3>2. f[i] = first \o <<>> /\ f[i - 1] \o pieces[i] = <<>> \o first
      BY <1>1, <1>3, <1>4, <2>1, <3>1
    <3> QED BY <1>1, <3>2, ConcatEmptySeq
  <2>2. CASE i # 1
    <3> DEFINE j == i - 1
    <3>1. j \in 1..(n - 1) /\ j + 1 = i /\ j \in 1..n /\ i - 1 = j
      BY <1>1, <2>2
    <3> HIDE DEF j
    <3>2. f[i] = first \o (g[j - 1] \o pieces[i]) /\ f[j] = first \o g[j - 1]
      BY <1>3, <1>4, <3>1
    <3>3. g[j - 1] \in Seq(S) /\ pieces[i] \in Seq(S)
      BY <1>3, <3>1
    <3>4. first \o (g[j - 1] \o pieces[i]) = (first \o g[j - 1]) \o pieces[i]
      <4>1. Regroups(first, g[j - 1], pieces[i])
        BY <1>1, <3>3, Regrouped
      <4> QED BY <4>1, Zenon DEF Regroups
    <3> QED BY <3>1, <3>2, <3>4
  <2> QED BY <2>1, <2>2
<1>6. Joins(f, pieces)
  BY <1>4, <1>5 DEF Joins, n
<1>7. Joined(pieces) = f[n]
  BY <1>6, JoinedValue DEF n
<1>8. n \in 1..n
  BY <1>1
<1> QED BY <1>2, <1>4, <1>7, <1>8 DEF rest, first

\* Two ways to divide a sequence, the first part of the one being the longer.
LEMMA Divided ==
    ASSUME NEW S, NEW a \in Seq(S), NEW b \in Seq(S), NEW c \in Seq(S), NEW d \in Seq(S),
           a \o b = c \o d
    PROVE  /\ \A i \in 1..Len(a) : i <= Len(c) => a[i] = c[i]
           /\ Len(c) <= Len(a) =>
                /\ SubSeq(a, 1, Len(c)) = c
                /\ SubSeq(a, Len(c) + 1, Len(a)) \o b = d
<1> DEFINE la == Len(a)
           lb == Len(b)
           lc == Len(c)
           ld == Len(d)
           whole == a \o b
<1>1. /\ la \in Nat /\ lb \in Nat /\ lc \in Nat /\ ld \in Nat
      /\ la + lb = lc + ld /\ Len(whole) = la + lb
  <2>1. Len(a \o b) = la + lb /\ Len(c \o d) = lc + ld
    BY ConcatProperties
  <2> QED BY <2>1, LenProperties
<1>2. \A i \in 1..(la + lb) : whole[i] = IF i <= la THEN a[i] ELSE b[i - la]
  BY ConcatProperties
<1>3. \A i \in 1..(lc + ld) : whole[i] = IF i <= lc THEN c[i] ELSE d[i - lc]
  BY ConcatProperties
<1> HIDE DEF whole
<1>4. \A i \in 1..la : i <= lc => a[i] = c[i]
  <2> SUFFICES ASSUME NEW i \in 1..la, i <= lc PROVE a[i] = c[i]
    OBVIOUS
  <2>1. i \in 1..(la + lb) /\ i <= la
    BY <1>1
  <2> QED BY <1>1, <1>2, <1>3, <2>1
<1>5. ASSUME lc <= la
      PROVE  SubSeq(a, 1, lc) = c /\ SubSeq(a, lc + 1, la) \o b = d
  <2> DEFINE front == SubSeq(a, 1, lc)
             back == SubSeq(a, lc + 1, la)
  <2>1. \A i \in 1..la : a[i] \in S
    BY ElementOfSeq
  <2>2. /\ front \in Seq(S) /\ Len(front) = lc
        /\ \A i \in 1..lc : front[i] = a[i]
    <3>1. \A i \in 1..lc : a[i] \in S
      BY <1>1, <1>5, <2>1
    <3>2. /\ front \in Seq(S)
          /\ Len(front) = IF 1 <= lc THEN lc - 1 + 1 ELSE 0
          /\ \A i \in 1..(lc - 1 + 1) : front[i] = a[1 + i - 1]
      BY <1>1, <3>1, SubSeqProperties
    <3> QED BY <1>1, <3>2
  <2>3. /\ back \in Seq(S) /\ Len(back) = la - lc
        /\ \A i \in 1..(la - lc) : back[i] = a[lc + i]
    <3>1. \A i \in (lc + 1)..la : a[i] \in S
      BY <1>1, <1>5, <2>1
    <3>2. /\ back \in Seq(S)
          /\ Len(back) = IF lc + 1 <= la THEN la - (lc + 1) + 1 ELSE 0
          /\ \A i \in 1..(la - (lc + 1) + 1) : back[i] = a[(lc + 1) + i - 1]
      BY <1>1, <3>1, SubSeqProperties
    <3>3. \A i \in 1..(la - lc) : (lc + 1) + i - 1 = lc + i /\ i \in 1..(la - (lc + 1) + 1)
      BY <1>1, <1>5
    <3> QED BY <1>1, <1>5, <3>2, <3>3
  <2> HIDE DEF front, back
  <2>4. front = c
    <3>1. \A i \in 1..lc : i \in 1..la /\ i <= lc
      BY <1>1, <1>5
    <3>2. \A i \in 1..Len(front) : front[i] = c[i]
      BY <1>4, <2>2, <3>1
    <3> QED BY <2>2, <3>2, SeqEqual
  <2>5. /\ back \o b \in Seq(S) /\ Len(back \o b) = ld
        /\ \A i \in 1..ld : (back \o b)[i] = IF i <= la - lc THEN back[i] ELSE b[i - (la - lc)]
    <3>1. la - lc + lb = ld
      BY <1>1
    <3>2. /\ back \o b \in Seq(S) /\ Len(back \o b) = Len(back) + lb
          /\ \A i \in 1..(Len(back) + lb) : (back \o b)[i] = IF i <= Len(back) THEN back[i] ELSE b[i - Len(back)]
      BY <2>3, ConcatProperties
    <3> QED BY <2>3, <3>1, <3>2
  <2>6. ASSUME NEW i \in 1..ld PROVE (back \o b)[i] = d[i]
    <3> DEFINE k == lc + i
    <3>1. k \in 1..(la + lb) /\ k \in 1..(lc + ld) /\ ~(k <= lc) /\ k - lc = i
      BY <1>1
    <3>2. whole[k] = d[i]
      BY <1>3, <3>1
    <3>3. CASE i <= la - lc
      <4>1. k <= la /\ i \in 1..(la - lc)
        BY <1>1, <1>5, <3>3
      <4>2. whole[k] = a[k]
        BY <1>2, <3>1, <4>1
      <4> QED BY <2>3, <2>5, <3>2, <3>3, <4>1, <4>2
    <3>4. CASE ~(i <= la - lc)
      <4>1. ~(k <= la) /\ k - la = i - (la - lc)
        BY <1>1, <1>5, <3>4
      <4>2. whole[k] = b[i - (la - lc)]
        BY <1>2, <3>1, <4>1
      <4> QED BY <2>5, <3>2, <3>4, <4>2
    <3> QED BY <3>3, <3>4
  <2>7. back \o b = d
    BY <2>5, <2>6, SeqEqual
  <2> QED BY <2>4, <2>7 DEF front, back
<1> QED BY <1>4, <1>5

-----------------------------------------------------------------------------
(* What a base station sends.                                               *)

\* The bytes of a base station that has produced n frames.
Wire(n) == [v : Nat, frame : 1..n, at : Nat]

\* The bytes of the frames fs after the first k.
Coded(fs, k) == Joined([i \in 1..Len(fs) - k |-> Encode(k + i, fs[k + i])])

LEMMA Constants ==
    /\ TRAILER \in Nat /\ TRAILER >= 1 /\ HEADER \in Nat /\ HEADER >= 2
    /\ QueueSize \in Nat /\ QueueSize >= 1 /\ WINDOW \in Nat /\ WINDOW >= 1
    /\ PREAMBLE \in Nat /\ MaxPayload \in Nat /\ Threshold \in Nat
    /\ MaxFrames \in Nat /\ MaxAhead \in Nat /\ MaxGaps \in Nat
    /\ MaxFrame = HEADER + MaxPayload + TRAILER /\ MaxFrame \in Nat
  BY QualityAssumption DEF MaxFrame

LEMMA FrameKnown ==
    ASSUME NEW f \in FrameTypes
    PROVE  /\ f.kind \in {"arp", "msm", "other"} /\ f.val \in Nat /\ f.payload \in Seq(Nat)
           /\ Len(f.payload) \in Nat /\ Len(f.payload) <= MaxPayload
<1>1. f \in [kind : {"arp", "msm", "other"}, val : Nat, payload : Seq(Nat)]
  BY QualityAssumption
<1> QED BY <1>1, QualityAssumption, LenProperties

\* A frame on the wire: as long as its length field says, behind a preamble.
LEMMA EncodeFacts ==
    ASSUME NEW n \in Nat, NEW no \in 1..n, NEW f \in FrameTypes
    PROVE  /\ Encode(no, f) \in Seq(Wire(n))
           /\ Len(Encode(no, f)) = HEADER + Len(f.payload) + TRAILER
           /\ Encode(no, f)[1].v = PREAMBLE /\ Encode(no, f)[1].frame = no
           /\ Encode(no, f)[HEADER].v = Len(f.payload)
<1> DEFINE l == Len(f.payload)
           head == [i \in 1..HEADER - 1 |-> l]
           zero == [i \in 1..TRAILER |-> 0]
           one == <<PREAMBLE>>
           v1 == one \o head
           v2 == v1 \o f.payload
           values == v2 \o zero
           bytes == [i \in DOMAIN values |-> [v |-> values[i], frame |-> no, at |-> i]]
<1>1. l \in Nat /\ f.payload \in Seq(Nat)
  BY FrameKnown
<1>2. head \in Seq(Nat) /\ Len(head) = HEADER - 1 /\ \A i \in 1..(HEADER - 1) : head[i] = l
  BY <1>1, Constants
<1>3. zero \in Seq(Nat) /\ Len(zero) = TRAILER
  BY Constants
<1>4. one \in Seq(Nat) /\ Len(one) = 1 /\ one[1] = PREAMBLE
  BY Constants
<1> HIDE DEF head, zero, one, l
<1>5. /\ v1 \in Seq(Nat) /\ Len(v1) = HEADER
      /\ v1[1] = PREAMBLE /\ v1[HEADER] = l
  <2>1. /\ v1 \in Seq(Nat) /\ Len(v1) = Len(one) + Len(head)
        /\ \A i \in 1..(Len(one) + Len(head)) : v1[i] = IF i <= Len(one) THEN one[i] ELSE head[i - Len(one)]
    BY <1>2, <1>4, ConcatProperties
  <2>2. Len(one) + Len(head) = HEADER /\ 1 \in 1..HEADER /\ HEADER \in 1..HEADER
        /\ ~(HEADER <= 1) /\ HEADER - 1 \in 1..(HEADER - 1)
    BY <1>2, <1>4, Constants
  <2> QED BY <1>2, <1>4, <2>1, <2>2
<1> HIDE DEF v1
<1>6. /\ v2 \in Seq(Nat) /\ Len(v2) = HEADER + l
      /\ v2[1] = PREAMBLE /\ v2[HEADER] = l
  <2>1. /\ v2 \in Seq(Nat) /\ Len(v2) = Len(v1) + Len(f.payload)
        /\ \A i \in 1..(Len(v1) + Len(f.payload)) : v2[i] = IF i <= Len(v1) THEN v1[i] ELSE f.payload[i - Len(v1)]
    BY <1>1, <1>5, ConcatProperties
  <2>2. Len(v1) + Len(f.payload) = HEADER + l
    BY <1>5 DEF l
  <2>3. 1 \in 1..(HEADER + l) /\ HEADER \in 1..(HEADER + l) /\ 1 <= HEADER /\ HEADER <= HEADER
    BY <1>1, Constants
  <2> QED BY <1>5, <2>1, <2>2, <2>3
<1> HIDE DEF v2
<1>7. /\ values \in Seq(Nat) /\ Len(values) = HEADER + l + TRAILER
      /\ values[1] = PREAMBLE /\ values[HEADER] = l
  <2>1. /\ values \in Seq(Nat) /\ Len(values) = Len(v2) + Len(zero)
        /\ \A i \in 1..(Len(v2) + Len(zero)) : values[i] = IF i <= Len(v2) THEN v2[i] ELSE zero[i - Len(v2)]
    BY <1>3, <1>6, ConcatProperties
  <2>2. Len(v2) + Len(zero) = HEADER + l + TRAILER
    BY <1>3, <1>6
  <2>3. 1 \in 1..(HEADER + l + TRAILER) /\ HEADER \in 1..(HEADER + l + TRAILER)
        /\ 1 <= HEADER + l /\ HEADER <= HEADER + l
    BY <1>1, Constants
  <2> QED BY <1>6, <2>1, <2>2, <2>3
<1>8. Encode(no, f) = bytes
  BY DEF Encode, values, v2, v1, one, head, zero, l
<1> HIDE DEF values
<1> DEFINE k == HEADER + l + TRAILER
<1>9. DOMAIN values = 1..k /\ k \in Nat /\ \A i \in 1..k : values[i] \in Nat
  BY <1>1, <1>7, Constants, LenProperties, ElementOfSeq
<1>10. 1 \in 1..k /\ HEADER \in 1..k
  BY <1>1, Constants
<1> HIDE DEF k
<1>11. \A i \in 1..k : [v |-> values[i], frame |-> no, at |-> i] \in Wire(n)
  BY <1>9 DEF Wire
<1>12. bytes = [i \in 1..k |-> [v |-> values[i], frame |-> no, at |-> i]]
  BY <1>9
<1>13. bytes \in Seq(Wire(n)) /\ Len(bytes) = k
  <2> HIDE DEF bytes
  <2>1. bytes \in [1..k -> Wire(n)]
    BY <1>11, <1>12
  <2> QED BY <1>9, <2>1
<1>14. bytes[1].v = PREAMBLE /\ bytes[1].frame = no /\ bytes[HEADER].v = l
  BY <1>7, <1>10, <1>12
<1> QED BY <1>8, <1>13, <1>14 DEF k, l

\* The pieces of Coded.
LEMMA CodedPieces ==
    ASSUME NEW fs \in Seq(FrameTypes), NEW k \in 0..Len(fs)
    PROVE  /\ Len(fs) \in Nat /\ Len(fs) - k \in Nat /\ k \in Nat
           /\ \A i \in 1..(Len(fs) - k) : k + i \in 1..Len(fs) /\ fs[k + i] \in FrameTypes
           /\ [i \in 1..Len(fs) - k |-> Encode(k + i, fs[k + i])] \in Seq(Seq(Wire(Len(fs))))
           /\ Len([i \in 1..Len(fs) - k |-> Encode(k + i, fs[k + i])]) = Len(fs) - k
<1> DEFINE n == Len(fs)
           p == [i \in 1..n - k |-> Encode(k + i, fs[k + i])]
<1>1. n \in Nat /\ n - k \in Nat /\ k \in Nat
  BY LenProperties
<1>2. \A i \in 1..(n - k) : k + i \in 1..n
  BY <1>1
<1>3. \A i \in 1..(n - k) : fs[k + i] \in FrameTypes
  BY <1>2, ElementOfSeq
<1> HIDE DEF n
<1>4. \A i \in 1..(n - k) : Encode(k + i, fs[k + i]) \in Seq(Wire(n))
  BY <1>1, <1>2, <1>3, EncodeFacts
<1>5. p \in [1..(n - k) -> Seq(Wire(n))]
  BY <1>4
<1>6. p \in Seq(Seq(Wire(n))) /\ Len(p) = n - k
  <2> DEFINE j == n - k
             S == Seq(Wire(n))
  <2>1. j \in Nat /\ p \in [1..j -> S]
    BY <1>1, <1>5
  <2> HIDE DEF p, j, S
  <2>2. p \in Seq(S) /\ Len(p) = j
    BY <2>1
  <2> QED BY <2>2 DEF j, S
<1> QED BY <1>1, <1>2, <1>3, <1>6 DEF n

LEMMA CodedType ==
    ASSUME NEW fs \in Seq(FrameTypes), NEW k \in 0..Len(fs)
    PROVE  Coded(fs, k) \in Seq(Wire(Len(fs)))
  BY CodedPieces, JoinedType DEF Coded

LEMMA CodedNone ==
    ASSUME NEW fs \in Seq(FrameTypes)
    PROVE  Coded(fs, Len(fs)) = <<>>
<1> DEFINE p == [i \in 1..Len(fs) - Len(fs) |-> Encode(Len(fs) + i, fs[Len(fs) + i])]
<1>1. Len(fs) \in 0..Len(fs) /\ Len(fs) - Len(fs) = 0
  BY LenProperties
<1>2. p \in Seq(Seq(Wire(Len(fs)))) /\ Len(p) = 0
  BY <1>1, CodedPieces
<1> HIDE DEF p
<1>3. Joined(p) = <<>>
  <2>1. \A i \in 1..Len(p) : p[i] = <<>>
    BY <1>2
  <2> QED BY <1>2, <2>1, JoinedNothing
<1> QED BY <1>3 DEF Coded, p

\* The next frame and the ones after it.
LEMMA CodedFirst ==
    ASSUME NEW fs \in Seq(FrameTypes), NEW k \in 0..Len(fs), k < Len(fs)
    PROVE  /\ k + 1 \in 1..Len(fs) /\ k + 1 \in 0..Len(fs) /\ fs[k + 1] \in FrameTypes
           /\ Coded(fs, k) = Encode(k + 1, fs[k + 1]) \o Coded(fs, k + 1)
<1> DEFINE n == Len(fs)
           p == [i \in 1..n - k |-> Encode(k + i, fs[k + i])]
           q == [i \in 1..n - (k + 1) |-> Encode((k + 1) + i, fs[(k + 1) + i])]
<1>1. n \in Nat /\ k \in Nat /\ k + 1 \in 0..n /\ k + 1 \in 1..n /\ 1 \in 1..(n - k)
  BY LenProperties
<1>2. p \in Seq(Seq(Wire(n))) /\ Len(p) = n - k
  BY CodedPieces
<1>3. q \in Seq(Seq(Wire(n))) /\ Len(q) = n - (k + 1)
  BY <1>1, CodedPieces
<1>4. \A i \in 1..(n - k) : p[i] = Encode(k + i, fs[k + i])
  OBVIOUS
<1>5. \A i \in 1..(n - (k + 1)) : q[i] = Encode((k + 1) + i, fs[(k + 1) + i])
  OBVIOUS
<1> HIDE DEF p, q, n
<1>6. p # <<>> /\ Head(p) = p[1]
  <2>1. p # <<>>
    BY <1>1, <1>2, EmptySeq
  <2> QED BY <1>2, <2>1
<1>7. Tail(p) \in Seq(Seq(Wire(n))) /\ Len(Tail(p)) = n - (k + 1)
      /\ \A i \in 1..(n - (k + 1)) : Tail(p)[i] = p[i + 1]
  <2>1. /\ Tail(p) \in Seq(Seq(Wire(n))) /\ Len(Tail(p)) = Len(p) - 1
        /\ \A i \in 1..Len(Tail(p)) : Tail(p)[i] = p[i + 1]
    BY <1>2, <1>6, HeadTailProperties
  <2>2. Len(p) - 1 = n - (k + 1)
    BY <1>1, <1>2
  <2> QED BY <2>1, <2>2
<1>8. \A i \in 1..(n - (k + 1)) : Tail(p)[i] = q[i]
  <2> SUFFICES ASSUME NEW i \in 1..(n - (k + 1)) PROVE Tail(p)[i] = q[i]
    OBVIOUS
  <2>1. i + 1 \in 1..(n - k) /\ k + (i + 1) = (k + 1) + i
    BY <1>1
  <2>2. p[i + 1] = Encode((k + 1) + i, fs[(k + 1) + i])
    BY <1>4, <2>1
  <2> QED BY <1>5, <1>7, <2>2
<1>9. Tail(p) = q
  BY <1>3, <1>7, <1>8, SeqEqual
<1>10. Joined(p) = Head(p) \o Joined(Tail(p))
  BY <1>2, <1>6, JoinedFirst
<1>11. Coded(fs, k) = Joined(p) /\ Coded(fs, k + 1) = Joined(q)
  BY DEF Coded, p, q, n
<1>12. p[1] = Encode(k + 1, fs[k + 1])
  BY <1>1, <1>4
<1>13. fs[k + 1] \in FrameTypes
  BY <1>1, ElementOfSeq DEF n
<1> QED BY <1>1, <1>6, <1>9, <1>10, <1>11, <1>12, <1>13 DEF n

\* Another frame at the end.
LEMMA CodedMore ==
    ASSUME NEW fs \in Seq(FrameTypes), NEW k \in 0..Len(fs), NEW f \in FrameTypes
    PROVE  Coded(Append(fs, f), k) = Coded(fs, k) \o Encode(Len(fs) + 1, f)
<1> DEFINE n == Len(fs)
           gs == Append(fs, f)
           last == Encode(n + 1, f)
           p == [i \in 1..n - k |-> Encode(k + i, fs[k + i])]
           q == [i \in 1..Len(gs) - k |-> Encode(k + i, gs[k + i])]
           S == Seq(Wire(n + 1))
<1>1. n \in Nat /\ k \in Nat /\ k \in 0..(n + 1) /\ n - k \in Nat /\ (n + 1) - k = (n - k) + 1
  BY LenProperties
<1>2. /\ gs \in Seq(FrameTypes) /\ Len(gs) = n + 1 /\ gs[n + 1] = f
      /\ \A i \in 1..n : gs[i] = fs[i]
  BY AppendProperties
<1> HIDE DEF gs
<1>3. q \in Seq(S) /\ Len(q) = (n - k) + 1
  <2>1. k \in 0..Len(gs)
    BY <1>1, <1>2
  <2>2. q \in Seq(Seq(Wire(Len(gs)))) /\ Len(q) = Len(gs) - k
    BY <1>2, <2>1, CodedPieces
  <2> QED BY <1>1, <1>2, <2>2
<1>4. p \in Seq(Seq(Wire(n))) /\ Len(p) = n - k
  BY CodedPieces
<1>5. \A i \in 1..(n - k) : p[i] = Encode(k + i, fs[k + i])
  OBVIOUS
<1>6. \A i \in 1..(Len(gs) - k) : q[i] = Encode(k + i, gs[k + i])
  OBVIOUS
<1>7. last \in S
  BY <1>1, EncodeFacts
<1> HIDE DEF p, q, n, last, S
<1>8. p \in Seq(S)
  <2>1. Wire(n) \subseteq Wire(n + 1)
    BY <1>1 DEF Wire
  <2>2. \A i \in 1..(n - k) : p[i] \in Seq(Wire(n))
    BY <1>4, ElementOfSeq
  <2>3. \A i \in 1..(n - k) : p[i] \in S
    BY <2>1, <2>2, SeqMonotonic DEF S
  <2>4. p \in [1..(n - k) -> S]
    BY <1>4, <2>3, LenProperties
  <2> QED BY <1>1, <2>4
<1>9. /\ Append(p, last) \in Seq(S) /\ Len(Append(p, last)) = (n - k) + 1
      /\ \A i \in 1..(n - k) : Append(p, last)[i] = p[i]
      /\ Append(p, last)[(n - k) + 1] = last
  BY <1>4, <1>7, <1>8, AppendProperties
<1>10. ASSUME NEW i \in 1..((n - k) + 1) PROVE Append(p, last)[i] = q[i]
  <2>0. i \in 1..(Len(gs) - k)
    BY <1>1, <1>2
  <2>1. CASE i = (n - k) + 1
    <3>1. k + i = n + 1
      BY <1>1, <2>1
    <3> QED BY <1>2, <1>6, <1>9, <2>0, <2>1, <3>1 DEF last
  <2>2. CASE i # (n - k) + 1
    <3>1. i \in 1..(n - k) /\ k + i \in 1..n
      BY <1>1, <2>2
    <3> QED BY <1>2, <1>5, <1>6, <1>9, <2>0, <3>1
  <2> QED BY <2>1, <2>2
<1>11. Append(p, last) = q
  BY <1>3, <1>9, <1>10, SeqEqual
<1>12. Joined(Append(p, last)) = Joined(p) \o last
  BY <1>7, <1>8, JoinedAppend DEF S
<1>13. Coded(fs, k) = Joined(p) /\ Coded(gs, k) = Joined(q)
  BY DEF Coded, p, q, n
<1> QED BY <1>11, <1>12, <1>13 DEF gs, last, n
-----------------------------------------------------------------------------
(* The splitter.                                                            *)

LEMMA LeastNumber ==
    ASSUME NEW T, T \subseteq Nat, T # {}
    PROVE  \E x \in T : \A y \in T : x <= y
<1> DEFINE R == OpToRel(<, Nat)
<1>1. IsWellFoundedOn(R, Nat)
  BY NatLessThanWellFounded
<1>2. \A x, y \in Nat : x < y => <<x, y>> \in R
  BY DEF OpToRel
<1> HIDE DEF R
<1>3. PICK x \in T : \A y \in T : ~ (<<y, x>> \in R)
  BY <1>1, WFMin
<1>4. ASSUME NEW y \in T PROVE x <= y
  <2>1. x \in Nat /\ y \in Nat
    OBVIOUS
  <2>2. ~(y < x)
    BY <1>2, <1>3, <2>1
  <2> QED BY <2>1, <2>2
<1> QED BY <1>4

\* The states of the loop.
States(data, n) ==
    [at : 1..(Len(data) + 1), frames : Seq(Seq(Wire(n)) \ {<<>>})]

LEMMA FindFacts ==
    ASSUME NEW n, NEW data \in Seq(Wire(n)), NEW at \in 1..(Len(data) + 1)
    PROVE  /\ Len(data) \in Nat
           /\ Find(data, at) \in 1..(Len(data) + 1) /\ at <= Find(data, at)
           /\ Find(data, Find(data, at)) = Find(data, at)
           /\ at <= Len(data) /\ data[at].v = PREAMBLE => Find(data, at) = at
<1> DEFINE l == Len(data)
           Starts(i) == {j \in i..l : data[j].v = PREAMBLE}
<1>1. l \in Nat
  BY LenProperties
<1> HIDE DEF l
<1>2. ASSUME NEW i \in 1..(l + 1)
      PROVE  IF Starts(i) = {} THEN Find(data, i) = l + 1
             ELSE Find(data, i) \in Starts(i) /\ \A k \in Starts(i) : Find(data, i) <= k
  <2>1. CASE Starts(i) = {}
    BY <2>1 DEF Find, l
  <2>2. CASE Starts(i) # {}
    <3>1. Starts(i) \subseteq Nat
      BY <1>1
    <3> DEFINE P(j) == \A k \in Starts(i) : j <= k
    <3>2. Find(data, i) = CHOOSE j \in Starts(i) : P(j)
      BY <2>2 DEF Find, l
    <3> HIDE DEF Starts
    <3>3. \E j \in Starts(i) : P(j)
      BY <2>2, <3>1, LeastNumber
    <3> HIDE DEF P
    <3>4. Find(data, i) \in Starts(i) /\ P(Find(data, i))
      BY <3>2, <3>3
    <3> QED BY <2>2, <3>4 DEF P
  <2> QED BY <2>1, <2>2
<1> DEFINE start == Find(data, at)
<1>3. at \in 1..(l + 1)
  BY DEF l
<1>4. start \in 1..(l + 1) /\ at <= start
  BY <1>1, <1>2, <1>3
<1>5. Find(data, start) = start
  <2>1. CASE Starts(at) = {}
    <3>1. start = l + 1
      BY <1>2, <1>3, <2>1
    <3>2. Starts(start) = {}
      BY <1>1, <3>1
    <3> QED BY <1>2, <1>4, <3>1, <3>2
  <2>2. CASE Starts(at) # {}
    <3>1. start \in Starts(at)
      BY <1>2, <1>3, <2>2
    <3>2. start \in Starts(start) /\ \A k \in Starts(start) : start <= k
      BY <1>1, <3>1
    <3>3. Find(data, start) \in Starts(start) /\ Find(data, start) <= start
      BY <1>2, <1>4, <3>2
    <3>4. start <= Find(data, start) /\ start \in Int /\ Find(data, start) \in Int
      BY <1>1, <3>2, <3>3
    <3> QED BY <3>3, <3>4
  <2> QED BY <2>1, <2>2
<1>6. ASSUME at <= l, data[at].v = PREAMBLE PROVE start = at
  <2>1. at \in Starts(at)
    BY <1>1, <1>3, <1>6
  <2>2. start \in Starts(at) /\ start <= at
    BY <1>2, <1>3, <2>1
  <2> QED BY <1>1, <1>3, <2>2
<1> QED BY <1>1, <1>4, <1>5, <1>6 DEF l

\* A length field cannot announce more than the largest frame.
LEMMA LengthFacts ==
    ASSUME NEW n, NEW data \in Seq(Wire(n)), NEW i \in 1..Len(data), i + HEADER - 1 <= Len(data)
    PROVE  /\ FrameLength(data, i) \in Nat /\ FrameLength(data, i) <= MaxFrame
           /\ FrameLength(data, i) >= 1
           /\ data[i + HEADER - 1].v \in Nat
<1>1. i + HEADER - 1 \in 1..Len(data)
  BY Constants, LenProperties
<1>2. data[i + HEADER - 1] \in Wire(n)
  BY <1>1, ElementOfSeq
<1>3. data[i + HEADER - 1].v \in Nat
  BY <1>2 DEF Wire
<1> DEFINE field == data[i + HEADER - 1].v % (MaxPayload + 1)
<1>4. field \in 0..MaxPayload
  BY <1>3, Constants
<1> HIDE DEF field
<1>5. FrameLength(data, i) = HEADER + field + TRAILER
  BY DEF FrameLength, field
<1> QED BY <1>3, <1>4, <1>5, Constants

\* The loop has ended: it is at the end of data or at an incomplete frame.
Stuck(data, x) ==
    /\ Find(data, x.at) = x.at
    /\ \/ x.at + HEADER - 1 > Len(data)
       \/ /\ FrameLength(data, x.at) <= MaxFrame
          /\ x.at + FrameLength(data, x.at) - 1 > Len(data)

LEMMA StuckFacts ==
    ASSUME NEW n, NEW data \in Seq(Wire(n)), NEW x \in States(data, n), Stuck(data, x)
    PROVE  Scan(data, x) = x /\ Len(data) - x.at + 1 < MaxFrame
<1> DEFINE l == Len(data)
           start == Find(data, x.at)
           total == FrameLength(data, start)
<1>1. l \in Nat /\ x.at \in 1..(l + 1) /\ x.frames \in Seq(Seq(Wire(n)) \ {<<>>})
      /\ x = [at |-> x.at, frames |-> x.frames]
  BY LenProperties DEF States
<1>2. start = x.at /\ (start + HEADER - 1 > l \/ (total <= MaxFrame /\ start + total - 1 > l))
  BY DEF Stuck
<1>3. Scan(data, x) = x
  <2>1. [x EXCEPT !.at = start] = x
    BY <1>1, <1>2
  <2>2. CASE start + HEADER - 1 > l
    BY <2>1, <2>2 DEF Scan
  <2>3. CASE ~(start + HEADER - 1 > l)
    <3>1. start \in 1..l /\ start + HEADER - 1 <= l
      <4>1. l \in Nat /\ start \in 1..(l + 1)
        BY <1>1, <1>2
      <4> HIDE DEF start, l
      <4> QED BY <4>1, <2>3, Constants
    <3>2. total \in Nat /\ total <= MaxFrame /\ start + total - 1 > l
      BY <1>2, <2>3, <3>1, LengthFacts
    <3>3. ~(total > MaxFrame)
      BY <3>2, Constants
    <3> QED BY <2>1, <2>3, <3>2, <3>3 DEF Scan
  <2> QED BY <2>2, <2>3
<1>4. l - x.at + 1 < MaxFrame
  <2>0. l \in Nat /\ start \in Nat
    BY <1>1, <1>2
  <2>1. CASE start + HEADER - 1 > l
    <3> HIDE DEF start, l
    <3>1. l - start + 1 < MaxFrame
      BY <2>0, <2>1, Constants
    <3> QED BY <1>2, <3>1
  <2>2. CASE ~(start + HEADER - 1 > l)
    <3>1. start \in 1..l /\ start + HEADER - 1 <= l
      <4>1. l \in Nat /\ start \in 1..(l + 1)
        BY <1>1, <1>2
      <4> HIDE DEF start, l
      <4> QED BY <4>1, <2>2, Constants
    <3>2. total \in Nat /\ total <= MaxFrame /\ start + total - 1 > l
      BY <1>2, <2>2, <3>1, LengthFacts
    <3> HIDE DEF total, start, l
    <3>3. l - start + 1 < MaxFrame
      BY <2>0, <3>2, Constants
    <3> QED BY <1>2, <3>3
  <2> QED BY <2>1, <2>2
<1> QED BY <1>3, <1>4

\* A turn takes at least one byte, or the loop has ended.
LEMMA ScanFacts ==
    ASSUME NEW n, NEW data \in Seq(Wire(n)), NEW x \in States(data, n)
    PROVE  /\ Scan(data, x) \in States(data, n)
           /\ Scan(data, x).at > x.at \/ Stuck(data, Scan(data, x))
<1> DEFINE l == Len(data)
           start == Find(data, x.at)
           total == FrameLength(data, start)
           y == Scan(data, x)
           there == [x EXCEPT !.at = start]
<1>1. l \in Nat /\ x.at \in 1..(l + 1) /\ x.frames \in Seq(Seq(Wire(n)) \ {<<>>})
      /\ x = [at |-> x.at, frames |-> x.frames]
  BY LenProperties DEF States
<1>2. start \in 1..(l + 1) /\ x.at <= start /\ Find(data, start) = start
  BY <1>1, FindFacts
<1>3. there \in States(data, n) /\ there.at = start
  BY <1>1, <1>2 DEF States
<1>4. CASE start + HEADER - 1 > l
  <2>1. y = there
    BY <1>4 DEF Scan
  <2>2. Stuck(data, there)
    BY <1>2, <1>3, <1>4 DEF Stuck
  <2> QED BY <1>3, <2>1, <2>2
<1>5. CASE ~(start + HEADER - 1 > l)
  <2>1. start \in 1..l /\ start + HEADER - 1 <= l
    <3>1. l \in Nat /\ start \in 1..(l + 1)
      BY <1>1, <1>2
    <3> HIDE DEF start, l
    <3> QED BY <3>1, <1>5, Constants
  <2>2. total \in Nat /\ total <= MaxFrame /\ total >= 1 /\ ~(total > MaxFrame)
    BY <2>1, LengthFacts, Constants
  <2>3. CASE start + total - 1 > l
    <3>1. y = there
      BY <1>5, <2>2, <2>3 DEF Scan
    <3>2. Stuck(data, there)
      BY <1>2, <1>3, <2>2, <2>3 DEF Stuck
    <3> QED BY <1>3, <3>1, <3>2
  <2>4. CASE ~(start + total - 1 > l)
    <3> DEFINE frame == SubSeq(data, start, start + total - 1)
               next == start + total
    <3>1. y = [at |-> next, frames |-> Append(x.frames, frame)]
      BY <1>5, <2>2, <2>4 DEF Scan
    <3> HIDE DEF total, start
    <3>2. next \in 1..(l + 1) /\ next > x.at
      BY <1>1, <1>2, <2>1, <2>2, <2>4
    <3>3. frame \in Seq(Wire(n)) /\ Len(frame) = total
      <4>1. start \in Int /\ start + total - 1 \in Int /\ start <= start + total - 1
            /\ (start + total - 1) - start + 1 = total
        BY <2>1, <2>2
      <4>2. \A i \in start..(start + total - 1) : i \in 1..l
        BY <1>1, <2>1, <2>2, <2>4
      <4>3. \A i \in start..(start + total - 1) : data[i] \in Wire(n)
        BY <4>2, ElementOfSeq
      <4>4. /\ frame \in Seq(Wire(n))
            /\ Len(frame) = IF start <= start + total - 1 THEN (start + total - 1) - start + 1 ELSE 0
        BY <4>1, <4>3, SubSeqProperties
      <4> QED BY <4>1, <4>4
    <3> HIDE DEF frame
    <3>4. frame \in Seq(Wire(n)) \ {<<>>}
      <4>1. frame # <<>>
        BY <2>2, <3>3, EmptySeq
      <4> QED BY <3>3, <4>1
    <3>5. Append(x.frames, frame) \in Seq(Seq(Wire(n)) \ {<<>>})
      BY <1>1, <3>4, AppendProperties
    <3> HIDE DEF next
    <3>6. y \in States(data, n) /\ y.at = next
      BY <3>1, <3>2, <3>5 DEF States
    <3> QED BY <3>2, <3>6
  <2> QED BY <2>3, <2>4
<1> QED BY <1>4, <1>5

\* f has what the loop has after each turn.
Scans(f, data) ==
    /\ f[0] = [at |-> 1, frames |-> <<>>]
    /\ \A i \in 1..Len(data) : f[i] = Scan(data, f[i - 1])

LEMMA SplitRun ==
    ASSUME NEW n, NEW data \in Seq(Wire(n))
    PROVE  \E f \in [0..Len(data) -> States(data, n)] :
              /\ Scans(f, data)
              /\ Split(data) = [frames |-> f[Len(data)].frames,
                                rest |-> SubSeq(data, f[Len(data)].at, Len(data))]
<1> DEFINE l == Len(data)
           V == States(data, n)
           start == [at |-> 1, frames |-> <<>>]
           step == [i \in 1..l |-> [x \in V |-> Scan(data, x)]]
           Is(f) == f = [i \in 0..l |-> IF i = 0 THEN start ELSE Scan(data, f[i - 1])]
<1>1. l \in Nat /\ start \in V
  <2>1. l \in Nat
    BY LenProperties
  <2>2. 1 \in 1..(l + 1) /\ <<>> \in Seq(Seq(Wire(n)) \ {<<>>})
    BY <2>1, EmptySeq
  <2> QED BY <2>1, <2>2 DEF States
<1>2. step \in [1..l -> [V -> V]]
  <2>1. \A x \in V : Scan(data, x) \in V
    BY ScanFacts
  <2> HIDE DEF V
  <2> QED BY <2>1
<1> HIDE DEF start, l, V
<1>3. PICK f \in [0..l -> V] : f[0] = start /\ \A i \in 1..l : f[i] = step[i][f[i - 1]]
  <2> HIDE DEF step
  <2>1. \E f \in [0..l -> V] : IsRun(f, l, start, step)
    BY <1>1, <1>2, LoopRuns
  <2> QED BY <2>1 DEF IsRun
<1>4. ASSUME NEW i \in 1..l PROVE f[i] = Scan(data, f[i - 1])
  <2>1. i - 1 \in 0..l
    BY <1>1
  <2>2. f[i - 1] \in V
    BY <1>3, <2>1
  <2> QED BY <1>3, <2>2
<1>5. Is(f)
  <2>1. \A i \in 0..l : i = 0 \/ i \in 1..l
    BY <1>1
  <2> QED BY <1>3, <1>4, <2>1
<1> DEFINE g == CHOOSE h : Is(h)
<1>6. Is(g)
  BY <1>5
<1>7. Split(data) = [frames |-> g[l].frames, rest |-> SubSeq(data, g[l].at, l)]
  BY DEF Split, l, start
<1> HIDE DEF g, step
<1>8. g[0] = start /\ \A i \in 1..l : g[i] = Scan(data, g[i - 1])
  <2>1. 0 \in 0..l /\ \A i \in 1..l : i \in 0..l /\ i # 0
    BY <1>1
  <2> QED BY <1>6, <2>1
<1>9. g \in [0..l -> V]
  <2> DEFINE T == {i \in Nat : i <= l => g[i] \in V}
  <2>1. 0 \in T
    BY <1>1, <1>8
  <2>2. ASSUME NEW i \in Nat, i \in T PROVE i + 1 \in T
    <3> SUFFICES ASSUME i + 1 <= l PROVE g[i + 1] \in V
      OBVIOUS
    <3>1. i + 1 \in 1..l /\ (i + 1) - 1 = i /\ g[i] \in V
      BY <1>1, <2>2
    <3>2. g[i + 1] = Scan(data, g[i])
      BY <1>8, <3>1
    <3> QED BY <3>1, <3>2, ScanFacts DEF V
  <2> HIDE DEF T
  <2>3. Nat \subseteq T
    BY <2>1, <2>2, SetInduction
  <2>4. \A i \in 0..l : g[i] \in V
    BY <1>1, <2>3 DEF T
  <2> QED BY <1>6, <2>4
<1> QED BY <1>7, <1>8, <1>9 DEF Scans, l, V, start

\* The splitter's result on any bytes: frames that are not empty, and a rest that
\* is shorter than the largest frame.
LEMMA SplitFacts ==
    ASSUME NEW n, NEW data \in Seq(Wire(n))
    PROVE  /\ Split(data).frames \in Seq(Seq(Wire(n)) \ {<<>>})
           /\ Split(data).rest \in Seq(Wire(n))
           /\ Len(Split(data).rest) < MaxFrame
<1> DEFINE l == Len(data)
<1>1. l \in Nat
  BY LenProperties
<1>2. PICK f \in [0..l -> States(data, n)] :
        /\ Scans(f, data)
        /\ Split(data) = [frames |-> f[l].frames, rest |-> SubSeq(data, f[l].at, l)]
  BY SplitRun
<1> DEFINE T == {t \in Nat : t <= l => f[t].at > t \/ Stuck(data, f[t])}
<1>3. 0 \in T
  BY <1>2 DEF Scans
<1>4. ASSUME NEW t \in Nat, t \in T PROVE t + 1 \in T
  <2> SUFFICES ASSUME t + 1 <= l PROVE f[t + 1].at > t + 1 \/ Stuck(data, f[t + 1])
    OBVIOUS
  <2>1. t + 1 \in 1..l /\ (t + 1) - 1 = t /\ t \in 0..l /\ t + 1 \in 0..l
    BY <1>1
  <2>2. f[t + 1] = Scan(data, f[t]) /\ f[t] \in States(data, n) /\ f[t + 1] \in States(data, n)
    BY <1>2, <2>1 DEF Scans
  <2>3. f[t].at \in Nat /\ f[t + 1].at \in Nat
    BY <1>1, <2>2 DEF States
  <2>4. CASE Stuck(data, f[t])
    BY <2>2, <2>4, StuckFacts
  <2>5. CASE f[t].at > t
    <3>1. f[t + 1].at > f[t].at \/ Stuck(data, f[t + 1])
      BY <2>2, ScanFacts
    <3> QED BY <2>3, <2>5, <3>1
  <2> QED BY <1>1, <1>4, <2>1, <2>4, <2>5
<1> HIDE DEF T
<1>5. l \in T
  BY <1>1, <1>3, <1>4, SetInduction
<1> DEFINE x == f[l]
           rest == SubSeq(data, x.at, l)
<1>6. x \in States(data, n)
  BY <1>1, <1>2
<1>7. x.at \in 1..(l + 1) /\ x.frames \in Seq(Seq(Wire(n)) \ {<<>>})
  BY <1>6 DEF States
<1>8. l - x.at + 1 < MaxFrame
  <2>1. CASE Stuck(data, x)
    BY <1>6, <2>1, StuckFacts
  <2>2. CASE x.at > l
    BY <1>1, <1>7, <2>2, Constants
  <2> QED BY <1>1, <1>5, <2>1, <2>2 DEF T
<1>9. rest \in Seq(Wire(n)) /\ Len(rest) < MaxFrame
  <2>1. \A i \in x.at..l : data[i] \in Wire(n)
    BY <1>1, <1>7, ElementOfSeq
  <2> HIDE DEF x
  <2>2. rest \in Seq(Wire(n)) /\ Len(rest) = IF x.at <= l THEN l - x.at + 1 ELSE 0
    BY <1>1, <1>7, <2>1, SubSeqProperties
  <2> QED BY <1>1, <1>7, <1>8, <2>2, Constants
<1> QED BY <1>2, <1>7, <1>9

\* A part of a sequence, perhaps empty.
LEMMA PartFacts ==
    ASSUME NEW S, NEW s \in Seq(S), NEW a \in 1..(Len(s) + 1), NEW b \in (a - 1)..Len(s)
    PROVE  /\ SubSeq(s, a, b) \in Seq(S) /\ Len(SubSeq(s, a, b)) = b - a + 1
           /\ \A i \in 1..(b - a + 1) : SubSeq(s, a, b)[i] = s[a + i - 1]
<1>1. Len(s) \in Nat
  BY LenProperties
<1>2. \A i \in a..b : i \in 1..Len(s)
  BY <1>1
<1>3. \A i \in a..b : s[i] \in S
  BY <1>2, ElementOfSeq
<1>4. /\ SubSeq(s, a, b) \in Seq(S)
      /\ Len(SubSeq(s, a, b)) = IF a <= b THEN b - a + 1 ELSE 0
      /\ \A i \in 1..(b - a + 1) : SubSeq(s, a, b)[i] = s[a + i - 1]
  BY <1>1, <1>3, SubSeqProperties
<1> QED BY <1>1, <1>4

\* Parts of the end of a sequence.
LEMMA PartsOfRest ==
    ASSUME NEW S, NEW s \in Seq(S), NEW at \in 1..(Len(s) + 1), NEW k \in 0..(Len(s) - at + 1),
           NEW rest, rest = SubSeq(s, at, Len(s))
    PROVE  /\ SubSeq(rest, 1, k) = SubSeq(s, at, at + k - 1)
           /\ SubSeq(rest, k + 1, Len(rest)) = SubSeq(s, at + k, Len(s))
<1> DEFINE l == Len(s)
           r == l - at + 1
<1>1. l \in Nat /\ at \in Nat /\ k \in Nat /\ r \in Nat /\ k <= r
  BY LenProperties
<1>2. /\ rest \in Seq(S) /\ Len(rest) = r
      /\ \A i \in 1..r : rest[i] = s[at + i - 1]
  <2>1. l \in (at - 1)..l
    BY <1>1
  <2> QED BY <2>1, PartFacts
<1> HIDE DEF r
<1>3. SubSeq(rest, 1, k) = SubSeq(s, at, at + k - 1)
  <2> DEFINE p == SubSeq(rest, 1, k)
             q == SubSeq(s, at, at + k - 1)
  <2>1. p \in Seq(S) /\ Len(p) = k /\ \A i \in 1..k : p[i] = rest[i]
    <3>1. 1 \in 1..(Len(rest) + 1) /\ k \in (1 - 1)..Len(rest) /\ k - 1 + 1 = k
      BY <1>1, <1>2
    <3>2. p \in Seq(S) /\ Len(p) = k - 1 + 1 /\ \A i \in 1..(k - 1 + 1) : p[i] = rest[1 + i - 1]
      BY <1>2, <3>1, PartFacts
    <3>3. \A i \in 1..k : 1 + i - 1 = i
      BY <1>1
    <3> QED BY <3>1, <3>2, <3>3
  <2>2. q \in Seq(S) /\ Len(q) = k /\ \A i \in 1..k : q[i] = s[at + i - 1]
    <3>1. at + k - 1 \in (at - 1)..l /\ (at + k - 1) - at + 1 = k
      BY <1>1 DEF r
    <3> QED BY <3>1, PartFacts
  <2> HIDE DEF p, q
  <2>3. \A i \in 1..k : i \in 1..r
    BY <1>1
  <2>4. \A i \in 1..k : p[i] = q[i]
    BY <1>2, <2>1, <2>2, <2>3
  <2>5. p = q
    BY <2>1, <2>2, <2>4, SeqEqual
  <2> QED BY <2>5 DEF p, q
<1>4. SubSeq(rest, k + 1, Len(rest)) = SubSeq(s, at + k, l)
  <2> DEFINE p == SubSeq(rest, k + 1, Len(rest))
             q == SubSeq(s, at + k, l)
             d == r - k
  <2>1. p \in Seq(S) /\ Len(p) = d /\ \A i \in 1..d : p[i] = rest[(k + 1) + i - 1]
    <3>1. k + 1 \in 1..(Len(rest) + 1) /\ Len(rest) \in ((k + 1) - 1)..Len(rest) /\ Len(rest) - (k + 1) + 1 = d
      BY <1>1, <1>2
    <3> DEFINE b == Len(rest)
               a == k + 1
    <3>2. rest \in Seq(S) /\ a \in 1..(Len(rest) + 1) /\ b \in (a - 1)..Len(rest) /\ b - a + 1 = d
      BY <1>2, <3>1
    <3> HIDE DEF a, b, d
    <3>3. /\ SubSeq(rest, a, b) \in Seq(S) /\ Len(SubSeq(rest, a, b)) = b - a + 1
          /\ \A i \in 1..(b - a + 1) : SubSeq(rest, a, b)[i] = rest[a + i - 1]
      BY <3>2, PartFacts
    <3>4. p = SubSeq(rest, a, b)
      BY DEF a, b
    <3> QED BY <3>2, <3>3, <3>4 DEF a
  <2>2. q \in Seq(S) /\ Len(q) = d /\ \A i \in 1..d : q[i] = s[(at + k) + i - 1]
    <3>1. at + k \in 1..(l + 1) /\ l \in ((at + k) - 1)..l /\ l - (at + k) + 1 = d
      BY <1>1 DEF r
    <3> QED BY <3>1, PartFacts
  <2>3. ASSUME NEW i \in 1..d PROVE p[i] = q[i]
    <3>1. (k + 1) + i - 1 = k + i /\ k + i \in 1..r /\ at + (k + i) - 1 = (at + k) + i - 1
      BY <1>1
    <3>2. p[i] = rest[k + i] /\ rest[k + i] = s[at + (k + i) - 1] /\ q[i] = s[(at + k) + i - 1]
      BY <1>2, <2>1, <2>2, <3>1
    <3> QED BY <3>1, <3>2
  <2> HIDE DEF p, q, d
  <2>4. p = q
    BY <2>1, <2>2, <2>3, SeqEqual
  <2> QED BY <2>4 DEF p, q
<1> QED BY <1>3, <1>4

\* What the loop has of a stream, whose bytes after data are more, that starts with
\* the frame after the k-th: the next frames, whole, and nothing is lost.
InStep(data, more, fs, k, x) ==
    LET j == Len(x.frames) IN
    /\ k + j \in 0..Len(fs)
    /\ \A i \in 1..j : x.frames[i] = Encode(k + i, fs[k + i])
    /\ SubSeq(data, x.at, Len(data)) \o more = Coded(fs, k + j)

LEMMA SmallRemainder == ASSUME NEW a \in Nat, NEW b \in Nat, a <= b PROVE a % (b + 1) = a
  BY SMT

LEMMA ScanInStep ==
    ASSUME NEW fs \in Seq(FrameTypes), NEW k \in 0..Len(fs),
           NEW data \in Seq(Wire(Len(fs))), NEW more \in Seq(Wire(Len(fs))),
           NEW x \in States(data, Len(fs)), InStep(data, more, fs, k, x)
    PROVE  InStep(data, more, fs, k, Scan(data, x))
<1> DEFINE n == Len(fs)
           l == Len(data)
           W == Wire(n)
           at == x.at
           j == Len(x.frames)
           c == k + j
           rest == SubSeq(data, at, l)
           start == Find(data, at)
           total == FrameLength(data, start)
<1>1. n \in Nat /\ l \in Nat /\ k \in Nat
  BY LenProperties
<1>2. at \in 1..(l + 1) /\ x.frames \in Seq(Seq(W) \ {<<>>}) /\ x = [at |-> at, frames |-> x.frames]
  BY DEF States
<1>3. j \in Nat
  BY <1>2, LenProperties
<1>4. /\ c \in 0..n /\ rest \o more = Coded(fs, c)
      /\ \A i \in 1..j : x.frames[i] = Encode(k + i, fs[k + i])
  BY DEF InStep
<1>5. rest \in Seq(W) /\ Len(rest) = l - at + 1 /\ \A i \in 1..(l - at + 1) : rest[i] = data[at + i - 1]
  <2>1. l \in (at - 1)..l
    BY <1>1, <1>2
  <2> QED BY <1>2, <2>1, PartFacts
<1>6. start \in 1..(l + 1) /\ at <= start
  BY <1>2, FindFacts
<1>7. ASSUME start = at, start + HEADER - 1 > l \/ (total <= MaxFrame /\ total \in Nat /\ start + total - 1 > l)
      PROVE  Scan(data, x) = x
  <2>1. [x EXCEPT !.at = start] = x
    BY <1>2, <1>7
  <2>2. total <= MaxFrame /\ total \in Nat => ~(total > MaxFrame)
    BY Constants
  <2> QED BY <1>7, <2>1, <2>2 DEF Scan
<1>8. CASE at = l + 1
  <2>1. start = at /\ start + HEADER - 1 > l
    BY <1>1, <1>6, <1>8, Constants
  <2>2. Scan(data, x) = x
    BY <1>7, <2>1
  <2> QED BY <2>2
<1>9. CASE at # l + 1
  <2>1. at \in 1..l /\ l - at + 1 >= 1 /\ 1 \in 1..(l - at + 1) /\ at + 1 - 1 = at
    BY <1>1, <1>2, <1>9
  <2>2. c < n
    <3> SUFFICES ASSUME ~(c < n) PROVE FALSE
      OBVIOUS
    <3>1. c = n
      BY <1>1, <1>4
    <3>2. rest \o more = <<>>
      BY <1>4, <3>1, CodedNone
    <3>3. rest = <<>>
      BY <1>5, <3>2, ConcatEqualIffEmpty
    <3> QED BY <1>5, <2>1, <3>3, EmptySeq
  <2> DEFINE f == fs[c + 1]
             enc == Encode(c + 1, f)
             later == Coded(fs, c + 1)
             size == HEADER + Len(f.payload) + TRAILER
  <2>3. c + 1 \in 1..n /\ c + 1 \in 0..n /\ f \in FrameTypes /\ Coded(fs, c) = enc \o later
    BY <1>4, <2>2, CodedFirst
  <2>4. /\ enc \in Seq(W) /\ Len(enc) = size
        /\ enc[1].v = PREAMBLE /\ enc[HEADER].v = Len(f.payload)
    <3> HIDE DEF c, f, n
    <3> QED BY <1>1, <2>3, EncodeFacts
  <2>5. later \in Seq(W)
    BY <2>3, CodedType
  <2>6. Len(f.payload) \in Nat /\ Len(f.payload) <= MaxPayload
    BY <2>3, FrameKnown
  <2>7. size \in Nat /\ size >= HEADER + TRAILER /\ size <= MaxFrame
    BY <2>6, Constants
  <2> HIDE DEF n, l, W, at, j, c, rest, start, total, f, enc, later, size
  <2>8. rest \o more = enc \o later
    BY <1>4, <2>3
  <2>9. /\ \A i \in 1..Len(rest) : i <= Len(enc) => rest[i] = enc[i]
        /\ Len(enc) <= Len(rest) =>
             /\ SubSeq(rest, 1, Len(enc)) = enc
             /\ SubSeq(rest, Len(enc) + 1, Len(rest)) \o more = later
    <3>1. more \in Seq(W)
      BY DEF W, n
    <3> QED BY <1>5, <2>4, <2>5, <2>8, <3>1, Divided
  <2>10. start = at
    <3>1. 1 \in 1..Len(rest) /\ 1 <= Len(enc)
      BY <1>5, <2>1, <2>4, <2>7, Constants
    <3>2. rest[1] = data[at] /\ rest[1] = enc[1]
      BY <1>5, <2>1, <2>9, <3>1
    <3>3. at <= l /\ data[at].v = PREAMBLE
      BY <2>1, <2>4, <3>2
    <3> QED BY <1>2, <3>3, FindFacts DEF start, at, l, W, n
  <2>11. CASE start + HEADER - 1 > l
    <3>1. Scan(data, x) = x
      BY <1>7, <2>10, <2>11
    <3> QED BY <3>1
  <2>12. CASE ~(start + HEADER - 1 > l)
    <3>1. total = size
      <4>1. HEADER \in 1..Len(rest) /\ HEADER <= Len(enc) /\ HEADER \in 1..(l - at + 1)
        BY <1>1, <1>5, <2>1, <2>4, <2>7, <2>10, <2>12, Constants
      <4>2. rest[HEADER] = data[at + HEADER - 1] /\ rest[HEADER] = enc[HEADER]
        BY <1>5, <2>9, <4>1
      <4>3. data[start + HEADER - 1].v = Len(f.payload)
        BY <2>4, <2>10, <4>2
      <4>4. total = HEADER + (Len(f.payload) % (MaxPayload + 1)) + TRAILER
        BY <4>3 DEF total, FrameLength
      <4>5. Len(f.payload) % (MaxPayload + 1) = Len(f.payload)
        BY <2>6, Constants, SmallRemainder
      <4> QED BY <4>4, <4>5 DEF size
    <3>2. CASE start + total - 1 > l
      <4>1. Scan(data, x) = x
        BY <1>7, <2>7, <2>10, <3>1, <3>2
      <4> QED BY <4>1
    <3>3. CASE ~(start + total - 1 > l)
      <4> DEFINE frame == SubSeq(data, at, at + size - 1)
                 y == [at |-> at + size, frames |-> Append(x.frames, frame)]
      <4>1. Scan(data, x) = y
        <5>1. ~(total > MaxFrame)
          BY <2>7, <3>1, Constants
        <5>2. Scan(data, x) = [at |-> start + total, frames |-> Append(x.frames, SubSeq(data, start, start + total - 1))]
          BY <2>12, <3>3, <5>1 DEF Scan, start, total, at, l
        <5> QED BY <2>10, <3>1, <5>2
      <4>2. size \in 0..(l - at + 1) /\ Len(enc) <= Len(rest)
        BY <1>1, <1>5, <2>1, <2>4, <2>7, <2>10, <3>1, <3>3
      <4>3. /\ SubSeq(rest, 1, size) = frame
            /\ SubSeq(rest, size + 1, Len(rest)) = SubSeq(data, at + size, l)
        BY <1>2, <4>2, PartsOfRest DEF rest, l
      <4>4. frame = enc /\ SubSeq(data, at + size, l) \o more = later
        BY <2>4, <2>9, <4>2, <4>3
      <4> HIDE DEF frame
      <4>5. frame \in Seq(W) \ {<<>>}
        <5>1. enc # <<>>
          BY <2>4, <2>7, EmptySeq, Constants
        <5> QED BY <2>4, <4>4, <5>1
      <4>6. /\ Len(Append(x.frames, frame)) = j + 1
            /\ \A i \in 1..j : Append(x.frames, frame)[i] = x.frames[i]
            /\ Append(x.frames, frame)[j + 1] = frame
        BY <1>2, <4>5, AppendProperties DEF j
      <4>7. k + (j + 1) = c + 1
        BY <1>1, <1>3 DEF c
      <4>8. \A i \in 1..(j + 1) : Append(x.frames, frame)[i] = Encode(k + i, fs[k + i])
        <5> SUFFICES ASSUME NEW i \in 1..(j + 1) PROVE Append(x.frames, frame)[i] = Encode(k + i, fs[k + i])
          OBVIOUS
        <5>1. CASE i = j + 1
          BY <4>4, <4>6, <4>7, <5>1 DEF enc, f
        <5>2. CASE i # j + 1
          <6>1. i \in 1..j
            BY <1>3, <5>2
          <6> QED BY <1>4, <4>6, <6>1
        <5> QED BY <5>1, <5>2
      <4>9. y.at = at + size /\ y.frames = Append(x.frames, frame)
        OBVIOUS
      <4> HIDE DEF y
      <4>10. /\ k + Len(y.frames) \in 0..n
             /\ \A i \in 1..Len(y.frames) : y.frames[i] = Encode(k + i, fs[k + i])
             /\ SubSeq(data, y.at, l) \o more = Coded(fs, k + Len(y.frames))
        BY <2>3, <4>4, <4>6, <4>7, <4>8, <4>9 DEF later
      <4> QED BY <4>1, <4>10 DEF InStep, n, l
    <3> QED BY <3>2, <3>3
  <2> QED BY <2>11, <2>12
<1> QED BY <1>8, <1>9

\* The frames that were cut out are the ones after the k-th, each of them whole.
Whole(fs, k, cut) ==
    /\ Len(cut) \in Nat /\ k + Len(cut) \in 0..Len(fs)
    /\ \A i \in 1..Len(cut) : cut[i] = Encode(k + i, fs[k + i])

\* However a stream is cut into data and more, the splitter finds the next frames
\* of it, whole and in order, and keeps the bytes after them.
LEMMA SplitStream ==
    ASSUME NEW fs \in Seq(FrameTypes), NEW k \in 0..Len(fs),
           NEW data \in Seq(Wire(Len(fs))), NEW more \in Seq(Wire(Len(fs))),
           data \o more = Coded(fs, k)
    PROVE  /\ Whole(fs, k, Split(data).frames)
           /\ Split(data).rest \o more = Coded(fs, k + Len(Split(data).frames))
<1> DEFINE l == Len(data)
           n == Len(fs)
<1>1. l \in Nat
  BY LenProperties
<1>2. PICK f \in [0..l -> States(data, n)] :
        /\ Scans(f, data)
        /\ Split(data) = [frames |-> f[l].frames, rest |-> SubSeq(data, f[l].at, l)]
  BY SplitRun
<1> DEFINE T == {t \in Nat : t <= l => InStep(data, more, fs, k, f[t])}
<1>3. 0 \in T
  <2>1. f[0] = [at |-> 1, frames |-> <<>>]
    BY <1>2 DEF Scans
  <2>2. f[0].at = 1 /\ Len(f[0].frames) = 0
    BY <2>1
  <2>3. SubSeq(data, 1, l) = data
    BY SubSeqFull
  <2>4. k + Len(f[0].frames) = k
    BY <2>2, LenProperties
  <2>5. /\ k + Len(f[0].frames) \in 0..n
        /\ \A i \in 1..Len(f[0].frames) : f[0].frames[i] = Encode(k + i, fs[k + i])
        /\ SubSeq(data, f[0].at, l) \o more = Coded(fs, k + Len(f[0].frames))
    BY <2>2, <2>3, <2>4
  <2>6. InStep(data, more, fs, k, f[0])
    BY <2>5 DEF InStep
  <2> QED BY <2>6
<1>4. ASSUME NEW t \in Nat, t \in T PROVE t + 1 \in T
  <2> SUFFICES ASSUME t + 1 <= l PROVE InStep(data, more, fs, k, f[t + 1])
    OBVIOUS
  <2>1. t + 1 \in 1..l /\ (t + 1) - 1 = t /\ t \in 0..l /\ InStep(data, more, fs, k, f[t])
    BY <1>1, <1>4
  <2>2. f[t + 1] = Scan(data, f[t]) /\ f[t] \in States(data, n)
    BY <1>2, <2>1 DEF Scans
  <2> QED BY <2>1, <2>2, ScanInStep
<1> HIDE DEF T
<1>5. l \in T
  BY <1>1, <1>3, <1>4, SetInduction
<1>6. InStep(data, more, fs, k, f[l])
  BY <1>1, <1>5 DEF T
<1>7. Len(f[l].frames) \in Nat
  BY SplitFacts, <1>2, LenProperties
<1>8. Split(data).frames = f[l].frames /\ Split(data).rest = SubSeq(data, f[l].at, l)
  <2> DEFINE a == f[l].frames
             b == SubSeq(data, f[l].at, l)
             s == Split(data)
  <2>1. s = [frames |-> a, rest |-> b]
    BY <1>2
  <2> HIDE DEF a, b, s
  <2>2. s.frames = a /\ s.rest = b
    BY <2>1
  <2> QED BY <2>2 DEF a, b, s
<1> DEFINE x == f[l]
<1> HIDE DEF x
<1>9. /\ k + Len(x.frames) \in 0..n
      /\ \A i \in 1..Len(x.frames) : x.frames[i] = Encode(k + i, fs[k + i])
      /\ SubSeq(data, x.at, l) \o more = Coded(fs, k + Len(x.frames))
  BY <1>6 DEF InStep, x
<1> QED BY <1>7, <1>8, <1>9 DEF x, Whole
-----------------------------------------------------------------------------
(* Observation.                                                             *)

\* What one mountpoint has, when its base station has produced n frames.  The
\* reference position is the anchor that the history keeps: it moves only when
\* the change is counted.
Positions == Nat \cup {none}
Snapshots(n) ==
    [arp : Positions, changes : Nat, errors : Nat, parsed : Seq(1..n),
     track : [anchor : Positions, last : Positions], cnr : Seq(Nat)]
Anchored(s) ==
    /\ s.arp = none => s.changes = 0
    /\ s.arp = s.track.anchor
    /\ s.track.last = none <=> s.arp = none
    /\ s.track.last # none => /\ s.track.last - s.track.anchor <= Threshold
                              /\ s.track.anchor - s.track.last <= Threshold
Sound(n) == {s \in Snapshots(n) : Anchored(s) /\ Len(s.cnr) <= WINDOW}

LEMMA SnapshotFields ==
    ASSUME NEW n, NEW s \in Snapshots(n)
    PROVE  /\ s = [arp |-> s.arp, changes |-> s.changes, errors |-> s.errors,
                   parsed |-> s.parsed, track |-> s.track, cnr |-> s.cnr]
           /\ s.track = [anchor |-> s.track.anchor, last |-> s.track.last]
           /\ s.arp \in Positions /\ s.changes \in Nat /\ s.errors \in Nat
           /\ s.parsed \in Seq(1..n) /\ s.cnr \in Seq(Nat)
           /\ s.track.anchor \in Positions /\ s.track.last \in Positions
  BY DEF Snapshots

LEMMA ArpSound ==
    ASSUME NEW n \in Nat, NEW s \in Sound(n), NEW p \in Nat
    PROVE  /\ ObserveArp(s, p) \in Sound(n)
           /\ ObserveArp(s, p).parsed = s.parsed /\ ObserveArp(s, p).errors = s.errors
<1> DEFINE moved == s.arp # none /\ (p - s.arp > Threshold \/ s.arp - p > Threshold)
           anew == s.arp = none \/ moved
           arp1 == IF anew THEN p ELSE s.arp
           changes1 == IF moved THEN s.changes + 1 ELSE s.changes
           anchor1 == IF anew THEN p ELSE s.track.anchor
           t == [arp |-> arp1, changes |-> changes1, errors |-> s.errors, parsed |-> s.parsed,
                 track |-> [anchor |-> anchor1, last |-> p], cnr |-> s.cnr]
<1>1. s \in Snapshots(n) /\ Anchored(s) /\ Len(s.cnr) <= WINDOW
  BY DEF Sound
<1>2. ObserveArp(s, p) = t
  <2> DEFINE a == s.arp
             b == s.changes
             c == s.errors
             d == s.parsed
             e == s.cnr
             g == s.track.anchor
             h == s.track.last
  <2>1. s = [arp |-> a, changes |-> b, errors |-> c, parsed |-> d,
             track |-> [anchor |-> g, last |-> h], cnr |-> e]
    BY <1>1, SnapshotFields
  <2> HIDE DEF a, b, c, d, e, g, h
  <2>2. ObserveArp(s, p) = [arp |-> IF anew THEN p ELSE a, changes |-> IF moved THEN b + 1 ELSE b,
                            errors |-> c, parsed |-> d,
                            track |-> [anchor |-> IF anew THEN p ELSE g, last |-> p], cnr |-> e]
    <3>1. ObserveArp(s, p) = [s EXCEPT !.arp = IF anew THEN p ELSE @,
                                       !.changes = IF moved THEN @ + 1 ELSE @,
                                       !.track.last = p,
                                       !.track.anchor = IF anew THEN p ELSE @]
      BY DEF ObserveArp
    <3> DEFINE x == IF anew THEN p ELSE a
               y == IF moved THEN b + 1 ELSE b
               z == IF anew THEN p ELSE g
    <3>2. s.arp = a /\ s.changes = b /\ s.track = [anchor |-> g, last |-> h] /\ s.track.anchor = g
      BY <2>1
    <3> HIDE DEF moved, anew
    <3>3. ObserveArp(s, p) = [s EXCEPT !.arp = x, !.changes = y, !.track.last = p, !.track.anchor = z]
      BY <3>1, <3>2
    <3> HIDE DEF x, y, z
    <3>4. ObserveArp(s, p) = [arp |-> x, changes |-> y, errors |-> c, parsed |-> d,
                              track |-> [anchor |-> z, last |-> p], cnr |-> e]
      BY <2>1, <3>3
    <3> QED BY <3>4 DEF x, y, z
  <2> QED BY <2>2 DEF a, b, c, d, e, g, h
<1>3. /\ s.arp \in Positions /\ s.changes \in Nat /\ s.errors \in Nat
      /\ s.parsed \in Seq(1..n) /\ s.cnr \in Seq(Nat)
      /\ s.track.anchor \in Positions /\ s.track.last \in Positions
  BY <1>1, SnapshotFields
<1>4. /\ arp1 \in Positions /\ anchor1 \in Positions /\ p \in Positions /\ changes1 \in Nat
      /\ p # none
  BY <1>3 DEF Positions, none
<1>5. /\ arp1 # none /\ arp1 = anchor1
      /\ p - anchor1 <= Threshold /\ anchor1 - p <= Threshold
  <2>1. s.arp = s.track.anchor
    BY <1>1 DEF Anchored
  <2>2. CASE anew
    BY <1>4, <2>2, Constants
  <2>3. CASE ~anew
    <3>1. s.arp \in Nat /\ arp1 = s.arp /\ anchor1 = s.arp
      BY <1>3, <2>1, <2>3 DEF Positions
    <3>2. ~(p - s.arp > Threshold) /\ ~(s.arp - p > Threshold) /\ s.arp # none
      BY <2>3
    <3> QED BY <3>1, <3>2, Constants
  <2> QED BY <2>2, <2>3
<1> HIDE DEF arp1, changes1, anchor1
<1>6. /\ t.arp = arp1 /\ t.changes = changes1 /\ t.errors = s.errors /\ t.parsed = s.parsed
      /\ t.track.anchor = anchor1 /\ t.track.last = p /\ t.cnr = s.cnr
  OBVIOUS
<1>7. t \in Snapshots(n)
  BY <1>3, <1>4 DEF Snapshots
<1> HIDE DEF t
<1>8. Anchored(t)
  BY <1>4, <1>5, <1>6 DEF Anchored
<1>9. t \in Sound(n)
  BY <1>1, <1>6, <1>7, <1>8 DEF Sound
<1> QED BY <1>2, <1>6, <1>9

LEMMA TrimmedFacts ==
    ASSUME NEW values \in Seq(Nat), Len(values) <= WINDOW, NEW v \in Nat
    PROVE  /\ Trimmed(Append(values, v)) \in Seq(Nat)
           /\ Len(Trimmed(Append(values, v))) <= WINDOW
<1> DEFINE w == Append(values, v)
<1>1. w \in Seq(Nat) /\ Len(w) = Len(values) + 1 /\ w # <<>> /\ Len(values) \in Nat
  BY AppendProperties, LenProperties
<1> HIDE DEF w
<1>2. Tail(w) \in Seq(Nat) /\ Len(Tail(w)) = Len(w) - 1
  BY <1>1, HeadTailProperties
<1>3. CASE Len(w) > WINDOW
  BY <1>1, <1>2, <1>3 DEF Trimmed, w
<1>4. CASE ~(Len(w) > WINDOW)
  BY <1>1, <1>4, Constants DEF Trimmed, w
<1> QED BY <1>3, <1>4

\* t is s and the frame no parsed.
Parses(s, t, no) == t.parsed = Append(s.parsed, no) /\ t.errors = s.errors

\* One frame is counted as an error or parsed.
LEMMA FrameSound ==
    ASSUME NEW fs \in Seq(FrameTypes), NEW s \in Sound(Len(fs)),
           NEW frame \in Seq(Wire(Len(fs))) \ {<<>>}
    PROVE  /\ ObserveFrame(s, frame, fs) \in Sound(Len(fs))
           /\ \A no \in 1..Len(fs) : frame = Encode(no, fs[no]) =>
                Parses(s, ObserveFrame(s, frame, fs), no)
<1> DEFINE n == Len(fs)
           no == frame[1].frame
           f == fs[no]
           read == [s EXCEPT !.parsed = Append(@, no)]
           t == ObserveFrame(s, frame, fs)
<1>1. n \in Nat
  BY LenProperties
<1>2. no \in 1..n
  <2>1. Len(frame) \in Nat \ {0}
    BY EmptySeq
  <2>2. frame[1] \in Wire(n)
    BY <2>1, ElementOfSeq
  <2> QED BY <2>2 DEF Wire
<1>3. f \in FrameTypes
  BY <1>2, ElementOfSeq
<1>4. f.kind \in {"arp", "msm", "other"} /\ f.val \in Nat
  BY <1>3, FrameKnown
<1>5. s \in Snapshots(n) /\ Anchored(s) /\ Len(s.cnr) <= WINDOW
  BY DEF Sound
<1>6. /\ s = [arp |-> s.arp, changes |-> s.changes, errors |-> s.errors,
              parsed |-> s.parsed, track |-> s.track, cnr |-> s.cnr]
      /\ s.errors \in Nat /\ s.parsed \in Seq(1..n) /\ s.cnr \in Seq(Nat)
  BY <1>5, SnapshotFields
<1> HIDE DEF n, no, f
<1>7. \A m \in 1..n : frame = Encode(m, fs[m]) => m = no
  <2> SUFFICES ASSUME NEW m \in 1..n, frame = Encode(m, fs[m]) PROVE m = no
    OBVIOUS
  <2>1. fs[m] \in FrameTypes
    BY ElementOfSeq DEF n
  <2> QED BY <1>1, <2>1, EncodeFacts DEF no
<1>8. /\ read \in Sound(n) /\ read.parsed = Append(s.parsed, no)
      /\ read.errors = s.errors /\ read.cnr = s.cnr
  <2> DEFINE q == Append(s.parsed, no)
  <2>1. q \in Seq(1..n)
    BY <1>2, <1>6, AppendProperties
  <2> HIDE DEF q
  <2>2. read = [s EXCEPT !.parsed = q]
    BY DEF q
  <2>3. read \in Snapshots(n)
    BY <1>5, <2>1, <2>2 DEF Snapshots
  <2>4. /\ read.arp = s.arp /\ read.changes = s.changes /\ read.track = s.track /\ read.cnr = s.cnr
        /\ read.parsed = q /\ read.errors = s.errors
    BY <1>6, <2>2
  <2> HIDE DEF read
  <2>5. Anchored(read)
    BY <1>5, <2>4 DEF Anchored
  <2>6. read \in Sound(n)
    BY <1>5, <2>3, <2>4, <2>5 DEF Sound
  <2> QED BY <2>4, <2>6 DEF q
<1> HIDE DEF read
<1>9. CASE frame # Encode(no, f)
  <2> DEFINE u == [s EXCEPT !.errors = @ + 1]
  <2>1. t = u
    BY <1>9 DEF ObserveFrame, no, f
  <2>2. u \in Snapshots(n)
    BY <1>5, <1>6 DEF Snapshots
  <2>3. u.arp = s.arp /\ u.changes = s.changes /\ u.track = s.track /\ u.cnr = s.cnr
    BY <1>6
  <2> HIDE DEF u
  <2>4. Anchored(u)
    BY <1>5, <2>3 DEF Anchored
  <2>5. u \in Sound(n)
    BY <1>5, <2>2, <2>3, <2>4 DEF Sound
  <2>6. \A m \in 1..n : frame # Encode(m, fs[m])
    BY <1>7, <1>9 DEF f
  <2> QED BY <2>1, <2>5, <2>6 DEF n
<1>10. CASE frame = Encode(no, f)
  <2>1. t \in Sound(n) /\ t.parsed = Append(s.parsed, no) /\ t.errors = s.errors
    <3>1. CASE f.kind = "arp"
      <4>1. t = ObserveArp(read, f.val)
        BY <1>10, <3>1 DEF ObserveFrame, no, f, read
      <4> QED BY <1>1, <1>4, <1>8, <4>1, ArpSound
    <3>2. CASE f.kind = "msm"
      <4> DEFINE w == Trimmed(Append(s.cnr, f.val))
                 u == [read EXCEPT !.cnr = w]
      <4>1. t = u
        <5>1. t = [read EXCEPT !.cnr = Trimmed(Append(@, f.val))]
          BY <1>10, <3>2 DEF ObserveFrame, no, f, read
        <5> QED BY <1>8, <5>1
      <4>2. w \in Seq(Nat) /\ Len(w) <= WINDOW
        BY <1>4, <1>5, <1>6, TrimmedFacts
      <4> HIDE DEF w
      <4>3. read \in Snapshots(n) /\ Anchored(read)
        BY <1>8 DEF Sound
      <4>4. u \in Snapshots(n)
        BY <4>2, <4>3 DEF Snapshots
      <4>5. /\ u.arp = read.arp /\ u.changes = read.changes /\ u.track = read.track /\ u.cnr = w
            /\ u.parsed = read.parsed /\ u.errors = read.errors
        BY <4>3, SnapshotFields
      <4> HIDE DEF u
      <4>6. Anchored(u)
        BY <4>3, <4>5 DEF Anchored
      <4>7. u \in Sound(n)
        BY <4>2, <4>4, <4>5, <4>6 DEF Sound
      <4> QED BY <1>8, <4>1, <4>5, <4>7
    <3>3. CASE f.kind = "other"
      <4>1. t = read
        BY <1>10, <3>3 DEF ObserveFrame, no, f, read
      <4> QED BY <1>8, <4>1
    <3> QED BY <1>4, <3>1, <3>2, <3>3
  <2> QED BY <1>7, <2>1 DEF n, Parses
<1> QED BY <1>9, <1>10

\* f has what the loop over the frames has after each of them.
Observes(f, s, cut, fs) ==
    f[0] = s /\ \A i \in 1..Len(cut) : f[i] = ObserveFrame(f[i - 1], cut[i], fs)

LEMMA ObserveRun ==
    ASSUME NEW fs \in Seq(FrameTypes), NEW s \in Sound(Len(fs)),
           NEW cut \in Seq(Seq(Wire(Len(fs))) \ {<<>>})
    PROVE  \E f \in [0..Len(cut) -> Sound(Len(fs))] :
              ObserveFrames(s, cut, fs) = f[Len(cut)] /\ Observes(f, s, cut, fs)
<1> DEFINE l == Len(cut)
           V == Sound(Len(fs))
           step == [i \in 1..l |-> [x \in V |-> ObserveFrame(x, cut[i], fs)]]
           Is(f) == f = [i \in 0..l |-> IF i = 0 THEN s ELSE ObserveFrame(f[i - 1], cut[i], fs)]
<1>1. l \in Nat /\ s \in V
  BY LenProperties
<1>2. \A i \in 1..l : cut[i] \in Seq(Wire(Len(fs))) \ {<<>>}
  BY ElementOfSeq
<1>3. \A i \in 1..l : \A x \in V : ObserveFrame(x, cut[i], fs) \in V
  BY <1>2, FrameSound
<1> HIDE DEF l, V
<1>4. step \in [1..l -> [V -> V]]
  BY <1>3
<1>5. PICK f \in [0..l -> V] : f[0] = s /\ \A i \in 1..l : f[i] = step[i][f[i - 1]]
  <2> HIDE DEF step
  <2>1. \E f \in [0..l -> V] : IsRun(f, l, s, step)
    BY <1>1, <1>4, LoopRuns
  <2> QED BY <2>1 DEF IsRun
<1>6. ASSUME NEW i \in 1..l PROVE f[i] = ObserveFrame(f[i - 1], cut[i], fs)
  <2>1. i - 1 \in 0..l
    BY <1>1
  <2>2. f[i - 1] \in V
    BY <1>5, <2>1
  <2> QED BY <1>5, <2>2
<1>7. Is(f)
  <2>1. \A i \in 0..l : i = 0 \/ i \in 1..l
    BY <1>1
  <2> QED BY <1>5, <1>6, <2>1
<1> DEFINE g == CHOOSE h : Is(h)
<1>8. Is(g)
  BY <1>7
<1>9. ObserveFrames(s, cut, fs) = g[l]
  BY DEF ObserveFrames, l
<1> HIDE DEF g, step
<1>10. g[0] = s /\ \A i \in 1..l : g[i] = ObserveFrame(g[i - 1], cut[i], fs)
  <2>1. 0 \in 0..l /\ \A i \in 1..l : i \in 0..l /\ i # 0
    BY <1>1
  <2> QED BY <1>8, <2>1
<1>11. g \in [0..l -> V]
  <2> DEFINE T == {i \in Nat : i <= l => g[i] \in V}
  <2>1. 0 \in T
    BY <1>1, <1>10
  <2>2. ASSUME NEW i \in Nat, i \in T PROVE i + 1 \in T
    <3> SUFFICES ASSUME i + 1 <= l PROVE g[i + 1] \in V
      OBVIOUS
    <3>1. i + 1 \in 1..l /\ (i + 1) - 1 = i /\ g[i] \in V
      BY <1>1, <2>2
    <3>2. g[i + 1] = ObserveFrame(g[i], cut[i + 1], fs)
      BY <1>10, <3>1
    <3> QED BY <1>3, <3>1, <3>2
  <2> HIDE DEF T
  <2>3. Nat \subseteq T
    BY <2>1, <2>2, SetInduction
  <2>4. \A i \in 0..l : g[i] \in V
    BY <1>1, <2>3 DEF T
  <2> QED BY <1>8, <2>4
<1> QED BY <1>9, <1>10, <1>11 DEF Observes, l, V

\* The first k frames were parsed, in order, and nothing else was found.
AllParsed(s, k) ==
    Len(s.parsed) = k /\ s.parsed = [i \in 1..k |-> i] /\ s.errors = 0

\* The frames after the k-th, each of them whole, when the first k were parsed.
LEMMA ObserveStream ==
    ASSUME NEW fs \in Seq(FrameTypes), NEW s \in Sound(Len(fs)),
           NEW cut \in Seq(Seq(Wire(Len(fs))) \ {<<>>}), NEW k \in Nat,
           Whole(fs, k, cut), AllParsed(s, k)
    PROVE  AllParsed(ObserveFrames(s, cut, fs), k + Len(cut))
<1> DEFINE l == Len(cut)
           n == Len(fs)
<1>1. l \in Nat /\ n \in Nat
  BY LenProperties
<1>11. /\ k + l \in 0..n
      /\ \A i \in 1..l : cut[i] = Encode(k + i, fs[k + i])
  BY DEF Whole
<1>2. PICK f \in [0..l -> Sound(n)] : ObserveFrames(s, cut, fs) = f[l] /\ Observes(f, s, cut, fs)
  BY ObserveRun
<1> DEFINE Upto(j) == [i \in 1..j |-> i]
           P(i) == f[i].errors = 0 /\ f[i].parsed = Upto(k + i) /\ Len(f[i].parsed) = k + i
           T == {i \in Nat : i <= l => P(i)}
<1>3. 0 \in T
  <2>1. f[0] = s /\ k + 0 = k
    BY <1>2 DEF Observes
  <2>2. P(0)
    BY <2>1 DEF AllParsed
  <2> QED BY <2>2
<1>4. ASSUME NEW i \in Nat, i \in T PROVE i + 1 \in T
  <2> SUFFICES ASSUME i + 1 <= l PROVE P(i + 1)
    OBVIOUS
  <2>1. i + 1 \in 1..l /\ (i + 1) - 1 = i /\ i \in 0..l /\ i <= l
    BY <1>1
  <2>2. P(i)
    BY <1>4, <2>1
  <2> DEFINE no == k + (i + 1)
             frame == cut[i + 1]
             t == f[i + 1]
  <2>3. no \in 1..n /\ no = (k + i) + 1 /\ no \in Nat
    BY <1>1, <1>11, <2>1
  <2>4. frame = Encode(no, fs[no]) /\ frame \in Seq(Wire(n)) \ {<<>>}
    BY <1>11, <2>1, ElementOfSeq
  <2>5. t = ObserveFrame(f[i], frame, fs) /\ f[i] \in Sound(n)
    BY <1>2, <2>1 DEF Observes
  <2> HIDE DEF n, no, frame, t
  <2>6. t.parsed = Append(f[i].parsed, no) /\ t.errors = 0
    <3>1. Parses(f[i], ObserveFrame(f[i], frame, fs), no)
      BY <2>3, <2>4, <2>5, FrameSound DEF n
    <3> QED BY <2>2, <2>5, <3>1 DEF Parses
  <2>7. f[i].parsed \in Seq(Nat)
    <3>1. f[i].parsed \in Seq(1..n)
      BY <2>5 DEF Sound, Snapshots
    <3> QED BY <1>1, <3>1, SeqMonotonic
  <2> DEFINE old == f[i].parsed
             new == Append(old, no)
  <2>8. /\ new \in Seq(Nat) /\ Len(new) = no /\ new[no] = no
        /\ \A j \in 1..(k + i) : new[j] = old[j]
    BY <2>2, <2>3, <2>7, AppendProperties
  <2>9. \A j \in 1..(k + i) : old[j] = j
    BY <2>2
  <2> HIDE DEF new, old
  <2>10. \A j \in 1..no : new[j] = j
    <3>1. \A j \in 1..no : j = no \/ j \in 1..(k + i)
      BY <2>3
    <3> QED BY <2>8, <2>9, <3>1
  <2>11. new = Upto(no)
    <3>1. DOMAIN new = 1..no /\ new = [j \in 1..no |-> new[j]]
      BY <2>8, LenProperties
    <3> QED BY <2>10, <3>1
  <2> HIDE DEF Upto
  <2> QED BY <2>6, <2>8, <2>11 DEF no, t, new, old
<1> HIDE DEF T, P
<1>5. l \in T
  BY <1>1, <1>3, <1>4, SetInduction
<1>6. P(l)
  BY <1>1, <1>5 DEF T
<1> QED BY <1>2, <1>6 DEF P, AllParsed
-----------------------------------------------------------------------------
(* The queue.                                                               *)

\* _quality_queue's entries, and the bytes of m in a queue q.
Chunks == Stations \X Seq(Bytes)
Pieces(q, m) == [i \in DOMAIN q |-> IF q[i][1] = m THEN q[i][2] ELSE <<>>]
Of(q, m) == Joined(Pieces(q, m))

\* The bytes of m in q are of n frames.
Fits(q, m, n) == \A i \in 1..Len(q) : q[i][1] = m => q[i][2] \in Seq(Wire(n))

LEMMA ChunkFacts ==
    ASSUME NEW q \in Seq(Chunks)
    PROVE  /\ Len(q) \in Nat /\ DOMAIN q = 1..Len(q)
           /\ \A i \in 1..Len(q) : q[i] \in Chunks /\ q[i][1] \in Stations /\ q[i][2] \in Seq(Bytes)
<1>1. \A i \in 1..Len(q) : q[i] \in Chunks
  BY ElementOfSeq
<1>2. \A c \in Chunks : c[1] \in Stations /\ c[2] \in Seq(Bytes)
  BY DEF Chunks
<1> QED BY <1>1, <1>2, LenProperties

\* The pieces of Of.
LEMMA OfPieces ==
    ASSUME NEW q \in Seq(Chunks), NEW m, NEW n, Fits(q, m, n)
    PROVE  /\ Pieces(q, m) \in Seq(Seq(Wire(n))) /\ Len(Pieces(q, m)) = Len(q)
           /\ \A i \in 1..Len(q) : Pieces(q, m)[i] = IF q[i][1] = m THEN q[i][2] ELSE <<>>
<1> DEFINE l == Len(q)
           S == Seq(Wire(n))
           Piece(i) == IF q[i][1] = m THEN q[i][2] ELSE <<>>
           p == [i \in 1..l |-> Piece(i)]
<1>1. l \in Nat /\ DOMAIN q = 1..l
  BY ChunkFacts
<1>2. \A i \in 1..l : Piece(i) \in S
  BY EmptySeq DEF Fits
<1> HIDE DEF l, S, Piece
<1>3. p \in [1..l -> S] /\ \A i \in 1..l : p[i] = Piece(i)
  BY <1>2
<1> HIDE DEF p
<1>4. p \in Seq(S) /\ Len(p) = l
  BY <1>1, <1>3
<1>5. Pieces(q, m) = p
  BY <1>1 DEF Pieces, p, Piece
<1> QED BY <1>3, <1>4, <1>5 DEF S, Piece, l

LEMMA OfType ==
    ASSUME NEW q \in Seq(Chunks), NEW m, NEW n, Fits(q, m, n)
    PROVE  Of(q, m) \in Seq(Wire(n))
  BY OfPieces, JoinedType DEF Of

\* Nothing of m is queued.
LEMMA OfNothing ==
    ASSUME NEW q \in Seq(Chunks), NEW m, \A i \in 1..Len(q) : q[i][1] # m
    PROVE  Of(q, m) = <<>>
<1> DEFINE p == Pieces(q, m)
<1>1. Fits(q, m, 0)
  BY DEF Fits
<1>2. /\ p \in Seq(Seq(Wire(0))) /\ Len(p) = Len(q)
      /\ \A i \in 1..Len(q) : p[i] = IF q[i][1] = m THEN q[i][2] ELSE <<>>
  BY <1>1, OfPieces
<1> HIDE DEF p
<1>3. Joined(p) = <<>>
  BY <1>2, JoinedNothing
<1> QED BY <1>3 DEF Of, p

LEMMA OfEmpty == ASSUME NEW m PROVE Of(<<>>, m) = <<>>
<1>1. <<>> \in Seq(Chunks) /\ Len(<<>>) = 0
  BY EmptySeq
<1> DEFINE q == <<>>
<1> HIDE DEF q
<1>2. q \in Seq(Chunks) /\ \A i \in 1..Len(q) : q[i][1] # m
  BY <1>1 DEF q
<1>3. Of(q, m) = <<>>
  BY <1>2, OfNothing
<1> QED BY <1>3 DEF q

\* put_nowait.
LEMMA OfAppend ==
    ASSUME NEW q \in Seq(Chunks), NEW m, NEW n, Fits(q, m, n),
           NEW a \in Stations, NEW c \in Seq(Bytes), a = m => c \in Seq(Wire(n))
    PROVE  /\ Append(q, <<a, c>>) \in Seq(Chunks) /\ Fits(Append(q, <<a, c>>), m, n)
           /\ Of(Append(q, <<a, c>>), m) = Of(q, m) \o (IF a = m THEN c ELSE <<>>)
<1> DEFINE l == Len(q)
           r == Append(q, <<a, c>>)
           S == Seq(Wire(n))
           piece == IF a = m THEN c ELSE <<>>
           p == Pieces(q, m)
           t == Pieces(r, m)
<1>1. l \in Nat /\ <<a, c>> \in Chunks /\ piece \in S
  BY ChunkFacts, EmptySeq DEF Chunks
<1>2. r \in Seq(Chunks) /\ Len(r) = l + 1 /\ r[l + 1] = <<a, c>> /\ \A i \in 1..l : r[i] = q[i]
  BY <1>1, AppendProperties
<1> HIDE DEF l, r
<1>3. Fits(r, m, n)
  <2> SUFFICES ASSUME NEW i \in 1..(l + 1), r[i][1] = m PROVE r[i][2] \in S
    BY <1>2 DEF Fits
  <2>1. CASE i = l + 1
    BY <1>2, <2>1
  <2>2. CASE i # l + 1
    <3>1. i \in 1..l
      BY <1>1, <2>2
    <3> QED BY <1>2, <3>1 DEF Fits, l
  <2> QED BY <2>1, <2>2
<1>4. /\ p \in Seq(S) /\ Len(p) = l
      /\ \A i \in 1..l : p[i] = IF q[i][1] = m THEN q[i][2] ELSE <<>>
  BY OfPieces DEF l
<1>5. /\ t \in Seq(S) /\ Len(t) = l + 1
      /\ \A i \in 1..(l + 1) : t[i] = IF r[i][1] = m THEN r[i][2] ELSE <<>>
  <2>1. /\ t \in Seq(S) /\ Len(t) = Len(r)
        /\ \A i \in 1..Len(r) : t[i] = IF r[i][1] = m THEN r[i][2] ELSE <<>>
    BY <1>2, <1>3, OfPieces
  <2> HIDE DEF t
  <2> QED BY <1>2, <2>1
<1> HIDE DEF p, t, S
<1>6. /\ Append(p, piece) \in Seq(S) /\ Len(Append(p, piece)) = l + 1
      /\ \A i \in 1..l : Append(p, piece)[i] = p[i]
      /\ Append(p, piece)[l + 1] = piece
  BY <1>1, <1>4, AppendProperties
<1>7. ASSUME NEW i \in 1..(l + 1) PROVE Append(p, piece)[i] = t[i]
  <2>1. CASE i = l + 1
    <3>1. r[i][1] = a /\ r[i][2] = c
      BY <1>2, <2>1
    <3> QED BY <1>5, <1>6, <2>1, <3>1
  <2>2. CASE i # l + 1
    <3>1. i \in 1..l
      BY <1>1, <2>2
    <3> QED BY <1>2, <1>4, <1>5, <1>6, <3>1
  <2> QED BY <2>1, <2>2
<1>8. Append(p, piece) = t
  BY <1>5, <1>6, <1>7, SeqEqual
<1> HIDE DEF piece
<1>9. Joined(Append(p, piece)) = Joined(p) \o piece
  BY <1>1, <1>4, JoinedAppend DEF S
<1> QED BY <1>2, <1>3, <1>8, <1>9 DEF Of, p, t, r, piece

\* get().
LEMMA OfTail ==
    ASSUME NEW q \in Seq(Chunks), q # <<>>, NEW m, NEW n, Fits(q, m, n)
    PROVE  /\ Tail(q) \in Seq(Chunks) /\ Len(Tail(q)) = Len(q) - 1 /\ Fits(Tail(q), m, n)
           /\ Head(q) \in Chunks
           /\ Head(q)[1] = m => Head(q)[2] \in Seq(Wire(n))
           /\ Of(q, m) = (IF Head(q)[1] = m THEN Head(q)[2] ELSE <<>>) \o Of(Tail(q), m)
<1> DEFINE l == Len(q)
           r == Tail(q)
           h == Head(q)
           S == Seq(Wire(n))
           p == Pieces(q, m)
           t == Pieces(r, m)
<1>1. l \in Nat /\ l # 0
  BY EmptySeq
<1>2. r \in Seq(Chunks) /\ Len(r) = l - 1 /\ h \in Chunks /\ h = q[1] /\ \A i \in 1..(l - 1) : r[i] = q[i + 1]
  BY HeadTailProperties
<1> HIDE DEF l, r, h
<1>3. Fits(r, m, n)
  <2> SUFFICES ASSUME NEW i \in 1..(l - 1), r[i][1] = m PROVE r[i][2] \in S
    BY <1>2 DEF Fits
  <2>1. i + 1 \in 1..l
    BY <1>1
  <2> QED BY <1>2, <2>1 DEF Fits, l
<1>4. h[1] = m => h[2] \in S
  <2>1. 1 \in 1..l
    BY <1>1
  <2> QED BY <1>2, <2>1 DEF Fits, l
<1>5. /\ p \in Seq(S) /\ Len(p) = l
      /\ \A i \in 1..l : p[i] = IF q[i][1] = m THEN q[i][2] ELSE <<>>
  BY OfPieces DEF l
<1>6. /\ t \in Seq(S) /\ Len(t) = l - 1
      /\ \A i \in 1..(l - 1) : t[i] = IF r[i][1] = m THEN r[i][2] ELSE <<>>
  <2>1. /\ t \in Seq(S) /\ Len(t) = Len(r)
        /\ \A i \in 1..Len(r) : t[i] = IF r[i][1] = m THEN r[i][2] ELSE <<>>
    BY <1>2, <1>3, OfPieces
  <2> HIDE DEF t
  <2> QED BY <1>2, <2>1
<1> HIDE DEF p, t, S
<1>7. p # <<>>
  BY <1>1, <1>5, EmptySeq
<1>8. /\ Tail(p) \in Seq(S) /\ Len(Tail(p)) = l - 1 /\ Head(p) = p[1]
      /\ \A i \in 1..(l - 1) : Tail(p)[i] = p[i + 1]
  BY <1>5, <1>7, HeadTailProperties
<1>9. ASSUME NEW i \in 1..(l - 1) PROVE Tail(p)[i] = t[i]
  <2>1. i + 1 \in 1..l
    BY <1>1
  <2> QED BY <1>2, <1>5, <1>6, <1>8, <2>1
<1>10. Tail(p) = t
  BY <1>6, <1>8, <1>9, SeqEqual
<1>11. Joined(p) = Head(p) \o Joined(Tail(p))
  BY <1>5, <1>7, JoinedFirst DEF S
<1>12. Head(p) = IF h[1] = m THEN h[2] ELSE <<>>
  <2>1. 1 \in 1..l
    BY <1>1
  <2> QED BY <1>2, <1>5, <1>8, <2>1
<1> QED BY <1>2, <1>3, <1>4, <1>10, <1>11, <1>12 DEF Of, p, t, r, h, S, l
-----------------------------------------------------------------------------
(* One base station: the frames s it has produced, the bytes o that are not *)
(* yet sent, the buffer b, the snapshot x, the gaps g and the queue q.      *)

Typed(m, q, s, o, b, x, g) ==
    /\ s \in Seq(FrameTypes) /\ Len(s) <= MaxFrames
    /\ o \in Seq(Wire(Len(s))) /\ b \in Seq(Wire(Len(s))) /\ Len(b) < MaxFrame
    /\ x \in Sound(Len(s)) /\ g \in Nat
    /\ Fits(q, m, Len(s))

\* The first frames are parsed and the bytes of the others are somewhere.
Accounted(m, q, s, o, b, x) ==
    /\ Len(x.parsed) \in 0..Len(s) /\ x.parsed = [i \in 1..Len(x.parsed) |-> i]
    /\ x.errors = 0
    /\ (b \o Of(q, m)) \o o = Coded(s, Len(x.parsed))

Holds(m, q, s, o, b, x, g) ==
    Typed(m, q, s, o, b, x, g) /\ (g = 0 => Accounted(m, q, s, o, b, x))

LEMMA TypedFacts ==
    ASSUME NEW m, NEW q \in Seq(Chunks), NEW s, NEW o, NEW b, NEW x, NEW g, Typed(m, q, s, o, b, x, g)
    PROVE  /\ Len(s) \in Nat /\ Of(q, m) \in Seq(Wire(Len(s)))
           /\ Wire(Len(s)) \subseteq Bytes
<1>1. Len(s) \in Nat /\ Len(s) <= MaxFrames
  BY LenProperties DEF Typed
<1>2. Wire(Len(s)) \subseteq Bytes
  BY <1>1, Constants DEF Wire, Bytes
<1> QED BY <1>1, <1>2, OfType DEF Typed

\* Produce.
LEMMA StationProduces ==
    ASSUME NEW m, NEW q \in Seq(Chunks), NEW s, NEW o, NEW b, NEW x, NEW g,
           Holds(m, q, s, o, b, x, g), Len(s) < MaxFrames, NEW f \in FrameTypes
    PROVE  Holds(m, q, Append(s, f), o \o Encode(Len(s) + 1, f), b, x, g)
<1> DEFINE n == Len(s)
           r == Append(s, f)
           enc == Encode(n + 1, f)
<1>1. Typed(m, q, s, o, b, x, g)
  BY DEF Holds
<1>2. n \in Nat /\ Of(q, m) \in Seq(Wire(n)) /\ s \in Seq(FrameTypes)
  BY <1>1, TypedFacts DEF Typed
<1>3. r \in Seq(FrameTypes) /\ Len(r) = n + 1
  BY <1>2, AppendProperties
<1> HIDE DEF n
<1>4. enc \in Seq(Wire(n + 1))
  <2>1. n + 1 \in Nat /\ n + 1 \in 1..(n + 1)
    BY <1>2
  <2> QED BY <2>1, EncodeFacts
<1> HIDE DEF r, enc
<1>5. Wire(n) \subseteq Wire(n + 1) /\ 1..n \subseteq 1..(n + 1)
  BY <1>2 DEF Wire
<1>6. \A z \in Seq(Wire(n)) : z \in Seq(Wire(n + 1))
  BY <1>5, SeqMonotonic
<1>7. Typed(m, q, r, o \o enc, b, x, g)
  <2>1. o \in Seq(Wire(n + 1)) /\ b \in Seq(Wire(n + 1)) /\ Len(b) < MaxFrame /\ g \in Nat
    BY <1>1, <1>6 DEF Typed, n
  <2>2. o \o enc \in Seq(Wire(n + 1))
    BY <1>4, <2>1, ConcatProperties
  <2>3. Fits(q, m, n + 1)
    BY <1>1, <1>6 DEF Typed, Fits, n
  <2>4. x \in Sound(n + 1)
    <3>1. x \in Snapshots(n) /\ Anchored(x) /\ Len(x.cnr) <= WINDOW
      BY <1>1 DEF Typed, Sound, n
    <3>2. x.parsed \in Seq(1..(n + 1))
      <4>1. x.parsed \in Seq(1..n)
        BY <3>1, SnapshotFields
      <4> QED BY <1>5, <4>1, SeqMonotonic
    <3>3. x \in Snapshots(n + 1)
      BY <3>1, <3>2 DEF Snapshots
    <3> QED BY <3>1, <3>3 DEF Sound
  <2>5. n + 1 <= MaxFrames
    BY <1>2, Constants DEF n
  <2> QED BY <1>3, <2>1, <2>2, <2>3, <2>4, <2>5 DEF Typed
<1>8. ASSUME g = 0 PROVE Accounted(m, q, r, o \o enc, b, x)
  <2> DEFINE k == Len(x.parsed)
             front == b \o Of(q, m)
  <2>1. Accounted(m, q, s, o, b, x)
    BY <1>8 DEF Holds
  <2>2. k \in 0..n /\ front \o o = Coded(s, k)
    BY <2>1 DEF Accounted, n
  <2>3. k \in 0..(n + 1)
    BY <1>2, <2>2
  <2>4. Coded(r, k) = Coded(s, k) \o enc
    BY <1>2, <2>2, CodedMore DEF n, r, enc
  <2>5. o \in Seq(Wire(n + 1)) /\ b \in Seq(Wire(n + 1)) /\ Of(q, m) \in Seq(Wire(n + 1))
    BY <1>1, <1>2, <1>6 DEF Typed, n
  <2>6. front \in Seq(Wire(n + 1))
    BY <2>5, ConcatProperties
  <2> HIDE DEF k, front
  <2>7. Regroups(front, o, enc)
    BY <1>4, <2>5, <2>6, Regrouped
  <2>8. front \o (o \o enc) = Coded(r, k)
    BY <2>2, <2>4, <2>7 DEF Regroups
  <2> QED BY <1>3, <2>1, <2>3, <2>8 DEF Accounted, k, front
<1> QED BY <1>7, <1>8 DEF Holds, n, r, enc

\* The bytes that one publish() takes and the ones it leaves.
LEMMA CutFacts ==
    ASSUME NEW S, NEW o \in Seq(S), NEW n \in 1..Len(o)
    PROVE  /\ SubSeq(o, 1, n) \in Seq(S) /\ SubSeq(o, n + 1, Len(o)) \in Seq(S)
           /\ SubSeq(o, 1, n) \o SubSeq(o, n + 1, Len(o)) = o
<1>1. Len(o) \in Nat /\ n \in Nat
  BY LenProperties
<1>2. 1 \in 1..(Len(o) + 1) /\ n \in (1 - 1)..Len(o) /\ n + 1 \in 1..(Len(o) + 1)
      /\ Len(o) \in ((n + 1) - 1)..Len(o) /\ Len(o) \in n..Len(o)
  BY <1>1
<1>3. SubSeq(o, 1, n) \in Seq(S)
  BY <1>2, PartFacts
<1>4. SubSeq(o, n + 1, Len(o)) \in Seq(S)
  BY <1>2, PartFacts
<1>5. SubSeq(o, 1, n) \o SubSeq(o, n + 1, Len(o)) = SubSeq(o, 1, Len(o))
  BY <1>2, ConcatAdjacentSubSeq
<1>6. SubSeq(o, 1, Len(o)) = o
  BY SubSeqFull
<1> QED BY <1>3, <1>4, <1>5, <1>6

\* publish() with a worker and room in its queue.
LEMMA StationEnqueues ==
    ASSUME NEW m \in Stations, NEW q \in Seq(Chunks), NEW s, NEW o, NEW b, NEW x, NEW g,
           Holds(m, q, s, o, b, x, g), NEW n \in 1..Len(o)
    PROVE  Holds(m, Append(q, <<m, SubSeq(o, 1, n)>>), s, SubSeq(o, n + 1, Len(o)), b, x, g)
<1> DEFINE W == Wire(Len(s))
           chunk == SubSeq(o, 1, n)
           left == SubSeq(o, n + 1, Len(o))
           r == Append(q, <<m, chunk>>)
           y == Of(q, m)
<1>1. Typed(m, q, s, o, b, x, g)
  BY DEF Holds
<1>2. y \in Seq(W) /\ b \in Seq(W) /\ o \in Seq(W) /\ W \subseteq Bytes
  BY <1>1, TypedFacts DEF Typed
<1>3. chunk \in Seq(W) /\ left \in Seq(W) /\ chunk \o left = o
  BY <1>2, CutFacts
<1> HIDE DEF chunk, left
<1>4. chunk \in Seq(Bytes)
  BY <1>2, <1>3, SeqMonotonic
<1>5. Fits(r, m, Len(s)) /\ Of(r, m) = y \o chunk
  BY <1>1, <1>3, <1>4, OfAppend DEF Typed
<1> HIDE DEF r
<1>6. Typed(m, r, s, left, b, x, g)
  BY <1>1, <1>3, <1>5 DEF Typed
<1>7. ASSUME g = 0 PROVE Accounted(m, r, s, left, b, x)
  <2>1. Accounted(m, q, s, o, b, x)
    BY <1>7 DEF Holds
  <2> HIDE DEF y, W
  <2>2. b \o y \in Seq(W) /\ y \o chunk \in Seq(W)
    BY <1>2, <1>3, ConcatProperties
  <2>3. Regroups(b, y, chunk) /\ Regroups(b \o y, chunk, left)
    BY <1>2, <1>3, <2>2, Regrouped
  <2>4. (b \o (y \o chunk)) \o left = (b \o y) \o o
    BY <1>3, <2>3, Zenon DEF Regroups
  <2> QED BY <1>5, <2>1, <2>4 DEF Accounted, y
<1> QED BY <1>6, <1>7 DEF Holds, chunk, left, r

\* publish() of another mountpoint's chunk.
LEMMA OtherEnqueues ==
    ASSUME NEW m, NEW q \in Seq(Chunks), NEW s, NEW o, NEW b, NEW x, NEW g,
           Holds(m, q, s, o, b, x, g), NEW a \in Stations, a # m, NEW c \in Seq(Bytes)
    PROVE  Holds(m, Append(q, <<a, c>>), s, o, b, x, g)
<1>1. Typed(m, q, s, o, b, x, g)
  BY DEF Holds
<1>2. Of(q, m) \in Seq(Wire(Len(s)))
  BY <1>1, TypedFacts
<1>3. Fits(Append(q, <<a, c>>), m, Len(s)) /\ Of(Append(q, <<a, c>>), m) = Of(q, m) \o <<>>
  BY <1>1, OfAppend DEF Typed
<1>4. Of(Append(q, <<a, c>>), m) = Of(q, m)
  BY <1>2, <1>3, ConcatEmptySeq
<1> QED BY <1>1, <1>3, <1>4 DEF Holds, Typed, Accounted

\* get() of another mountpoint's chunk.
LEMMA OtherDequeues ==
    ASSUME NEW m, NEW q \in Seq(Chunks), NEW s, NEW o, NEW b, NEW x, NEW g,
           Holds(m, q, s, o, b, x, g), q # <<>>, Head(q)[1] # m
    PROVE  Holds(m, Tail(q), s, o, b, x, g)
<1>1. Typed(m, q, s, o, b, x, g)
  BY DEF Holds
<1>2. Tail(q) \in Seq(Chunks) /\ Fits(Tail(q), m, Len(s)) /\ Of(q, m) = <<>> \o Of(Tail(q), m)
  BY <1>1, OfTail DEF Typed
<1>3. Of(Tail(q), m) \in Seq(Wire(Len(s)))
  BY <1>2, OfType
<1>4. Of(q, m) = Of(Tail(q), m)
  BY <1>2, <1>3, ConcatEmptySeq
<1> QED BY <1>1, <1>2, <1>4 DEF Holds, Typed, Accounted

\* _process_quality of a chunk; r is the queue and o what is unsent afterwards.
LEMMA StationProcesses ==
    ASSUME NEW m \in Stations, NEW r \in Seq(Chunks), NEW s, NEW o, NEW b, NEW x, NEW g,
           NEW chunk \in Seq(Wire(Len(s))), Typed(m, r, s, o, b, x, g),
           g = 0 => /\ Len(x.parsed) \in 0..Len(s)
                    /\ x.parsed = [i \in 1..Len(x.parsed) |-> i] /\ x.errors = 0
                    /\ (b \o chunk) \o (Of(r, m) \o o) = Coded(s, Len(x.parsed))
    PROVE  LET split == Split(b \o chunk) IN
           /\ Len(split.rest) < MaxFrame
           /\ ObserveFrames(x, split.frames, s) \in Sound(Len(s))
           /\ Holds(m, r, s, o, split.rest, ObserveFrames(x, split.frames, s), g)
<1> DEFINE n == Len(s)
           W == Wire(n)
           data == b \o chunk
           cut == Split(data).frames
           rest == Split(data).rest
           z == ObserveFrames(x, cut, s)
           y == Of(r, m)
           more == y \o o
<1>1. /\ s \in Seq(FrameTypes) /\ n \in Nat /\ b \in Seq(W) /\ o \in Seq(W) /\ y \in Seq(W)
      /\ x \in Sound(n)
  BY TypedFacts DEF Typed
<1>2. data \in Seq(W) /\ more \in Seq(W)
  BY <1>1, ConcatProperties
<1> HIDE DEF W, data, y, more
<1>3. cut \in Seq(Seq(W) \ {<<>>}) /\ rest \in Seq(W) /\ Len(rest) < MaxFrame
  BY <1>2, SplitFacts DEF W
<1> HIDE DEF cut, rest
<1>4. z \in Sound(n)
  <2>1. PICK f \in [0..Len(cut) -> Sound(n)] : z = f[Len(cut)]
    BY <1>1, <1>3, ObserveRun DEF W
  <2>2. Len(cut) \in 0..Len(cut)
    BY <1>3, LenProperties
  <2> QED BY <2>1, <2>2
<1> HIDE DEF z
<1>5. Typed(m, r, s, o, rest, z, g)
  BY <1>3, <1>4 DEF Typed, W, n
<1>6. ASSUME g = 0 PROVE Accounted(m, r, s, o, rest, z)
  <2> DEFINE k == Len(x.parsed)
             j == Len(cut)
  <2>1. k \in 0..n /\ AllParsed(x, k) /\ data \o more = Coded(s, k)
    BY <1>6 DEF n, data, more, y, AllParsed
  <2>2. k \in Nat
    BY <1>1, <2>1
  <2> HIDE DEF k
  <2>3. Whole(s, k, cut) /\ rest \o more = Coded(s, k + j)
    BY <1>1, <1>2, <2>1, SplitStream DEF W, n, cut, rest
  <2>4. AllParsed(z, k + j)
    BY <1>1, <1>3, <2>1, <2>2, <2>3, ObserveStream DEF W, n, z
  <2>5. Regroups(rest, y, o)
    BY <1>1, <1>3, Regrouped
  <2>6. (rest \o y) \o o = Coded(s, k + j)
    BY <2>3, <2>5 DEF Regroups, more
  <2> QED BY <2>3, <2>4, <2>6 DEF Accounted, AllParsed, Whole, y, n
<1> QED BY <1>3, <1>4, <1>5, <1>6 DEF Holds, cut, rest, z, data, n

\* publish() without a worker.
LEMMA StationInline ==
    ASSUME NEW m \in Stations, NEW s, NEW o, NEW b, NEW x, NEW g,
           Holds(m, <<>>, s, o, b, x, g), NEW n \in 1..Len(o)
    PROVE  LET split == Split(b \o SubSeq(o, 1, n)) IN
           /\ Len(split.rest) < MaxFrame
           /\ ObserveFrames(x, split.frames, s) \in Sound(Len(s))
           /\ Holds(m, <<>>, s, SubSeq(o, n + 1, Len(o)), split.rest, ObserveFrames(x, split.frames, s), g)
<1> DEFINE W == Wire(Len(s))
           chunk == SubSeq(o, 1, n)
           left == SubSeq(o, n + 1, Len(o))
           k == Len(x.parsed)
<1>0. <<>> \in Seq(Chunks) /\ Len(<<>>) = 0
  BY EmptySeq
<1>1. Typed(m, <<>>, s, o, b, x, g)
  BY DEF Holds
<1>2. o \in Seq(W) /\ b \in Seq(W)
  BY <1>1 DEF Typed
<1>3. chunk \in Seq(W) /\ left \in Seq(W) /\ chunk \o left = o
  BY <1>2, CutFacts
<1>4. Of(<<>>, m) = <<>>
  BY OfEmpty
<1> HIDE DEF W, chunk, left, k
<1>5. Typed(m, <<>>, s, left, b, x, g)
  BY <1>1, <1>3 DEF Typed, W
<1>6. ASSUME g = 0
      PROVE  /\ Len(x.parsed) \in 0..Len(s)
             /\ x.parsed = [i \in 1..Len(x.parsed) |-> i] /\ x.errors = 0
             /\ (b \o chunk) \o (Of(<<>>, m) \o left) = Coded(s, Len(x.parsed))
  <2>1. Accounted(m, <<>>, s, o, b, x)
    BY <1>6 DEF Holds
  <2>2. (b \o Of(<<>>, m)) \o o = Coded(s, Len(x.parsed))
    BY <2>1 DEF Accounted
  <2>3. b \o <<>> = b /\ <<>> \o left = left
    BY <1>2, <1>3, ConcatEmptySeq
  <2>4. Regroups(b, chunk, left)
    BY <1>2, <1>3, Regrouped
  <2>5. (b \o chunk) \o (Of(<<>>, m) \o left) = Coded(s, Len(x.parsed))
    BY <1>3, <1>4, <2>2, <2>3, <2>4, Zenon DEF Regroups
  <2> QED BY <2>1, <2>5 DEF Accounted
<1>7. chunk \in Seq(Wire(Len(s)))
  BY <1>3 DEF W
<1>8. LET split == Split(b \o chunk) IN
        /\ Len(split.rest) < MaxFrame
        /\ ObserveFrames(x, split.frames, s) \in Sound(Len(s))
        /\ Holds(m, <<>>, s, left, split.rest, ObserveFrames(x, split.frames, s), g)
  BY <1>0, <1>5, <1>6, <1>7, StationProcesses
<1> QED BY <1>8 DEF chunk, left

\* One turn of _quality_loop.
LEMMA StationDequeues ==
    ASSUME NEW m \in Stations, NEW q \in Seq(Chunks), NEW s, NEW o, NEW b, NEW x, NEW g,
           Holds(m, q, s, o, b, x, g), q # <<>>, Head(q)[1] = m
    PROVE  LET split == Split(b \o Head(q)[2]) IN
           /\ Len(split.rest) < MaxFrame
           /\ ObserveFrames(x, split.frames, s) \in Sound(Len(s))
           /\ Holds(m, Tail(q), s, o, split.rest, ObserveFrames(x, split.frames, s), g)
<1> DEFINE W == Wire(Len(s))
           chunk == Head(q)[2]
           r == Tail(q)
           y == Of(r, m)
<1>1. Typed(m, q, s, o, b, x, g)
  BY DEF Holds
<1>2. o \in Seq(W) /\ b \in Seq(W)
  BY <1>1 DEF Typed
<1>3. r \in Seq(Chunks) /\ Fits(r, m, Len(s)) /\ chunk \in Seq(W) /\ Of(q, m) = chunk \o y
  BY <1>1, OfTail DEF Typed
<1> HIDE DEF chunk, r
<1>4. y \in Seq(W)
  BY <1>3, OfType
<1>5. Typed(m, r, s, o, b, x, g)
  BY <1>1, <1>3 DEF Typed
<1> HIDE DEF y
<1>6. ASSUME g = 0
      PROVE  /\ Len(x.parsed) \in 0..Len(s)
             /\ x.parsed = [i \in 1..Len(x.parsed) |-> i] /\ x.errors = 0
             /\ (b \o chunk) \o (Of(r, m) \o o) = Coded(s, Len(x.parsed))
  <2>1. Accounted(m, q, s, o, b, x)
    BY <1>6 DEF Holds
  <2>2. (b \o Of(q, m)) \o o = Coded(s, Len(x.parsed))
    BY <2>1 DEF Accounted
  <2> HIDE DEF W
  <2>3. b \o chunk \in Seq(W)
    BY <1>2, <1>3, ConcatProperties
  <2>4. Regroups(b, chunk, y) /\ Regroups(b \o chunk, y, o)
    BY <1>2, <1>3, <1>4, <2>3, Regrouped
  <2>5. (b \o chunk) \o (y \o o) = (b \o (chunk \o y)) \o o
    BY <2>4, Zenon DEF Regroups
  <2> QED BY <1>3, <2>1, <2>2, <2>5 DEF Accounted, y
<1>7. chunk \in Seq(Wire(Len(s)))
  BY <1>3
<1>8. LET split == Split(b \o chunk) IN
        /\ Len(split.rest) < MaxFrame
        /\ ObserveFrames(x, split.frames, s) \in Sound(Len(s))
        /\ Holds(m, r, s, o, split.rest, ObserveFrames(x, split.frames, s), g)
  BY <1>3, <1>5, <1>6, <1>7, StationProcesses
<1> QED BY <1>8 DEF chunk, r

\* x1 is x, perhaps without its window.
Reduced(x, x1) == x1 = x \/ x1 = [x EXCEPT !.cnr = <<>>]

\* A gap: the bytes o1 are left, the buffer and the window may be emptied.
LEMMA StationLoses ==
    ASSUME NEW m, NEW q \in Seq(Chunks), NEW s, NEW o, NEW b, NEW x, NEW g,
           Holds(m, q, s, o, b, x, g), NEW o1 \in Seq(Wire(Len(s))), NEW b1 \in {b, <<>>},
           NEW x1, Reduced(x, x1)
    PROVE  Holds(m, q, s, o1, b1, x1, g + 1)
<1>1. Typed(m, q, s, o, b, x, g)
  BY DEF Holds
<1>2. b1 \in Seq(Wire(Len(s))) /\ Len(b1) < MaxFrame
  <2>1. CASE b1 = b
    BY <1>1, <2>1 DEF Typed
  <2>2. CASE b1 = <<>>
    BY <2>2, EmptySeq, Constants
  <2> QED BY <2>1, <2>2
<1>3. x1 \in Sound(Len(s))
  <2>1. x \in Sound(Len(s)) /\ x \in Snapshots(Len(s)) /\ Anchored(x)
    BY <1>1 DEF Typed, Sound
  <2>2. CASE x1 = [x EXCEPT !.cnr = <<>>]
    <3>1. <<>> \in Seq(Nat) /\ Len(<<>>) = 0
      BY EmptySeq
    <3>2. x1 \in Snapshots(Len(s))
      BY <2>1, <2>2, <3>1 DEF Snapshots
    <3>3. x1.arp = x.arp /\ x1.changes = x.changes /\ x1.track = x.track /\ x1.cnr = <<>>
      BY <2>1, <2>2, SnapshotFields
    <3>4. Anchored(x1)
      BY <2>1, <3>3 DEF Anchored
    <3>5. Len(x1.cnr) <= WINDOW
      BY <3>1, <3>3, Constants
    <3> QED BY <3>2, <3>4, <3>5 DEF Sound
  <2> QED BY <2>1, <2>2 DEF Reduced
<1>4. g + 1 \in Nat /\ g + 1 # 0
  BY <1>1 DEF Typed
<1> QED BY <1>1, <1>2, <1>3, <1>4 DEF Holds, Typed

\* stop() drops the queue.
LEMMA StationDrops ==
    ASSUME NEW m, NEW q \in Seq(Chunks), NEW s, NEW o, NEW b, NEW x, NEW g,
           Holds(m, q, s, o, b, x, g)
    PROVE  Holds(m, <<>>, s, o, b, x, g + Cardinality({i \in DOMAIN q : q[i][1] = m}))
<1> DEFINE mine == {i \in DOMAIN q : q[i][1] = m}
           h == g + Cardinality(mine)
<1>0. <<>> \in Seq(Chunks) /\ Len(<<>>) = 0
  BY EmptySeq
<1>1. Typed(m, q, s, o, b, x, g)
  BY DEF Holds
<1>2. IsFiniteSet(mine) /\ Cardinality(mine) \in Nat /\ (Cardinality(mine) = 0 <=> mine = {})
  <2>0. Len(q) \in Int /\ mine \subseteq 1..Len(q)
    BY ChunkFacts
  <2>1. IsFiniteSet(1..Len(q)) /\ mine \subseteq 1..Len(q)
    BY <2>0, FS_Interval
  <2>2. IsFiniteSet(mine)
    BY <2>1, FS_Subset
  <2> HIDE DEF mine
  <2> QED BY <2>2, FS_CardinalityType, FS_EmptySet
<1>3. g \in Nat /\ h \in Nat /\ (h = 0 => g = 0 /\ mine = {})
  <2> HIDE DEF mine
  <2>1. g \in Nat
    BY <1>1 DEF Typed
  <2> QED BY <1>2, <2>1
<1>4. Typed(m, <<>>, s, o, b, x, h)
  BY <1>0, <1>1, <1>3 DEF Typed, Fits
<1>5. ASSUME h = 0 PROVE Accounted(m, <<>>, s, o, b, x)
  <2>1. Accounted(m, q, s, o, b, x)
    BY <1>3, <1>5 DEF Holds
  <2>2. \A i \in 1..Len(q) : q[i][1] # m
    BY <1>3, <1>5, ChunkFacts
  <2>3. Of(q, m) = <<>> /\ Of(<<>>, m) = <<>>
    BY <2>2, OfNothing, OfEmpty
  <2> QED BY <2>1, <2>3 DEF Accounted
<1> HIDE DEF h
<1>6. Holds(m, <<>>, s, o, b, x, h)
  BY <1>4, <1>5 DEF Holds
<1> QED BY <1>6 DEF h
-----------------------------------------------------------------------------
(* The pipeline.                                                            *)

\* What the metrics and the window say of m, as ProcessQuality reads it.
Snapshot(m) ==
    [arp |-> arp[m], changes |-> changes[m], errors |-> errors[m],
     parsed |-> parsed[m], track |-> track[m], cnr |-> cnr[m]]

IsMap(f) == f = [m \in Stations |-> f[m]]
MetricMaps == /\ IsMap(arp) /\ IsMap(changes) /\ IsMap(errors) /\ IsMap(parsed)
              /\ IsMap(track) /\ IsMap(cnr) /\ IsMap(buffer)
Maps == MetricMaps /\ IsMap(sent) /\ IsMap(out) /\ IsMap(gaps)

\* The worker's queue holds something only while there is a worker.
Pipe ==
    /\ worker \in {"before", "loop", "stopping", "after"}
    /\ queue \in Seq(Chunks) /\ Len(queue) <= QueueSize
    /\ worker \in {"before", "after"} => queue = <<>>
    /\ session \in [Stations -> BOOLEAN]
    /\ registry \in [Stations -> {"absent", "open", "closed"}]

StationInv(m) == Holds(m, queue, sent[m], out[m], buffer[m], Snapshot(m), gaps[m])

\* The inductive invariant.
QualityInv == Pipe /\ Maps /\ \A m \in Stations : StationInv(m)

\* ProcessQuality replaces m's buffer and m's snapshot, and those of no other.
LEMMA ProcessEffect ==
    ASSUME MetricMaps, NEW m \in Stations, NEW chunk, ProcessQuality(m, chunk),
           NEW n, Len(Split(buffer[m] \o chunk).rest) < MaxFrame,
           ObserveFrames(Snapshot(m), Split(buffer[m] \o chunk).frames, sent[m]) \in Sound(n)
    PROVE  /\ MetricMaps'
           /\ buffer'[m] = Split(buffer[m] \o chunk).rest
           /\ Snapshot(m)' = ObserveFrames(Snapshot(m), Split(buffer[m] \o chunk).frames, sent[m])
           /\ \A k \in Stations \ {m} : buffer'[k] = buffer[k] /\ Snapshot(k)' = Snapshot(k)
<1> DEFINE split == Split(buffer[m] \o chunk)
           new == ObserveFrames(Snapshot(m), split.frames, sent[m])
<1>1. new = [arp |-> new.arp, changes |-> new.changes, errors |-> new.errors,
             parsed |-> new.parsed, track |-> new.track, cnr |-> new.cnr]
  BY SnapshotFields DEF Sound
<1>2. /\ buffer' = [buffer EXCEPT ![m] = split.rest]
      /\ arp' = [arp EXCEPT ![m] = new.arp]
      /\ changes' = [changes EXCEPT ![m] = new.changes]
      /\ errors' = [errors EXCEPT ![m] = new.errors]
      /\ parsed' = [parsed EXCEPT ![m] = new.parsed]
      /\ track' = [track EXCEPT ![m] = new.track]
      /\ cnr' = [cnr EXCEPT ![m] = new.cnr]
  BY DEF ProcessQuality, Reassembled, Snapshot
<1> HIDE DEF split, new
<1>3. MetricMaps'
  BY <1>2 DEF MetricMaps, IsMap
<1>4. /\ buffer'[m] = split.rest /\ arp'[m] = new.arp /\ changes'[m] = new.changes
      /\ errors'[m] = new.errors /\ parsed'[m] = new.parsed /\ track'[m] = new.track
      /\ cnr'[m] = new.cnr
  BY <1>2 DEF MetricMaps, IsMap
<1>5. \A k \in Stations \ {m} :
        /\ buffer'[k] = buffer[k] /\ arp'[k] = arp[k] /\ changes'[k] = changes[k]
        /\ errors'[k] = errors[k] /\ parsed'[k] = parsed[k] /\ track'[k] = track[k]
        /\ cnr'[k] = cnr[k]
  BY <1>2 DEF MetricMaps, IsMap
<1>6. Snapshot(m)' = new
  BY <1>1, <1>4 DEF Snapshot
<1>7. \A k \in Stations \ {m} : Snapshot(k)' = Snapshot(k)
  BY <1>5 DEF Snapshot
<1> QED BY <1>3, <1>4, <1>5, <1>6, <1>7 DEF split, new

LEMMA QualityInitInv == QualityInit => QualityInv
<1> SUFFICES ASSUME QualityInit PROVE QualityInv
  OBVIOUS
<1>1. <<>> \in Seq(Chunks) /\ Len(<<>>) = 0
  BY EmptySeq
<1>2. Pipe
  BY <1>1, Constants DEF Pipe, QualityInit
<1>3. Maps
  BY DEF Maps, MetricMaps, IsMap, QualityInit
<1>4. ASSUME NEW m \in Stations PROVE StationInv(m)
  <2> DEFINE e == <<>>
             x == [arp |-> none, changes |-> 0, errors |-> 0, parsed |-> e,
                   track |-> [anchor |-> none, last |-> none], cnr |-> e]
  <2>1. Snapshot(m) = x /\ queue = e /\ sent[m] = e /\ out[m] = e /\ buffer[m] = e /\ gaps[m] = 0
    BY DEF Snapshot, QualityInit
  <2>2. /\ e \in Seq(Chunks) /\ e \in Seq(Nat) /\ e \in Seq(1..0) /\ e \in Seq(Wire(0))
        /\ e \in Seq(FrameTypes) /\ Len(e) = 0 /\ e \o e = e /\ e = [i \in 1..0 |-> i]
    BY EmptySeq, ConcatEmptySeq
  <2>3. Of(e, m) = e /\ Coded(e, 0) = e
    <3>1. Coded(e, Len(e)) = e
      BY <2>2, CodedNone
    <3> QED BY <2>2, <3>1, OfEmpty
  <2> HIDE DEF e
  <2>4. x \in Sound(0)
    <3>1. x \in Snapshots(0)
      BY <2>2 DEF Snapshots, Positions
    <3>2. Anchored(x)
      BY DEF Anchored
    <3>3. Len(x.cnr) <= WINDOW
      BY <2>2, Constants
    <3> QED BY <3>1, <3>2, <3>3 DEF Sound
  <2>5. x.parsed = e /\ x.errors = 0
    OBVIOUS
  <2> HIDE DEF x
  <2>6. Typed(m, e, e, e, e, x, 0)
    BY <2>2, <2>4, Constants DEF Typed, Fits
  <2>7. Accounted(m, e, e, e, e, x)
    <3>1. Len(x.parsed) = 0
      BY <2>2, <2>5
    <3>2. x.parsed = [i \in 1..Len(x.parsed) |-> i]
      BY <2>2, <2>5, <3>1
    <3> QED BY <2>2, <2>3, <2>5, <3>1, <3>2 DEF Accounted
  <2> QED BY <2>1, <2>6, <2>7 DEF StationInv, Holds
<1> QED BY <1>2, <1>3, <1>4 DEF QualityInv

\* A station of which nothing changes.
LEMMA StationSame ==
    ASSUME NEW m, StationInv(m), UNCHANGED <<queue, sent[m], out[m], buffer[m], Snapshot(m), gaps[m]>>
    PROVE  StationInv(m)'
  BY DEF StationInv

LEMMA SnapshotSame ==
    ASSUME UNCHANGED <<cnr, metricVars>>
    PROVE  \A k \in Stations : Snapshot(k)' = Snapshot(k)
  BY DEF Snapshot, metricVars

LEMMA KeepConnect ==
    ASSUME QualityInv, NEW m \in Stations, Connect(m) PROVE QualityInv'
<1>1. Pipe'
  BY DEF QualityInv, Pipe, Connect, pipeVars
<1>2. UNCHANGED <<queue, sent, out, buffer, cnr, metricVars, gaps>>
  BY DEF Connect, pipeVars
<1>3. Maps'
  BY <1>2 DEF QualityInv, Maps, MetricMaps, IsMap, metricVars
<1>4. \A k \in Stations : StationInv(k)'
  BY <1>2, StationSame, SnapshotSame DEF QualityInv
<1> QED BY <1>1, <1>3, <1>4 DEF QualityInv

LEMMA KeepProduce ==
    ASSUME QualityInv, NEW m \in Stations, NEW f \in FrameTypes, Produce(m, f) PROVE QualityInv'
<1> DEFINE enc == Encode(Len(sent[m]) + 1, f)
<1>1. /\ sent' = [sent EXCEPT ![m] = Append(sent[m], f)] /\ out' = [out EXCEPT ![m] = out[m] \o enc]
      /\ Len(sent[m]) < MaxFrames
      /\ UNCHANGED <<pipeVars, session, registry, buffer, cnr, metricVars, gaps>>
  BY DEF Produce
<1> HIDE DEF enc
<1>2. Pipe'
  BY <1>1 DEF QualityInv, Pipe, pipeVars
<1>3. Maps'
  BY <1>1 DEF QualityInv, Maps, MetricMaps, IsMap, metricVars
<1>4. ASSUME NEW k \in Stations PROVE StationInv(k)'
  <2>1. UNCHANGED <<queue, buffer[k], Snapshot(k), gaps[k]>> /\ StationInv(k) /\ queue \in Seq(Chunks)
    BY <1>1, SnapshotSame DEF pipeVars, QualityInv, Pipe
  <2>2. CASE k # m
    <3>1. UNCHANGED <<sent[k], out[k]>>
      BY <1>1, <2>2 DEF QualityInv, Maps, IsMap
    <3> QED BY <2>1, <3>1, StationSame
  <2>3. CASE k = m
    <3>1. sent'[k] = Append(sent[k], f) /\ out'[k] = out[k] \o enc
      BY <1>1, <2>3 DEF QualityInv, Maps, IsMap
    <3>2. Holds(k, queue, Append(sent[k], f), out[k] \o enc, buffer[k], Snapshot(k), gaps[k])
      BY <1>1, <2>1, <2>3, StationProduces DEF StationInv, enc
    <3> QED BY <2>1, <3>1, <3>2 DEF StationInv
  <2> QED BY <2>2, <2>3
<1> QED BY <1>2, <1>3, <1>4 DEF QualityInv

\* A gap of m that leaves the queue as it is.
LEMMA KeepLoss ==
    ASSUME QualityInv, NEW m \in Stations, Lose(m), UNCHANGED <<queue, sent, metricVars>>,
           NEW o1 \in {out[m], <<>>} \cup {SubSeq(out[m], n + 1, Len(out[m])) : n \in 1..Len(out[m])},
           NEW b1 \in {buffer[m], <<>>}, NEW c1 \in {cnr[m], <<>>},
           out' = [out EXCEPT ![m] = o1], buffer' = [buffer EXCEPT ![m] = b1],
           cnr' = [cnr EXCEPT ![m] = c1]
    PROVE  Maps' /\ \A k \in Stations : StationInv(k)'
<1>1. gaps' = [gaps EXCEPT ![m] = gaps[m] + 1]
  BY DEF Lose
<1>2. Maps'
  BY <1>1 DEF QualityInv, Maps, MetricMaps, IsMap, metricVars
<1>3. ASSUME NEW k \in Stations PROVE StationInv(k)'
  <2>1. StationInv(k) /\ queue \in Seq(Chunks) /\ queue' = queue /\ sent'[k] = sent[k]
    BY DEF QualityInv, Pipe
  <2>2. CASE k # m
    <3>1. UNCHANGED <<out[k], buffer[k], gaps[k], cnr[k]>>
      BY <1>1, <2>2 DEF QualityInv, Maps, MetricMaps, IsMap
    <3>2. Snapshot(k)' = Snapshot(k)
      BY <3>1 DEF Snapshot, metricVars
    <3> QED BY <2>1, <3>1, <3>2, StationSame
  <2>3. CASE k = m
    <3>1. out'[k] = o1 /\ buffer'[k] = b1 /\ gaps'[k] = gaps[k] + 1 /\ cnr'[k] = c1
      BY <1>1, <2>3 DEF QualityInv, Maps, MetricMaps, IsMap
    <3>2. Snapshot(k)' = [Snapshot(k) EXCEPT !.cnr = c1]
      BY <3>1 DEF Snapshot, metricVars
    <3>3. Reduced(Snapshot(k), Snapshot(k)')
      <4>1. CASE c1 = cnr[k]
        BY <3>2, <4>1 DEF Snapshot, Reduced
      <4>2. CASE c1 = <<>>
        BY <3>2, <4>2 DEF Reduced
      <4> QED BY <2>3, <4>1, <4>2
    <3>4. o1 \in Seq(Wire(Len(sent[k])))
      <4>1. out[k] \in Seq(Wire(Len(sent[k])))
        BY <2>1 DEF StationInv, Holds, Typed
      <4>2. \A n \in 1..Len(out[k]) : SubSeq(out[k], n + 1, Len(out[k])) \in Seq(Wire(Len(sent[k])))
        BY <4>1, CutFacts
      <4>3. <<>> \in Seq(Wire(Len(sent[k])))
        BY EmptySeq
      <4> QED BY <2>3, <4>1, <4>2, <4>3
    <3> DEFINE x1 == Snapshot(k)'
    <3> HIDE DEF x1
    <3>5. Holds(k, queue, sent[k], o1, b1, x1, gaps[k] + 1)
      <4> DEFINE x == Snapshot(k)
      <4>1. b1 \in {buffer[k], <<>>} /\ Reduced(x, x1)
        BY <2>3, <3>3 DEF x1
      <4>2. Holds(k, queue, sent[k], out[k], buffer[k], x, gaps[k])
        BY <2>1 DEF StationInv
      <4> HIDE DEF x
      <4> QED BY <2>1, <3>4, <4>1, <4>2, StationLoses
    <3> QED BY <2>1, <3>1, <3>5 DEF StationInv, x1
  <2> QED BY <2>2, <2>3
<1> QED BY <1>2, <1>3

\* f EXCEPT at m what it has there already.
LEMMA SameMap == ASSUME NEW f, IsMap(f), NEW m \in Stations PROVE [f EXCEPT ![m] = f[m]] = f
  BY DEF IsMap

LEMMA KeepClose ==
    ASSUME QualityInv, NEW m \in Stations, CloseSession(m) PROVE QualityInv'
<1>1. /\ session' = [session EXCEPT ![m] = FALSE] /\ out' = [out EXCEPT ![m] = <<>>]
      /\ Lose(m) /\ UNCHANGED <<pipeVars, sent, metricVars>>
      /\ \/ /\ registry' = [registry EXCEPT ![m] = "closed"]
            /\ buffer' = [buffer EXCEPT ![m] = <<>>] /\ cnr' = [cnr EXCEPT ![m] = <<>>]
         \/ UNCHANGED <<registry, buffer, cnr>>
  BY DEF CloseSession
<1>2. Pipe'
  BY <1>1 DEF QualityInv, Pipe, pipeVars
<1>3. UNCHANGED <<queue, sent, metricVars>>
  BY <1>1 DEF pipeVars
<1>4. Maps' /\ \A k \in Stations : StationInv(k)'
  <2>1. CASE buffer' = [buffer EXCEPT ![m] = <<>>] /\ cnr' = [cnr EXCEPT ![m] = <<>>]
    BY <1>1, <1>3, <2>1, KeepLoss
  <2>2. CASE UNCHANGED <<buffer, cnr>>
    <3>1. buffer' = [buffer EXCEPT ![m] = buffer[m]] /\ cnr' = [cnr EXCEPT ![m] = cnr[m]]
      BY <2>2, SameMap DEF QualityInv, Maps, MetricMaps
    <3> QED BY <1>1, <1>3, <3>1, KeepLoss
  <2> QED BY <1>1, <2>1, <2>2
<1> QED BY <1>2, <1>4 DEF QualityInv

LEMMA KeepReap ==
    ASSUME QualityInv, NEW m \in Stations, Reap(m) PROVE QualityInv'
<1>1. /\ registry' = [registry EXCEPT ![m] = "absent"]
      /\ buffer' = [buffer EXCEPT ![m] = <<>>] /\ cnr' = [cnr EXCEPT ![m] = <<>>]
      /\ Lose(m) /\ UNCHANGED <<pipeVars, session, sent, out, metricVars>>
  BY DEF Reap
<1>2. Pipe'
  BY <1>1 DEF QualityInv, Pipe, pipeVars
<1>3. UNCHANGED <<queue, sent, metricVars>>
  BY <1>1 DEF pipeVars
<1>4. out' = [out EXCEPT ![m] = out[m]]
  BY <1>1, SameMap DEF QualityInv, Maps
<1>5. Maps' /\ \A k \in Stations : StationInv(k)'
  BY <1>1, <1>3, <1>4, KeepLoss
<1> QED BY <1>2, <1>5 DEF QualityInv

LEMMA KeepPublish ==
    ASSUME QualityInv, NEW m \in Stations, NEW n \in 1..Len(out[m]), Publish(m, n)
    PROVE  QualityInv'
<1> DEFINE chunk == SubSeq(out[m], 1, n)
           left == SubSeq(out[m], n + 1, Len(out[m]))
<1>1. out' = [out EXCEPT ![m] = left] /\ UNCHANGED <<worker, session, registry, sent>>
  BY DEF Publish
<1>2. /\ out'[m] = left /\ \A k \in Stations \ {m} : out'[k] = out[k]
      /\ IsMap(out)' /\ IsMap(sent)'
  BY <1>1 DEF QualityInv, Maps, IsMap
<1>3. Pipe /\ queue \in Seq(Chunks) /\ Maps /\ \A k \in Stations : StationInv(k)
  BY DEF QualityInv, Pipe
<1>4. out[m] \in Seq(Bytes) /\ chunk \in Seq(Bytes)
  <2>1. Typed(m, queue, sent[m], out[m], buffer[m], Snapshot(m), gaps[m])
    BY <1>3 DEF StationInv, Holds
  <2>2. out[m] \in Seq(Wire(Len(sent[m]))) /\ Wire(Len(sent[m])) \subseteq Bytes
    BY <1>3, <2>1, TypedFacts DEF Typed
  <2>3. out[m] \in Seq(Bytes)
    BY <2>2, SeqMonotonic
  <2> QED BY <2>3, CutFacts
<1>5. CASE Lose(m) /\ UNCHANGED <<queue, buffer, cnr, metricVars>>
  <2>1. buffer' = [buffer EXCEPT ![m] = buffer[m]] /\ cnr' = [cnr EXCEPT ![m] = cnr[m]]
    BY <1>3, <1>5, SameMap DEF Maps, MetricMaps
  <2>2. left \in {out[m], <<>>} \cup {SubSeq(out[m], j + 1, Len(out[m])) : j \in 1..Len(out[m])}
    OBVIOUS
  <2> HIDE DEF left
  <2>3. Maps' /\ \A k \in Stations : StationInv(k)'
    BY <1>1, <1>5, <2>1, <2>2, KeepLoss
  <2>4. Pipe'
    BY <1>1, <1>3, <1>5 DEF Pipe
  <2> QED BY <2>3, <2>4 DEF QualityInv
<1>6. CASE worker \in {"before", "after"} /\ ProcessQuality(m, chunk) /\ UNCHANGED <<queue, gaps>>
  <2> DEFINE e == <<>>
             x == Snapshot(m)
             split == Split(buffer[m] \o chunk)
             new == ObserveFrames(x, split.frames, sent[m])
  <2>1. queue = e
    BY <1>3, <1>6 DEF Pipe
  <2>2. Holds(m, e, sent[m], out[m], buffer[m], x, gaps[m])
    BY <1>3, <2>1 DEF StationInv
  <2>3. /\ Len(split.rest) < MaxFrame /\ new \in Sound(Len(sent[m]))
        /\ Holds(m, e, sent[m], left, split.rest, new, gaps[m])
    <3> HIDE DEF x
    <3> QED BY <2>2, StationInline
  <2>4. /\ MetricMaps' /\ buffer'[m] = split.rest /\ Snapshot(m)' = new
        /\ \A k \in Stations \ {m} : buffer'[k] = buffer[k] /\ Snapshot(k)' = Snapshot(k)
    <3>1. MetricMaps
      BY <1>3 DEF Maps
    <3> QED BY <1>6, <2>3, <3>1, ProcessEffect
  <2> HIDE DEF x, split, new, chunk, left
  <2>5. StationInv(m)'
    BY <1>1, <1>2, <1>6, <2>1, <2>3, <2>4 DEF StationInv
  <2>6. ASSUME NEW k \in Stations \ {m} PROVE StationInv(k)'
    <3>1. UNCHANGED <<queue, sent[k], out[k], buffer[k], Snapshot(k), gaps[k]>>
      BY <1>1, <1>2, <1>6, <2>4
    <3> QED BY <1>3, <3>1, StationSame
  <2>7. Pipe'
    BY <1>1, <1>3, <1>6 DEF Pipe
  <2>8. Maps'
    BY <1>2, <1>3, <1>6, <2>4 DEF Maps, IsMap
  <2> QED BY <2>5, <2>6, <2>7, <2>8 DEF QualityInv
<1>7. CASE /\ worker \notin {"before", "after"} /\ Len(queue) < QueueSize
           /\ queue' = Append(queue, <<m, chunk>>) /\ UNCHANGED <<buffer, cnr, metricVars, gaps>>
  <2>1. \A k \in Stations : UNCHANGED <<sent[k], buffer[k], Snapshot(k), gaps[k]>>
    BY <1>1, <1>7, SnapshotSame
  <2>2. queue' \in Seq(Chunks) /\ Len(queue') = Len(queue) + 1
    <3>1. <<m, chunk>> \in Chunks
      BY <1>4 DEF Chunks
    <3> HIDE DEF chunk
    <3> QED BY <1>3, <1>7, <3>1, AppendProperties
  <2>3. Pipe'
    <3>1. Len(queue) \in Nat
      BY <1>3, LenProperties
    <3> QED BY <1>1, <1>3, <1>7, <2>2, <3>1, Constants DEF Pipe
  <2>4. Maps'
    BY <1>2, <1>3, <1>7 DEF Maps, MetricMaps, IsMap, metricVars
  <2>5. StationInv(m)'
    <3> DEFINE x == Snapshot(m)
    <3>1. Holds(m, queue, sent[m], out[m], buffer[m], x, gaps[m])
      BY <1>3 DEF StationInv
    <3> HIDE DEF x
    <3>2. Holds(m, Append(queue, <<m, chunk>>), sent[m], left, buffer[m], x, gaps[m])
      BY <1>3, <3>1, StationEnqueues
    <3> QED BY <1>2, <1>7, <2>1, <3>2 DEF StationInv, x
  <2>6. ASSUME NEW k \in Stations \ {m} PROVE StationInv(k)'
    <3> DEFINE x == Snapshot(k)
    <3>1. Holds(k, queue, sent[k], out[k], buffer[k], x, gaps[k])
      BY <1>3 DEF StationInv
    <3> HIDE DEF x, chunk
    <3>2. Holds(k, Append(queue, <<m, chunk>>), sent[k], out[k], buffer[k], x, gaps[k])
      BY <1>3, <1>4, <3>1, OtherEnqueues
    <3> QED BY <1>2, <1>7, <2>1, <3>2 DEF StationInv, x
  <2> QED BY <2>3, <2>4, <2>5, <2>6 DEF QualityInv
<1>8. \/ Lose(m) /\ UNCHANGED <<queue, buffer, cnr, metricVars>>
      \/ worker \in {"before", "after"} /\ ProcessQuality(m, chunk) /\ UNCHANGED <<queue, gaps>>
      \/ /\ worker \notin {"before", "after"} /\ Len(queue) < QueueSize
         /\ queue' = Append(queue, <<m, chunk>>) /\ UNCHANGED <<buffer, cnr, metricVars, gaps>>
  BY Zenon DEF Publish, EnqueueQuality
<1> QED BY <1>5, <1>6, <1>7, <1>8

LEMMA KeepQualityLoop == ASSUME QualityInv, QualityLoop PROVE QualityInv'
<1>0. PICK m, chunk : m = Head(queue)[1] /\ chunk = Head(queue)[2]
  OBVIOUS
<1>1. /\ worker = "loop" /\ queue # <<>> /\ ProcessQuality(m, chunk) /\ queue' = Tail(queue)
      /\ UNCHANGED <<worker, baseVars, gaps>>
  BY <1>0 DEF QualityLoop
<1>2. UNCHANGED <<session, registry, sent, out>>
  BY <1>1 DEF baseVars
<1>3. Pipe /\ queue \in Seq(Chunks) /\ Maps /\ \A k \in Stations : StationInv(k)
  BY DEF QualityInv, Pipe
<1>4. Tail(queue) \in Seq(Chunks) /\ Len(Tail(queue)) = Len(queue) - 1 /\ Head(queue) \in Chunks
  BY <1>1, <1>3, HeadTailProperties
<1>5. m \in Stations
  BY <1>0, <1>4 DEF Chunks
<1>6. Pipe'
  <2>1. Len(queue) \in Nat
    BY <1>3, LenProperties
  <2> QED BY <1>1, <1>2, <1>3, <1>4, <2>1, Constants DEF Pipe
<1> DEFINE x == Snapshot(m)
           split == Split(buffer[m] \o chunk)
           new == ObserveFrames(x, split.frames, sent[m])
<1>7. Holds(m, queue, sent[m], out[m], buffer[m], x, gaps[m])
  BY <1>3, <1>5 DEF StationInv
<1>8. /\ Len(split.rest) < MaxFrame /\ new \in Sound(Len(sent[m]))
      /\ Holds(m, Tail(queue), sent[m], out[m], split.rest, new, gaps[m])
  <2> HIDE DEF x
  <2> QED BY <1>0, <1>1, <1>3, <1>5, <1>7, StationDequeues
<1>9. /\ MetricMaps' /\ buffer'[m] = split.rest /\ Snapshot(m)' = new
      /\ \A k \in Stations \ {m} : buffer'[k] = buffer[k] /\ Snapshot(k)' = Snapshot(k)
  <2>1. MetricMaps
    BY <1>3 DEF Maps
  <2> QED BY <1>1, <1>5, <1>8, <2>1, ProcessEffect
<1> HIDE DEF x, split, new
<1>10. StationInv(m)'
  BY <1>1, <1>2, <1>8, <1>9 DEF StationInv
<1>11. ASSUME NEW k \in Stations \ {m} PROVE StationInv(k)'
  <2> DEFINE y == Snapshot(k)
  <2>1. Holds(k, queue, sent[k], out[k], buffer[k], y, gaps[k])
    BY <1>3 DEF StationInv
  <2>2. Head(queue)[1] # k
    BY <1>0
  <2> HIDE DEF y
  <2>3. Holds(k, Tail(queue), sent[k], out[k], buffer[k], y, gaps[k])
    BY <1>1, <1>3, <2>1, <2>2, OtherDequeues
  <2> QED BY <1>1, <1>2, <1>9, <2>3 DEF StationInv, y
<1>12. Maps'
  BY <1>1, <1>2, <1>3, <1>9 DEF Maps, IsMap
<1> QED BY <1>5, <1>6, <1>10, <1>11, <1>12 DEF QualityInv

LEMMA KeepStopped == ASSUME QualityInv, Stopped PROVE QualityInv'
<1>1. /\ worker' = "after" /\ queue' = <<>>
      /\ gaps' = [m \in Stations |-> gaps[m] + Cardinality({i \in DOMAIN queue : queue[i][1] = m})]
      /\ UNCHANGED <<session, registry, sent, out, buffer, cnr, metricVars>>
  BY DEF Stopped, baseVars
<1>2. Pipe /\ queue \in Seq(Chunks) /\ Maps /\ \A k \in Stations : StationInv(k)
  BY DEF QualityInv, Pipe
<1>3. Pipe'
  <2>1. <<>> \in Seq(Chunks) /\ Len(<<>>) = 0
    BY EmptySeq
  <2> QED BY <1>1, <1>2, <2>1, Constants DEF Pipe
<1>4. Maps'
  BY <1>1, <1>2 DEF Maps, MetricMaps, IsMap, metricVars
<1>5. ASSUME NEW k \in Stations PROVE StationInv(k)'
  <2> DEFINE x == Snapshot(k)
             h == gaps[k] + Cardinality({i \in DOMAIN queue : queue[i][1] = k})
  <2>1. Holds(k, queue, sent[k], out[k], buffer[k], x, gaps[k])
    BY <1>2 DEF StationInv
  <2>2. gaps'[k] = h /\ Snapshot(k)' = x
    BY <1>1, SnapshotSame
  <2> HIDE DEF x
  <2>3. Holds(k, <<>>, sent[k], out[k], buffer[k], x, h)
    BY <1>2, <2>1, StationDrops
  <2> HIDE DEF h
  <2> QED BY <1>1, <2>2, <2>3 DEF StationInv
<1> QED BY <1>3, <1>4, <1>5 DEF QualityInv

\* Start, StopWorker and steps that change nothing here.
LEMMA KeepWorker ==
    ASSUME QualityInv, UNCHANGED <<queue, baseVars, buffer, cnr, metricVars, gaps>>,
           worker' \in {worker, "loop", "stopping"}
    PROVE  QualityInv'
<1>1. UNCHANGED <<session, registry, sent, out>>
  BY DEF baseVars
<1>2. Pipe'
  BY <1>1 DEF QualityInv, Pipe
<1>3. Maps'
  BY <1>1 DEF QualityInv, Maps, MetricMaps, IsMap, metricVars
<1>4. \A k \in Stations : StationInv(k)'
  BY <1>1, StationSame, SnapshotSame DEF QualityInv
<1> QED BY <1>2, <1>3, <1>4 DEF QualityInv

LEMMA QualityNextInv == QualityInv /\ [QualityNext]_qualityVars => QualityInv'
<1> SUFFICES ASSUME QualityInv, [QualityNext]_qualityVars PROVE QualityInv'
  OBVIOUS
<1>1. ASSUME NEW m \in Stations, Connect(m) PROVE QualityInv'
  BY <1>1, KeepConnect
<1>2. ASSUME NEW m \in Stations, CloseSession(m) PROVE QualityInv'
  BY <1>2, KeepClose
<1>3. ASSUME NEW m \in Stations, Reap(m) PROVE QualityInv'
  BY <1>3, KeepReap
<1>4. ASSUME NEW m \in Stations, NEW f \in FrameTypes, Produce(m, f) PROVE QualityInv'
  BY <1>4, KeepProduce
<1>5. ASSUME NEW m \in Stations, NEW n \in 1..Len(out[m]), Publish(m, n) PROVE QualityInv'
  BY <1>5, KeepPublish
<1>6. CASE Start
  BY <1>6, KeepWorker DEF Start
<1>7. CASE QualityLoop
  BY <1>7, KeepQualityLoop
<1>8. CASE StopWorker
  BY <1>8, KeepWorker DEF StopWorker
<1>9. CASE Stopped
  BY <1>9, KeepStopped
<1>10. CASE UNCHANGED qualityVars
  <2>1. UNCHANGED <<queue, baseVars, buffer, cnr, metricVars, gaps>> /\ worker' = worker
    BY <1>10 DEF qualityVars, pipeVars
  <2> QED BY <2>1, KeepWorker
<1> QED BY <1>1, <1>2, <1>3, <1>4, <1>5, <1>6, <1>7, <1>8, <1>9, <1>10, Zenon DEF QualityNext

LEMMA QualityInductive == QualitySpec => []QualityInv
  BY QualityInitInv, QualityNextInv, PTL DEF QualitySpec

\* The queue, the buffer and the window keep their bounds, for any frames, chunks
\* and number of base stations.
THEOREM QualityTypeCorrect == QualitySpec => []QualityTypeOK
<1>1. ASSUME QualityInv PROVE QualityTypeOK
  <2>1. Pipe /\ queue \in Seq(Chunks)
    BY <1>1 DEF QualityInv, Pipe
  <2>2. \A i \in DOMAIN queue : queue[i][1] \in Stations /\ queue[i][2] \in Seq(Bytes)
    BY <2>1, ChunkFacts
  <2>3. ASSUME NEW m \in Stations
        PROVE  /\ sent[m] \in Seq(FrameTypes) /\ out[m] \in Seq(Bytes)
               /\ buffer[m] \in Seq(Bytes) /\ Len(buffer[m]) < MaxFrame
               /\ Len(cnr[m]) <= WINDOW
               /\ arp[m] = none => changes[m] = 0
               /\ parsed[m] \in Seq(1..MaxFrames)
               /\ errors[m] \in Nat /\ gaps[m] \in Nat
    <3> DEFINE x == Snapshot(m)
               n == Len(sent[m])
    <3>1. Typed(m, queue, sent[m], out[m], buffer[m], x, gaps[m])
      BY <1>1 DEF QualityInv, StationInv, Holds
    <3>2. x.cnr = cnr[m] /\ x.arp = arp[m] /\ x.changes = changes[m] /\ x.parsed = parsed[m] /\ x.errors = errors[m]
      BY DEF Snapshot
    <3> HIDE DEF x
    <3>3. n \in Nat /\ n <= MaxFrames /\ Wire(n) \subseteq Bytes
      BY <2>1, <3>1, TypedFacts DEF Typed
    <3>4. x \in Snapshots(n) /\ Anchored(x) /\ Len(x.cnr) <= WINDOW
      BY <3>1 DEF Typed, Sound
    <3>5. parsed[m] \in Seq(1..MaxFrames)
      <4>1. parsed[m] \in Seq(1..n)
        BY <3>2, <3>4, SnapshotFields
      <4>2. 1..n \subseteq 1..MaxFrames
        BY <3>3, Constants
      <4> HIDE DEF n
      <4> QED BY <4>1, <4>2, SeqMonotonic
    <3>6. out[m] \in Seq(Wire(n)) /\ buffer[m] \in Seq(Wire(n))
      BY <3>1 DEF Typed
    <3>7. out[m] \in Seq(Bytes) /\ buffer[m] \in Seq(Bytes)
      BY <3>3, <3>6, SeqMonotonic
    <3>8. errors[m] \in Nat /\ (arp[m] = none => changes[m] = 0)
      BY <3>2, <3>4, SnapshotFields DEF Anchored
    <3> QED BY <3>1, <3>2, <3>4, <3>5, <3>7, <3>8 DEF Typed
  <2> QED BY <2>1, <2>2, <2>3 DEF QualityTypeOK, Pipe
<1> QED BY <1>1, QualityInductive, PTL

\* "every frame is parsed exactly once regardless of chunk boundaries": however the
\* stream of a base station is cut into chunks, whatever its payloads contain and
\* whatever other base stations send, as long as no chunk of it was lost.
THEOREM FramesParsedOnce == QualitySpec => []ExactlyOnce
<1>1. ASSUME QualityInv PROVE ExactlyOnce
  <2> SUFFICES ASSUME NEW m \in Stations, gaps[m] = 0
               PROVE  /\ parsed[m] = [i \in 1..Len(parsed[m]) |-> i]
                      /\ errors[m] = 0
                      /\ buffer[m] \o Queued(m) \o out[m] = Stream(m, Len(parsed[m]))
    BY DEF ExactlyOnce
  <2> DEFINE x == Snapshot(m)
  <2>1. Accounted(m, queue, sent[m], out[m], buffer[m], x)
    BY <1>1 DEF QualityInv, StationInv, Holds
  <2>2. x.parsed = parsed[m] /\ x.errors = errors[m]
    BY DEF Snapshot
  <2> HIDE DEF x
  <2>3. Queued(m) = Of(queue, m)
    BY DEF Queued, Of, Pieces
  <2>4. Stream(m, Len(parsed[m])) = Coded(sent[m], Len(parsed[m]))
    BY DEF Stream, Coded
  <2> QED BY <2>1, <2>2, <2>3, <2>4 DEF Accounted
<1> QED BY <1>1, QualityInductive, PTL

\* The antenna cannot drift away in small steps without a count, in any number of
\* sessions: the reference of _observe_rtcm_quality stays where it was counted.
THEOREM DriftCounted == QualitySpec => []DriftIsCounted
<1>1. ASSUME QualityInv PROVE DriftIsCounted
  <2> SUFFICES ASSUME NEW m \in Stations, track[m].last # none
               PROVE  /\ track[m].last - track[m].anchor <= Threshold
                      /\ track[m].anchor - track[m].last <= Threshold
    BY DEF DriftIsCounted
  <2> DEFINE x == Snapshot(m)
  <2>1. x \in Sound(Len(sent[m]))
    BY <1>1 DEF QualityInv, StationInv, Holds, Typed
  <2>2. x.track = track[m]
    BY DEF Snapshot
  <2> HIDE DEF x
  <2> QED BY <2>1, <2>2 DEF Sound, Anchored
<1> QED BY <1>1, QualityInductive, PTL
-----------------------------------------------------------------------------
(* The summary of the window.                                               *)

\* At least i of the values do not exceed v.
Enough(values, v, i) == Cardinality({j \in DOMAIN values : values[j] <= v}) >= i

LEMMA GreatestValue ==
    ASSUME NEW values \in Seq(Nat), values # <<>>
    PROVE  \E k \in 1..Len(values) : \A j \in 1..Len(values) : values[j] <= values[k]
<1> DEFINE n == Len(values)
           P(i) == \E k \in 1..i : \A j \in 1..i : values[j] <= values[k]
           T == {i \in Nat : i + 1 <= n => P(i + 1)}
<1>1. n \in Nat /\ n # 0 /\ \A i \in 1..n : values[i] \in Nat
  BY EmptySeq, ElementOfSeq
<1>2. 0 \in T
  <2>1. 1 <= n /\ values[1] \in Nat
    BY <1>1
  <2>2. P(1)
    BY <2>1
  <2> QED BY <2>2
<1>3. ASSUME NEW i \in Nat, i \in T PROVE i + 1 \in T
  <2> SUFFICES ASSUME (i + 1) + 1 <= n PROVE P((i + 1) + 1)
    OBVIOUS
  <2>1. P(i + 1)
    BY <1>1, <1>3
  <2>2. PICK k \in 1..(i + 1) : \A j \in 1..(i + 1) : values[j] <= values[k]
    BY <2>1
  <2> DEFINE h == (i + 1) + 1
  <2>3. h \in 1..n /\ k \in 1..n /\ k \in 1..h /\ h \in 1..h
    BY <1>1
  <2>4. \A j \in 1..h : j = h \/ j \in 1..(i + 1)
    OBVIOUS
  <2>5. \A j \in 1..(i + 1) : values[j] \in Nat
    BY <1>1
  <2>6. values[h] \in Nat /\ values[k] \in Nat
    BY <1>1, <2>3
  <2> HIDE DEF h
  <2>7. CASE values[h] <= values[k]
    <3>1. \A j \in 1..h : values[j] <= values[k]
      BY <2>2, <2>4, <2>7
    <3> QED BY <2>3, <3>1 DEF h
  <2>8. CASE ~(values[h] <= values[k])
    <3>1. \A j \in 1..h : values[j] <= values[h]
      BY <2>2, <2>4, <2>5, <2>6, <2>8
    <3> QED BY <2>3, <3>1 DEF h
  <2> QED BY <2>7, <2>8
<1> HIDE DEF T, P
<1>4. n - 1 \in T
  <2>1. Nat \subseteq T
    BY <1>2, <1>3, SetInduction
  <2>2. n - 1 \in Nat
    BY <1>1
  <2> QED BY <2>1, <2>2
<1>5. P(n)
  <2>1. (n - 1) + 1 = n
    BY <1>1
  <2> QED BY <1>1, <1>4, <2>1 DEF T
<1> QED BY <1>5 DEF P

LEMMA SortedFacts ==
    ASSUME NEW values \in Seq(Nat), values # <<>>
    PROVE  /\ Len(values) \in Nat /\ Len(values) >= 1
           /\ Sorted(values) \in Seq(Nat) /\ Len(Sorted(values)) = Len(values)
           /\ \A i \in 1..Len(values) : Sorted(values)[i] \in Nat
           /\ \A i, j \in 1..Len(values) : i <= j => Sorted(values)[i] <= Sorted(values)[j]
<1> DEFINE n == Len(values)
           R == Range(values)
           data == Sorted(values)
           E(i) == {v \in R : Enough(values, v, i)}
           Least(v, i) == Enough(values, v, i) /\ \A w \in R : Enough(values, w, i) => v <= w
<1>1. n \in Nat /\ n >= 1 /\ DOMAIN values = 1..n /\ \A i \in 1..n : values[i] \in Nat
  <2>1. n \in Nat \ {0}
    BY EmptySeq
  <2> QED BY <2>1, ElementOfSeq, LenProperties
<1>2. R \subseteq Nat /\ \A i \in 1..n : values[i] \in R
  BY <1>1 DEF Range
<1>3. data = [i \in 1..n |-> CHOOSE v \in R : Least(v, i)]
  BY <1>1 DEF Sorted, Enough
<1> HIDE DEF n, R, data
<1>4. \A v \in R : Cardinality({j \in DOMAIN values : values[j] <= v}) \in Nat
  <2> SUFFICES ASSUME NEW v \in R PROVE Cardinality({j \in DOMAIN values : values[j] <= v}) \in Nat
    OBVIOUS
  <2> DEFINE below == {j \in DOMAIN values : values[j] <= v}
  <2>1. below \subseteq 1..n /\ IsFiniteSet(1..n)
    BY <1>1, FS_Interval
  <2>2. IsFiniteSet(below)
    BY <2>1, FS_Subset
  <2> QED BY <2>2, FS_CardinalityType
<1>5. PICK k \in 1..n : \A j \in 1..n : values[j] <= values[k]
  BY GreatestValue DEF n
<1>6. ASSUME NEW i \in 1..n PROVE Enough(values, values[k], i)
  <2> DEFINE below == {j \in DOMAIN values : values[j] <= values[k]}
  <2>1. below = 1..n
    BY <1>1, <1>5
  <2>2. Cardinality(1..n) = n
    BY <1>1, FS_Interval
  <2>3. Cardinality(below) = n
    BY <2>1, <2>2
  <2>4. n >= i
    BY <1>1
  <2>5. Cardinality(below) >= i
    BY <2>3, <2>4
  <2> QED BY <2>5 DEF Enough
<1>7. ASSUME NEW i \in 1..n PROVE data[i] \in R /\ Least(data[i], i)
  <2>1. E(i) # {} /\ E(i) \subseteq Nat
    BY <1>2, <1>6
  <2> HIDE DEF E
  <2>2. PICK v \in E(i) : \A w \in E(i) : v <= w
    BY <2>1, LeastNumber
  <2>3. v \in R /\ Least(v, i)
    BY <2>2 DEF E
  <2>4. data[i] = CHOOSE z \in R : Least(z, i)
    BY <1>3
  <2> HIDE DEF Least
  <2> QED BY <2>3, <2>4
<1>8. \A i \in 1..n : data[i] \in Nat
  BY <1>2, <1>7
<1>9. data \in Seq(Nat) /\ Len(data) = n
  <2>1. data \in [1..n -> Nat]
    BY <1>3, <1>8
  <2> QED BY <1>1, <2>1
<1>10. ASSUME NEW i \in 1..n, NEW j \in 1..n, i <= j PROVE data[i] <= data[j]
  <2>1. data[j] \in R /\ Enough(values, data[j], j)
    BY <1>7
  <2>2. Cardinality({l \in DOMAIN values : values[l] <= data[j]}) \in Nat
    BY <1>4, <2>1
  <2>3. Enough(values, data[j], i)
    BY <1>1, <1>10, <2>1, <2>2 DEF Enough
  <2> QED BY <1>7, <2>1, <2>3
<1> QED BY <1>1, <1>8, <1>9, <1>10 DEF n, data

\* Interpolation between a and b, in twentieths, is not below a; extrapolation
\* beyond b is not below b.
LEMMA Between ==
    ASSUME NEW a \in Nat, NEW b \in Nat, NEW d \in Nat, a <= b
    PROVE  a * (20 - d) + b * d >= 20 * a
  BY SMT

LEMMA Beyond ==
    ASSUME NEW a \in Nat, NEW b \in Nat, NEW d \in Nat, a <= b, d >= 20
    PROVE  a * (20 - d) + b * d >= 20 * b
  BY SMT

\* The places of the 19th of 20 cut points.
LEMMA CutPoint ==
    ASSUME NEW n \in Nat, n >= 2, NEW at \in Nat, at = (19 * (n + 1)) \div 20,
           NEW j \in Int, j = IF at < 1 THEN 1 ELSE IF at > n - 1 THEN n - 1 ELSE at,
           NEW d \in Int, d = 19 * (n + 1) - 20 * j
    PROVE  /\ j \in 1..n /\ j + 1 \in 1..n /\ d \in Nat
           /\ (d >= 20 /\ j + 1 = n) \/ n \div 2 + 1 <= j
<1>1. 20 * at <= 19 * (n + 1) /\ 19 * (n + 1) < 20 * at + 20
  BY SMT
<1>2. 2 * (n \div 2) <= n /\ n \div 2 \in Nat
  BY SMT
<1>3. at >= 1
  BY <1>1
<1>4. CASE at > n - 1
  BY <1>1, <1>3, <1>4
<1>5. CASE at <= n - 1
  <2>1. j = at /\ d = 19 * (n + 1) - 20 * at
    BY <1>3, <1>5
  <2>2. n >= 20
    BY <1>1, <1>5
  <2>3. n \div 2 + 1 <= at
    BY <1>1, <1>2, <2>2
  <2> QED BY <1>1, <1>3, <1>5, <2>1, <2>3
<1> QED BY <1>4, <1>5

\* The median lies between the smallest value and the middle one or the one after.
LEMMA MedianFacts ==
    ASSUME NEW values \in Seq(Nat), values # <<>>
    PROVE  LET n == Len(values) IN
           /\ n \div 2 + 1 \in 1..n /\ P50(values) \in Nat
           /\ 20 * Sorted(values)[1] <= P50(values)
           /\ P50(values) <= 20 * Sorted(values)[n \div 2 + 1]
<1> DEFINE n == Len(values)
           data == Sorted(values)
           half == n \div 2
<1>1. /\ n \in Nat /\ n >= 1 /\ Len(data) = n
      /\ \A i \in 1..n : data[i] \in Nat
      /\ \A i, j \in 1..n : i <= j => data[i] <= data[j]
  BY SortedFacts
<1> HIDE DEF n, data
<1>2. half \in Nat /\ half + 1 \in 1..n /\ 1 \in 1..n
  BY <1>1
<1>3. data[1] \in Nat /\ data[half + 1] \in Nat /\ data[1] <= data[half + 1]
  BY <1>1, <1>2
<1>4. CASE n % 2 = 1
  <2>1. (n + 1) \div 2 = half + 1
    BY <1>1, <1>4
  <2>2. P50(values) = 20 * data[half + 1]
    BY <1>1, <1>4, <2>1 DEF P50, data
  <2> HIDE DEF half
  <2> QED BY <1>2, <1>3, <2>2 DEF n, data, half
<1>5. CASE n % 2 # 1
  <2>1. half \in 1..n
    BY <1>1, <1>5
  <2>2. P50(values) = 10 * (data[half] + data[half + 1])
    BY <1>1, <1>5 DEF P50, data
  <2> HIDE DEF half
  <2>3. data[half] \in Nat /\ data[1] <= data[half] /\ data[half] <= data[half + 1]
    BY <1>1, <1>2, <2>1
  <2> QED BY <1>2, <1>3, <2>2, <2>3 DEF n, data, half
<1> QED BY <1>4, <1>5

\* What GET /quality reports is in order, for windows of every length, the short
\* ones included, for which quantiles() extrapolates.
THEOREM SummaryInOrder == QualitySpec => []SummaryOrdered
<1>1. ASSUME NEW values \in Seq(Nat), values # <<>>
      PROVE  20 * Sorted(values)[1] <= P50(values) /\ P50(values) <= P95(values)
  <2> DEFINE n == Len(values)
             data == Sorted(values)
             u == n \div 2 + 1
             at == (19 * (n + 1)) \div 20
             j == IF at < 1 THEN 1 ELSE IF at > n - 1 THEN n - 1 ELSE at
             d == 19 * (n + 1) - 20 * j
  <2>1. /\ n \in Nat /\ n >= 1 /\ Len(data) = n
        /\ \A i \in 1..n : data[i] \in Nat
        /\ \A i, k \in 1..n : i <= k => data[i] <= data[k]
    BY <1>1, SortedFacts
  <2>2. u \in 1..n /\ P50(values) \in Nat /\ 20 * data[1] <= P50(values) /\ P50(values) <= 20 * data[u]
    BY <1>1, MedianFacts
  <2>3. P95(values) = IF n < 2 THEN 20 * data[1] ELSE data[j] * (20 - d) + data[j + 1] * d
    BY <2>1 DEF P95
  <2> HIDE DEF n, data
  <2>4. 20 * data[u] <= P95(values) /\ P95(values) \in Int
    <3>1. CASE n < 2
      <4>1. n = 1 /\ u = 1
        BY <2>1, <3>1
      <4> QED BY <2>1, <2>3, <3>1, <4>1
    <3>2. CASE ~(n < 2)
      <4>1. at \in Nat /\ j \in Int /\ d \in Int
        BY <2>1
      <4>2. j \in 1..n /\ j + 1 \in 1..n /\ d \in Nat /\ ((d >= 20 /\ j + 1 = n) \/ u <= j)
        <5>1. n >= 2
          BY <2>1, <3>2
        <5> QED BY <2>1, <4>1, <5>1, CutPoint
      <4> HIDE DEF at, j, d, u
      <4>3. data[j] \in Nat /\ data[j + 1] \in Nat /\ data[j] <= data[j + 1] /\ data[u] \in Nat
        BY <2>1, <2>2, <4>2
      <4>4. P95(values) = data[j] * (20 - d) + data[j + 1] * d
        BY <2>3, <3>2
      <4>5. P95(values) \in Int
        BY <4>2, <4>3, <4>4
      <4>6. CASE u <= j
        <5>1. data[u] <= data[j]
          BY <2>1, <2>2, <4>2, <4>6
        <5>2. P95(values) >= 20 * data[j]
          BY <4>2, <4>3, <4>4, Between
        <5> QED BY <4>5, <4>3, <5>1, <5>2
      <4>7. CASE d >= 20 /\ j + 1 = n
        <5>1. data[u] <= data[j + 1]
          BY <2>1, <2>2, <4>2, <4>7
        <5>2. P95(values) >= 20 * data[j + 1]
          BY <4>2, <4>3, <4>4, <4>7, Beyond
        <5> QED BY <4>5, <4>3, <5>1, <5>2
      <4> QED BY <4>2, <4>6, <4>7
    <3> QED BY <3>1, <3>2
  <2>5. data[u] \in Nat /\ data[1] \in Nat
    <3>1. 1 \in 1..n
      BY <2>1
    <3> QED BY <2>1, <2>2, <3>1
  <2> QED BY <2>2, <2>4, <2>5 DEF data
<1>2. ASSUME QualityInv PROVE SummaryOrdered
  <2> SUFFICES ASSUME NEW m \in Stations, cnr[m] # <<>> PROVE cnr[m] \in Seq(Nat)
    BY <1>1 DEF SummaryOrdered
  <2> DEFINE x == Snapshot(m)
  <2>1. x \in Sound(Len(sent[m]))
    BY <1>2 DEF QualityInv, StationInv, Holds, Typed
  <2>2. x.cnr = cnr[m]
    BY DEF Snapshot
  <2> HIDE DEF x
  <2> QED BY <2>1, <2>2 DEF Sound, Snapshots
<1> QED BY <1>2, QualityInductive, PTL

=============================================================================
