---------------------------- MODULE RateLimiter -----------------------------
(***************************************************************************)
(* The token-bucket limiter of src/corshub/http/ratelimit.py that guards   *)
(* the authentication endpoints.  Buckets live in a cachetools.TTLCache: a *)
(* bucket that is not stored again for IdleTTL is gone, and storing a new  *)
(* one in a full cache throws out the bucket stored least recently.        *)
(*                                                                         *)
(* allow() has no await, so it is atomic.  Time and tokens are counted in  *)
(* a unit in which the refill of one tick is a whole number.               *)
(***************************************************************************)
EXTENDS Integers, FiniteSets

CONSTANTS Fingerprints,  \* client fingerprints
          Capacity,      \* tokens of a full bucket
          Refill,        \* tokens added per tick
          IdleTTL,       \* the cache's ttl, in ticks
          MaxBuckets,    \* the cache's maxsize
          LastTick       \* bound: ticks in a behaviour

ASSUME LimiterAssumption ==
    /\ Capacity \in Nat
    /\ Refill \in Nat
    /\ IdleTTL \in Nat
    /\ MaxBuckets \in Nat \ {0}
    /\ LastTick \in Nat

VARIABLES clock,     \* the monotonic clock
          cached,    \* keys in the cache, some of them possibly expired
          tokens,    \* _Bucket.tokens
          updated,   \* _Bucket.updated, which is also when it was last stored
          opened,    \* an observer counts the attempts admitted since this time
          admitted,  \* admitted[k]: how many of k's attempts since then, until
                     \* k's bucket is thrown out
          evicted    \* keys thrown out of the full cache since then

limiterVars == <<clock, cached, tokens, updated, opened, admitted, evicted>>

LimiterInit ==
    /\ clock = 0
    /\ cached = {}
    /\ tokens = [k \in Fingerprints |-> 0]
    /\ updated = [k \in Fingerprints |-> 0]
    /\ opened = 0
    /\ admitted = [k \in Fingerprints |-> 0]
    /\ evicted = {}

\* TTLCache: an entry expires IdleTTL after it was last stored.
LiveBuckets == {k \in cached : clock < updated[k] + IdleTTL}

\* TTLCache.__setitem__: expire, then make room for a key that is not there by
\* dropping the entry stored least recently.
Victims(k) ==
    IF k \in LiveBuckets \/ Cardinality(LiveBuckets) < MaxBuckets THEN {{}}
    ELSE {{v} : v \in {l \in LiveBuckets : \A o \in LiveBuckets : updated[l] <= updated[o]}}

\* The bucket before the attempt: a new one is full, a known one is topped up.
Level(k) ==
    IF k \in LiveBuckets
    THEN LET filled == tokens[k] + (clock - updated[k]) * Refill
         IN  IF filled <= Capacity THEN filled ELSE Capacity
    ELSE Capacity

\* Mutation: the time of the refill is not recorded for a rejected attempt, nor
\* for an admitted one, so the same interval is credited again and again.
Allow_ForgetUpdate(k) ==
    LET allowed == Level(k) >= 1 IN
    \E out \in Victims(k) :
        /\ tokens' = [tokens EXCEPT ![k] = IF allowed THEN Level(k) - 1 ELSE Level(k)]
        /\ updated' = [updated EXCEPT ![k] = IF k \in LiveBuckets THEN @ ELSE clock]
        /\ cached' = (LiveBuckets \ out) \cup {k}
        /\ admitted' = [admitted EXCEPT ![k] =
                          IF allowed /\ k \notin evicted THEN @ + 1 ELSE @]
        /\ evicted' = evicted \cup out
        /\ UNCHANGED <<clock, opened>>

\* allow(k) with cost 1: the token is taken if there is one, and the bucket is
\* stored, which refreshes its time to live, whether or not it was.
Allow(k) ==
    LET allowed == Level(k) >= 1 IN
    \E out \in Victims(k) :
        /\ tokens' = [tokens EXCEPT ![k] = IF allowed THEN Level(k) - 1 ELSE Level(k)]
        /\ updated' = [updated EXCEPT ![k] = clock]
        /\ cached' = (LiveBuckets \ out) \cup {k}
        /\ admitted' = [admitted EXCEPT ![k] =
                          IF allowed /\ k \notin evicted THEN @ + 1 ELSE @]
        /\ evicted' = evicted \cup out
        /\ UNCHANGED <<clock, opened>>

ClockTick ==
    /\ clock < LastTick
    /\ clock' = clock + 1
    /\ UNCHANGED <<cached, tokens, updated, opened, admitted, evicted>>

\* The observer starts counting afresh, at any time.
Observe ==
    /\ opened' = clock
    /\ admitted' = [k \in Fingerprints |-> 0]
    /\ evicted' = {}
    /\ UNCHANGED <<clock, cached, tokens, updated>>

LimiterNext ==
    \/ ClockTick
    \/ Observe
    \/ \E k \in Fingerprints : Allow(k)

LimiterSpec == LimiterInit /\ [][LimiterNext]_limiterVars
-----------------------------------------------------------------------------
LimiterTypeOK ==
    /\ clock \in Nat
    /\ cached \in SUBSET Fingerprints
    /\ tokens \in [Fingerprints -> 0..Capacity]
    /\ updated \in [Fingerprints -> Nat]
    /\ opened \in Nat
    /\ admitted \in [Fingerprints -> Nat]
    /\ evicted \in SUBSET Fingerprints

\* "Each fingerprint gets a bucket of `capacity` tokens, refilled at
\* `refill_per_second`": whatever window of time one looks at, a client has at
\* most Capacity attempts admitted plus what the window refills.  It may be
\* rejected, idle until its bucket expires and come back with a new full one;
\* only a bucket thrown out of the full cache escapes the bound.
RateBound ==
    \A k \in Fingerprints \ evicted : admitted[k] <= Capacity + (clock - opened) * Refill
=============================================================================
