---------------------------- MODULE JWKSManager ----------------------------
(***************************************************************************)
(* Verification of bearer tokens against the keys of several issuers:      *)
(* JWKSManager (jwt.py) and the decorator protected (http/middleware.py).  *)
(* A token that names an unknown key makes its request fetch the key sets  *)
(* of all providers; requests run concurrently, each with its own fetches, *)
(* while the issuers rotate their keys.  Keys are cached in a              *)
(* cachetools.TTLCache, the provider of a key in a plain dictionary, which *)
(* the providers are entered in by their audiences as well.                *)
(*                                                                         *)
(* A key is the pair of its issuer and its kid.  A kid may be used by two  *)
(* issuers, and may be the audience of one; an issuer does not publish a   *)
(* kid again that it retired.  Keys without a kid are passed over by       *)
(* populate() and are left out.                                            *)
(* Fetches last less than FetchTimeout, resumption of the task included.   *)
(***************************************************************************)
EXTENDS Naturals, Sequences, Functions, FiniteSets

CONSTANTS ProviderList,  \* self._providers, a sequence
          Kids,          \* key ids
          Keys,          \* the keys of the issuers, as <<provider, kid>> pairs
          Unsupported,   \* those that are neither RSA nor OKP keys
          Audience,      \* Audience[p]: provider[AUD]
          Requests,      \* requests that may be in progress at once
          TTL,           \* cache_ttl, in ticks
          FetchTimeout,  \* the timeout of a fetch, in ticks
          MaxSize,       \* maxsize of the cache
          MaxTime,       \* bound: ticks in a behaviour
          MaxRotations,  \* bound: keys published or withdrawn in a behaviour
          None

Providers == {ProviderList[i] : i \in DOMAIN ProviderList}

\* The keys of _jwks_metadata.
Names == Kids \cup {Audience[p] : p \in Providers}

ASSUME JWKSAssumption ==
    /\ {TTL, FetchTimeout, MaxSize} \subseteq Nat \ {0}
    /\ MaxTime \in Nat /\ MaxRotations \in Nat
    /\ ProviderList \in Seq(Providers) /\ None \notin Providers
    /\ IsFiniteSet(Kids) /\ None \notin Kids \cup Nat
    /\ Keys \subseteq Providers \X Kids /\ Unsupported \subseteq Keys

VARIABLES now,        \* the clock
          published,  \* published[p]: the kids in p's key set
          retiredAt,  \* retiredAt[p][k]: when p withdrew k, or None
          rotations,  \* how many keys they have published or withdrawn
          cache,      \* _jwks_cache: [kid, provider, expires], least recently
                      \* used first, expired ones possibly included
          metadata,   \* _jwks_metadata[n]: a provider, or None
          started,    \* "no", "yes", or "failed"
          req         \* req[r]: [pc, kid, since, seen, known]

issuerVars == <<published, retiredAt, rotations>>
cacheVars == <<cache, metadata>>
vars == <<now, issuerVars, cacheVars, started, req>>

\* seen[p] is p's answer to this request's fetch.  known is history: the
\* providers that have published the kid ever since the request began.
Idle == [pc |-> "idle", kid |-> None, since |-> 0,
         seen |-> [p \in Providers |-> None], known |-> {}]

Init ==
    /\ now = 0
    /\ published \in [Providers -> SUBSET Kids]
    /\ \A p \in Providers : \A k \in published[p] : <<p, k>> \in Keys
    /\ retiredAt = [p \in Providers |-> [k \in Kids |-> None]]
    /\ rotations = 0
    /\ cache = <<>>
    /\ metadata = [n \in Names |-> None]
    /\ started = "no"
    /\ req = [r \in Requests |-> Idle]

-----------------------------------------------------------------------------
(* The cache *)

Live(c, k) == \E i \in DOMAIN c : c[i].kid = k /\ now < c[i].expires
Entry(c, k) == c[CHOOSE i \in DOMAIN c : c[i].kid = k]

\* The entries of c that are in keep, in their order.
Only(c, keep) ==
    LET kept[i \in 0..Len(c)] ==
            IF i = 0 THEN <<>>
            ELSE IF c[i] \in keep THEN Append(kept[i - 1], c[i]) ELSE kept[i - 1]
    IN kept[Len(c)]

Without(c, k) == Only(c, {e \in Range(c) : e.kid # k})

NewEntry(k, p) == [kid |-> k, provider |-> p, expires |-> now + TTL]

\* Mutation: a cache without a size.
Store_NoEviction(c, k, p) == Append(Without(c, k), NewEntry(k, p))

\* TTLCache.__setitem__: expired entries are dropped, then, for a new key in a
\* full cache, the one used least recently.
Store(c, k, p) ==
    LET live == Only(c, {e \in Range(c) : e.kid # k /\ now < e.expires})
        room == IF Len(live) < MaxSize THEN live ELSE Tail(live)
    IN Append(room, NewEntry(k, p))

\* TTLCache.__getitem__: the key becomes the one used most recently.
Use(c, k) == Append(Without(c, k), Entry(c, k))

-----------------------------------------------------------------------------
(* populate(), once every provider has answered: keys[p] is p's key set.     *)

\* The steps of the two loops, in the order of the providers: a provider is
\* entered (kid None), then its keys are stored, in the order of its document,
\* which may be any.  A step for a key that is not in keys is none.
Listings ==
    LET steps == (DOMAIN ProviderList) \X (Kids \cup {None})
        orders == {s \in [1..Cardinality(steps) -> steps] :
                      /\ Range(s) = steps
                      /\ \A i, j \in DOMAIN s : i < j =>
                            /\ s[i][1] <= s[j][1]
                            /\ s[j][2] = None => s[i][1] < s[j][1]}
    IN {[i \in DOMAIN s |-> [provider |-> ProviderList[s[i][1]], kid |-> s[i][2]]]
           : s \in orders}

\* The step stores a key: the provider's answer has it.
Listed(x, keys) == x.kid # None /\ x.kid \in keys[x.provider]

\* _public_key_from_jwk() raises InvalidTokenError at this step.
Raises(x, keys) == Listed(x, keys) /\ <<x.provider, x.kid>> \in Unsupported

\* No key of any provider makes populate() fail.
Readable(keys) == \A p \in Providers : \A k \in keys[p] : <<p, k>> \notin Unsupported

\* Mutation: a kid that has been seen before is not stored again.
Put_NewOnly(c, m, k, p) ==
    IF m[k] # None THEN <<c, m>> ELSE <<Store(c, k, p), [m EXCEPT ![k] = p]>>

\* Mutation: the first provider that used a kid keeps it.
Put_FirstOwner(c, m, k, p) ==
    <<Store(c, k, p), IF m[k] = None THEN [m EXCEPT ![k] = p] ELSE m>>

\* One key is stored, and the provider of its kid with it.
Put(c, m, k, p) == <<Store(c, k, p), [m EXCEPT ![k] = p]>>

\* A provider is entered under its audience.
Announce(c, m, p) == <<c, [m EXCEPT ![Audience[p]] = p]>>

\* The loops up to their end or to the first key that raises: what they have
\* stored by then stays.
Populated(s, keys) ==
    LET Turn(y, x) ==
            IF x.kid = None THEN Announce(y[1], y[2], x.provider)
            ELSE IF Listed(x, keys) THEN Put(y[1], y[2], x.kid, x.provider)
            ELSE y
        after[i \in 0..Len(s)] ==
            IF i = 0 THEN <<cache, metadata>>
            ELSE IF \E j \in 1..i : Raises(s[j], keys) THEN after[i - 1]
            ELSE Turn(after[i - 1], s[i])
    IN after[Len(s)]

Fits(keys) == Cardinality(UNION {keys[p] : p \in Providers}) <= MaxSize

-----------------------------------------------------------------------------
(* Start-up and requests *)

\* register(): the first populate() of the application; it fails with any of
\* its fetches and with a key it cannot read, and the application does not start.
StartUp ==
    /\ started = "no"
    /\ \E s \in Listings :
          cache' = Populated(s, published)[1] /\ metadata' = Populated(s, published)[2]
    /\ started' = IF Readable(published) THEN "yes" ELSE "failed"
    /\ UNCHANGED <<now, issuerVars, req>>

StartUpFails ==
    /\ started = "no"
    /\ started' = "failed"
    /\ UNCHANGED <<now, issuerVars, cacheVars, req>>

\* validate() of a token whose kid is cached: provider and key are read
\* without a suspension in between and given to jwt.decode().
Verify(kid) ==
    /\ started = "yes"
    /\ Live(cache, kid)
    /\ cache' = Use(cache, kid)
    /\ UNCHANGED <<now, issuerVars, metadata, started, req>>

\* The kid is not cached: the request fetches all key sets.
Fetch(r, kid) ==
    /\ started = "yes" /\ req[r].pc = "idle"
    /\ ~Live(cache, kid)
    /\ req' = [req EXCEPT ![r] =
                 [Idle EXCEPT !.pc = "fetching", !.kid = kid, !.since = now,
                              !.known = {p \in Providers : kid \in published[p]}]]
    /\ UNCHANGED <<now, issuerVars, cacheVars, started>>

Answer(r, p) ==
    /\ req[r].pc = "fetching" /\ req[r].seen[p] = None
    /\ req' = [req EXCEPT ![r].seen[p] = published[p]]
    /\ UNCHANGED <<now, issuerVars, cacheVars, started>>

\* Mutation: the keys at hand are kept for another TTL instead.
FetchFails_ServeStale(r) ==
    /\ req[r].pc = "fetching"
    /\ req' = [req EXCEPT ![r] = Idle]
    /\ cache' = [i \in DOMAIN cache |-> [cache[i] EXCEPT !.expires = now + TTL]]
    /\ UNCHANGED <<now, issuerVars, metadata, started>>

\* One provider is down: gather() raises and the request is refused, whichever
\* issuer its token is from.
FetchFails(r) ==
    /\ req[r].pc = "fetching"
    /\ req' = [req EXCEPT ![r] = Idle]
    /\ UNCHANGED <<now, issuerVars, cacheVars, started>>

\* All have answered: populate() stores the keys, the kid is looked up again.  If
\* a key raises, the request is refused, whether its own key is there or not.
Finish(r) ==
    /\ req[r].pc = "fetching"
    /\ \A p \in Providers : req[r].seen[p] # None
    /\ req' = [req EXCEPT ![r] = Idle]
    /\ \E s \in Listings :
          LET kid == req[r].kid
              x == Populated(s, req[r].seen)
          IN /\ cache' = IF Readable(req[r].seen) /\ Live(x[1], kid)
                         THEN Use(x[1], kid) ELSE x[1]
             /\ metadata' = x[2]
    /\ UNCHANGED <<now, issuerVars, started>>

-----------------------------------------------------------------------------
(* The issuers and the clock *)

Publish(p, k) ==
    /\ k \notin published[p] /\ retiredAt[p][k] = None
    /\ rotations < MaxRotations /\ rotations' = rotations + 1
    /\ published' = [published EXCEPT ![p] = @ \cup {k}]
    /\ UNCHANGED <<now, retiredAt, cacheVars, started, req>>

Retire(p, k) ==
    /\ k \in published[p]
    /\ rotations < MaxRotations /\ rotations' = rotations + 1
    /\ published' = [published EXCEPT ![p] = @ \ {k}]
    /\ retiredAt' = [retiredAt EXCEPT ![p][k] = now]
    /\ req' = [r \in Requests |->
                 IF req[r].kid = k
                 THEN [req[r] EXCEPT !.known = @ \ {p}] ELSE req[r]]
    /\ UNCHANGED <<now, cacheVars, started>>

Tick ==
    /\ now < MaxTime
    /\ \A r \in Requests :
          req[r].pc = "fetching" => now < req[r].since + FetchTimeout
    /\ now' = now + 1
    /\ UNCHANGED <<issuerVars, cacheVars, started, req>>

Next ==
    \/ StartUp \/ StartUpFails \/ Tick
    \/ \E key \in Keys : Publish(key[1], key[2]) \/ Retire(key[1], key[2])
    \/ \E kid \in Kids : Verify(kid)
    \/ \E r \in Requests :
          \/ \E kid \in Kids : Fetch(r, kid)
          \/ \E p \in Providers : Answer(r, p)
          \/ FetchFails(r) \/ Finish(r)

Spec == Init /\ [][Next]_vars

-----------------------------------------------------------------------------
(* The cache holds at most MaxSize keys, each kid once.                      *)
TypeOK ==
    /\ Len(cache) <= MaxSize
    /\ \A i, j \in DOMAIN cache : cache[i].kid = cache[j].kid => i = j
    /\ cache \in Seq([kid : Kids, provider : Providers, expires : 0..MaxTime + TTL])
    /\ metadata \in [Names -> Providers \cup {None}]
    /\ \A r \in Requests : req[r].pc \in {"idle", "fetching"}

(* A cached key and the provider recorded for its kid belong together, with  *)
(* two issuers that use one kid, with requests that finish populate() in any *)
(* order and with populations that end half-way: a token is verified with    *)
(* one issuer's key and another one's issuer and audience only if its kid is *)
(* that other one's audience, which populate() enters in the same dictionary *)
(* without a key.                                                            *)
KeyAndProviderAgree ==
    \A i \in DOMAIN cache :
        LET k == cache[i].kid
        IN \/ metadata[k] = cache[i].provider
           \/ metadata[k] \in Providers /\ Audience[metadata[k]] = k

(* A key that its issuer withdrew is unusable TTL plus one fetch later: an   *)
(* answer fetched before the rotation may be stored after it, and after the  *)
(* answers of faster requests, but not more than a fetch later.              *)
RetiredKeysLapse ==
    \A i \in DOMAIN cache :
        LET at == retiredAt[cache[i].provider][cache[i].kid]
        IN (at # None /\ now >= at + FetchTimeout + TTL)
           => ~Live(cache, cache[i].kid)

(* A token whose key its issuer has published all the time is never refused  *)
(* as unknown, unless the key sets this request was given hold more keys     *)
(* than the cache (32), which may be because one answer is from before and   *)
(* another from after a rotation, or unless they hold a key of a type that   *)
(* is not supported: one such key at any issuer has every request refused    *)
(* that has to fetch.                                                        *)
PublishedKeysFound ==
    [][\A r \in Requests :
          (/\ Finish(r) /\ req[r].known # {}
           /\ Fits(req[r].seen) /\ Readable(req[r].seen))
          => Live(cache', req[r].kid)]_vars

=============================================================================
