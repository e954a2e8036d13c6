# CORSHub: TLA+ models, checks and proofs

CORSHub is an NTRIP v2 caster: base stations push RTCM correction streams over
HTTP (`PUT /<mountpoint>`), rovers pull them over HTTP (`GET /<mountpoint>`) or,
after an HTTPS bootstrap, receive them as signed UDP datagrams. The server is one
asyncio event loop. It persists nothing: all its state is in memory and is shared by
tasks that interleave at every `await` that suspends. Around it are a base-station
tool, also an event loop, and a bot that issues credentials through pull requests.
The difficulty of the code lies in these interleavings, and the models are about them.

Paths are relative to the repository; `corshub/...` is in its `src/`.

## 1. The system

| Part | State | Operations | Shared with |
|---|---|---|---|
| Transport `corshub/ntrip/v2/transport.py` | list of subscribers; per subscriber a bounded queue, a `cancelled` flag, a sentinel | `subscribe`, `publish`, `get`, `shutdown` | PUT publishes, GET and UDP egress consume |
| Caster `corshub/ntrip/v2/caster.py` | `_mountpoints`, `_transports`, `_rover_positions`, quality state | `register`, `available`, `close`, `unregister`, `publish`, `subscribe`, positions, reaper, `start`/`stop` | every handler |
| PUT handler `services/v1/ntrip/put.py` | the request | policy, password, register, respond, publish chunks, close | caster, OPA |
| GET handler `services/v1/ntrip/read.py`, `nearest.py` | the request, a GGA reader task | policy, availability, subscribe, stream, clear position | caster, OPA |
| Metadata `ntrip/v2/headers.py`, `sourcetable.py` | `Mountpoint` records | parse `Ntrip-STR`, list (formatting only), choose the nearest | caster |
| Quality pipeline `caster.py`, `ntrip/v2/quality.py` | bounded sample queue, frame buffers, antenna references, rolling windows | enqueue, worker, read-out | caster, metrics |
| Access: `opa/client.py`, the Rego policies, `rtcm/tokens.py`, `services/v1/rtcm/session.py` | the registry (edited outside), tokens held by clients | query, verify, issue, accept | caster, UDP egress |
| Rate limiter `http/ratelimit.py` | a TTL cache of token buckets | `allow` | the authenticated endpoints |
| UDP egress `rtcm/udp.py` | `_sessions`, spawned coroutines, egress tasks, gauge | datagram handlers, egress loop, reaper, `stop` | caster |
| Bearer tokens `jwt.py`, `http/middleware.py` | TTL cache of keys, providers of keys | `start`, `populate`, lookup, validate | issuers |
| Base-station tool `tools/here4-base-caster.py` | serial port reference, state, two queues, back-off | four loops | the caster, over HTTP |
| Onboarding `.github/scripts/onboard.py`, `workflows/onboard.yml` | main, pull requests, the runner's tree, comments | check, generate, store, post, push, close | GitHub |

Hard behaviours: values read before an await and used after it (availability, stale
lists, policy answers, the serial port); clean-up done by someone other than the owner
(`close` by mountpoint name, positions by username); cancellation that arrives in
clean-up code; bounded queues and caches at their limit; coroutines spawned for a
session that is gone when they run; streams cut at arbitrary bytes; a workflow that
fails between two of its effects and is started again. `PROJECT.json` lists each at its
line under `hazards`.

## 2. The modules

One action is the code between two awaits that really suspend. An `await` of a
coroutine that never suspends (`available`, `register`, `publish`, `shutdown` of a
transport without subscribers) does not end an action.

**CorrectionFeed** is the abstract promise of a mountpoint's transport: frames are
numbered, a live subscriber is handed, one at a time, the oldest frame it has not had
among the `Window` latest. No queue appears in it.

**QueueTransport** is `transport.py`. A subscriber is the loop `while (frame := await
sub.get()) is not None: await write(frame)`. `Shutdown` swaps the list and schedules one
`shutdown()` task per subscriber (`closing`), each a later action. `CancelGet` and
`CancelWrite` cancel the consumer; `CancelCloser` cancels the task awaiting `gather()`
and with it the children that have not started, remembered in `untold`. It implements
CorrectionFeed with `Window = QUEUE_MAXSIZE`.

**Caster** is the registry with its three kinds of tasks. PUT handlers go through
`policy` (availability read, OPA asked), `verify`, `respond`, `stream`, `close`; GET
handlers through `auth`, `open`, `stream`, `unwind`; the reaper sleeps or waits in the
shutdown of a transport with subscribers, holding the rest of its list. A mountpoint's
age saturates just above `Expiry`, as only the comparison matters. The inside of a
transport is left to QueueTransport, except for how it ends: `shutdown()` takes every
subscription off the list (`closed`) and schedules a task for each (`closing`), whose
`ShutdownTask` tells it (`ended`); `CloseCancelled` is a PUT handler cancelled in `gather()`,
with the tasks that have not run. `stop()` cancels the reaper after the server has
stopped, when no request is left, and is no action. `overlapped` is a history variable:
mountpoints that had two publishers at once.

**MountpointDirectory** is what the caster knows of its mountpoints: parsing of the
header with defaults and range checks, `register` for a new and for a known mountpoint,
which validate differently, and the choice of `NEAREST`, a loop over the
registered mountpoints as in the code. A distance is a table in place of haversine.

**QualityPipeline** is the path of a chunk from `publish()` to the numbers of
`GET /quality`. A base station produces frames (preamble, header with length, payload,
trailer) and sends their bytes in chunks of any size; the worker appends them to
`_frame_buffer` and splits. `Scan` is one turn of the loop of `_split_rtcm_frames`. A byte
remembers the frame and offset it was sent as, which only the checksum test sees, so that
a mixture of two frames is a parse error. `CloseSession` is `close()`, `Reap` is
`unregister()`. The median and p95 are computed exactly, as rationals with a common
denominator; `Sorted` is defined by order statistics, not by an algorithm.

**RoverAccess** follows a request through the rate-limited endpoints to its grant:
OPA query with its timeout, policy evaluation on the registry of that moment, password
check in a thread, then a stream (with its limit), or a session token that later Hellos
present. The registry may be edited at any time.

**RateLimiter** is `RateLimiter.allow` on `cachetools.TTLCache` (external: expiry, and
eviction of the entry stored least recently). `opened`, `admitted`, `evicted` belong to
an observer that may start counting at any time. Time and tokens are integers in a unit
in which a tick refills a whole number.

**RTCMDatagramServer** is the UDP egress. `bg` is the FIFO of spawned coroutines that
have not started: uvloop delivers several datagrams in one go, so a `Bye` and a switch
may both be waiting. `etask[s]` is the session's current egress task. `Preference` and
`Beyond` abstract coordinates, masks and haversine. The caster appears as
`BaseConnects`, `BaseLeaves` and `Unregister`.

**JWKSManager** is the verification of bearer tokens: start-up, lookup, population from
all issuers at once, store in the order of the providers (the keys of one answer in any
order), with issuers that rotate keys and may share a `kid`. Each provider is also entered
under its audience, in the dictionary of the `kid`s (`Announce`). A key of an unsupported type
raises (`Raises`): the stores before it stay, and the request, or start-up, fails. The cache
keeps expired entries until something purges them, as cachetools does.

**Here4BaseCaster** is the base-station tool: `connect_loop`, one `read_loop` per opened
port, `process_loop` with its state machine, and `caster_loop` with its back-off, under one
`gather()`. Messages are numbered as read, and classified by what `process_loop` does.

**OnboardingBot** is the script and its workflow for several pull requests at once:
checkout, the additions check, change detection, generation, storing, posting, commit and
push, closing. Each may fail where the code can. A hash is the number of a credential the
bot generated, or `Given`: `main` starts with any entries whose hashes were made by hand,
with or without a pinned owner, and a request may bring a hash for a new entry or in place
of another, which `detect_changes` and the additions check let pass.

`MC*` modules hold the instances, `*Proofs` modules the theorems: one per module, except
that TTLCacheProofs has those of the two that keep their state in a `TTLCache`
(RateLimiter, JWKSManager) and MountpointProofs those of the two that are about one
mountpoint's data (MountpointDirectory, QualityPipeline). Operators named
`X_Something` are deliberate mutations of `X` used to see that each property can fail.

Composition. QueueTransport's view of a subscriber (told, ended) is what Caster's `sub`
abstracts, and Caster's transports are what RTCMDatagramServer's bases stand for; the
grant at the end of RoverAccess is the step `policy`/`auth` of Caster and the Hello of
RTCMDatagramServer. One product of all would be beyond TLC; the interfaces are kept to
these few events.

## 3. What TLC checks

| Run | Instance | Shows |
|---|---|---|
| Transport | 2 subscribers, queue of 2, 5 frames, fair | `QueueIsBacklog`, `NobodyForgotten`, `ToldStreamsEnd`: shutdown reaches every subscriber and ends its loop; `ImplementsFeed` |
| Caster | 2 mountpoints, 3 PUT handlers (2 compete), a rover, expiry 0, fair | `TransportsRegistered`, `LiveStreamsHaveTransport`, `PositionsOwned`, `SoloPublisherKeepsTransport`, `PositionKeptWhileStreaming`, `OrphanedRoversReleased`, `AbandonedTransportsReaped` |
| Directory | 3 mountpoints, 8 kinds of headers | `NearestIsFirstClosest`, and in `TypeOK` that the dictionaries stay in step and coordinates in range whatever a header says |
| Quality | 1 mountpoint, 3 frames of 5 types, queue of 2, window of 2 | `ExactlyOnce`, `Resynchronises`, `DriftIsCounted`, `SummaryOrdered`, and in `QualityTypeOK` that an incomplete frame never reaches the size at which it is discarded |
| Access | 2 requests, 4 kinds of registry entries, 3 ticks | `GrantsJustified`, `LimitedSessionsEnd` |
| RateLimiter | 3 clients, cache of 2, capacity 2, TTL 3, 5 ticks | `RateBound` in every window |
| UdpSafety | 2 sessions, 2 mountpoints, 1 place, backlog 1 | `GaugeCounts`, `ScopedSessionsClean`, with a reaper that suspends between two sessions |
| UdpBurst | 1 session, 3 places, backlog 3, fair | `ScopeRespected`, `LabelMatches`, `SilentSessionsReaped`, with handoffs both ways and bursts of spawned coroutines |
| Jwks | 2 issuers, 4 keys of 2 `kid`s, one key unsupported, one `kid` an audience, 2 requests, cache of 1, 2 ticks, 2 rotations | `PublishedKeysFound`, `RetiredKeysLapse`, `KeyAndProviderAgree` |
| Here4 | 2 ports, 5 messages, queues of 2, fair | `OneReader`, `AdvancedMeansConfigured`, `FramesInOrder`, `ReconnectsUnlessOvertaken` |
| Onboarding | 2 pull requests, 2 accounts, 2 names that may exist with and without owners, 3 starts | `PasswordsReachOwners`, `OwnersPinned`, `OnboardedMeansStored` |
| UdpStopHangs | 1 session, fair; **violation** | `StopReturns` is refuted: `stop()` waits for ever for a reaper that swallowed its cancellation (`findings`) |

Bounds. Two competitors and a bystander are enough for every pairwise race on a
mountpoint; two mountpoints (sessions) make the reaper suspend in the middle of its
list. One rover suffices in Caster because its safety parts are proved for any number. A
queue of two slots distinguishes evicting the head from evicting the tail. Frames with a
header of two bytes, a trailer of one and at most one byte of payload are cut at every
position relative to preamble, length, payload and trailer; three of them let a loss be
followed by a false start and a recovery. A cache of one key makes every second store an
eviction. Two ports let a read error overtake the configuration of the first. Three starts
over two requests include two overlapping runs and the repetition of a failed one.
Expiry and TTL of 0 ticks keep both sides of the comparison reachable. `MaxFrames`,
`MaxTime`, `MaxRotations`, `MaxBacklog`, `MaxMessages`, `MaxHandles`, `MaxStarts`, `MaxTokens`, `MaxAhead`
and `MaxGaps` only cut behaviours short. `CHECK_DEADLOCK FALSE` is used where the system
may stop or a bound stops it: a transport that has ended, a stopped UDP server, an
application that did not start, a base-station tool that failed, a closed pull request.
Symmetry is used only in runs without liveness properties.

Fairness. The event loop runs every ready task, so every step that waits for nothing
but the loop is weakly fair; the clock advances; a write to a socket returns or fails;
`connect_loop` polls for a port and finds one. Nothing is assumed of base stations and
rovers, nor that anyone ever stops the server.

Assumptions on what is outside the code. aiohttp abandons the body generator together
with its connection. An issuer does not publish a `kid` again that it retired. A due
timer fires before the clock moves; a fetch lasts less than its timeout. A name
registered in both roles counts as two users. sops may refuse to decrypt or not, its MAC
being its own affair. Signatures and session tokens are not forged. UDP session ids,
random 64-bit numbers, are drawn once each.

## 4. What the properties leave open

Some properties are stated for less than one would like, because the models show that
the code does not give more. None of the following is assumed away: each is a behaviour of
the models that no property forbids.

- **Two base stations on one mountpoint.** Availability is read before OPA is asked
  (`caster.py:525`), so two may pass the check of `put.py:64` together, and the first to leave
  closes the other's transport. `SoloPublisherKeepsTransport` exempts `overlapped`.
- **Cancelled closer.** If the task awaiting `gather()` is cancelled before the `shutdown()`
  tasks start (`transport.py:227`), their subscribers wait for ever, unless their session limit
  or their rover ends them. `ToldStreamsEnd` exempts them, and so does
  `OrphanedRoversReleased` for a PUT handler cancelled in its `close()`.
- **UDP positions and orphans.** A position stored under a session's earlier mountpoint is
  never cleared (`udp.py:449`), and a switch that runs after the teardown of its session
  starts an egress task nobody owns (`udp.py:303`). `ScopedSessionsClean` is about sessions
  pinned to one mountpoint.
- **Offline base.** A UDP session whose base has left stays, without corrections, as long
  as its rover sends keepalives (`udp.py:325`); `SilentSessionsReaped` is about silent ones.
- **Reaper's stale list.** A mountpoint or session that is refreshed while the reaper
  waits for another one is removed all the same; its base station streams on to nobody.
- **Sessions during stop.** A UDP session opened while `stop()` drains survives it.
- **Registering again.** The second registration of a mountpoint applies the header's name
  and other fields unvalidated (`caster.py:388-441`), so the source table may list a name
  nobody can GET; no property is about names. It lists closed mountpoints as well, which GET refuses.
- **Keys.** One key at any issuer that is neither RSA nor OKP ends every population
  (`jwt.py:43`): the application does not start, and a request that has to fetch is refused,
  whichever issuer its token is from; `PublishedKeysFound` exempts it. Audiences and `kid`s
  share a dictionary (`jwt.py:165`): a key whose `kid` is the audience of another provider is
  used with that provider's issuer and audience; `KeyAndProviderAgree` exempts it.
- **Anonymous UDP.** The bootstrap of a UDP session discards `max_session_seconds`
  (`session.py:51`): `LimitedSessionsEnd` is about GET streams only.
- **Serial error during configuration.** The state set by `process_loop` after its awaits
  overwrites `SEARCHING`, and nobody reconnects; `ReconnectsUnlessOvertaken` and
  `AdvancedMeansConfigured` exempt it.
- **Shared usernames.** Two rovers with one username share a position.
- **Onboarding.** A pull request opened before a rotation carries the old hash, which its
  merge restores, although `rotate.md` says the old password stops working on the next
  deployment: the additions check ignores lines with `password_hash`. For the same reason
  anyone may bring a hash of their own for any entry, as far as sops accepts the file:
  `PasswordsReachOwners` is about hashes the bot generated. If generation fails for one of
  several entries, the entry is committed without a hash: a new one without an owner either,
  so that later requests are refused as tampered with; a rotated one leaves its owner
  without a password until a further rotation. Passwords are posted before the push, so a
  refused push leaves a password without a hash; `PasswordsReachOwners` is about the other
  direction.

## 5. What is proved

For every value of the constants allowed by the named assumptions, checked by TLAPS:

- **Transport.** `TypeCorrect`, `BacklogCorrect`, `NoSubscriberForgotten` (all but
  those whose task was cancelled with the closer) and `TransportImplementsFeed`. The
  inductive invariant adds to the properties the bookkeeping they rest on: a subscriber
  told to stop has at most the sentinel in its queue, and one that is neither attached nor
  closing is not waiting on an open transport. The refinement follows because the head of a
  backlog is `Oldest`.
- **Caster.** `TypeCorrect`, `PublishFindsMountpoint`, `LiveStreamsServed`,
  `PositionsCleared`, `SoloPublisherSafe`, and the action property `PositionsKept`, for rovers
  with usernames of their own. `SoloPublisherKeepsTransport` is not inductive: it needs
  `OverlapsNoted`, that two handlers publishing to one mountpoint have been recorded, so
  that a handler on a mountpoint never shared is the only one that could have closed it.
  `PositionsKept` needs only the types: every step that removes a rover's position is its
  own unwinding or takes the transport away. `LiveStreamsServed` is about the lists: that
  those taken off a list are told is liveness.
- **Rate limiter.** `BucketsInRange`, and `RateBounded` under `Capacity <= IdleTTL * Refill`:
  a bucket that expires would have been full, so forgetting it costs nothing. The deployed
  values (5 tokens, 1/s, 3600 s) satisfy this. The invariant bounds, for each bucket,
  admitted attempts plus the tokens left.
- **Bearer-token keys.** `TypeCorrect`, `KeysMatchProviders`, `RetiredKeysExpire` and
  `PublishedKeysServed`, for any number of issuers, keys and requests. The invariant
  (`JWKSInv`) has the cache and the providers' dictionary agree pair by pair, except where
  the `kid` is an audience, although populate() writes the one after the other, may end
  half-way, and only one of them evicts; every entry lapse
  within the time to live, and a retired one a fetch timeout later at most; an answer in
  flight be no older than its timeout and without keys retired before its request; and a
  `kid` retire once. `RetiredKeysLapse` alone is
  not inductive, as it says nothing of the answers in flight, which may bring a retired key
  back. `PublishedKeysServed` adds that the entries of the populating request are the most
  recent, and counts: when all key sets fit, and none of their keys raises, a store evicts
  an older entry.
- **UDP egress.** `TypeCorrect`, `GaugeNeverDrifts`, `TokensAreRespected`, `LabelsAreTrue`,
  `PinnedSessionsLeaveNothing`. The properties are proved together, with two additions:
  `SessionsKnown` (whatever names a session, spawned coroutines included, names one that a
  Hello made, so that a late coroutine meets a `Session` with a mountpoint) and
  `PositionsPinned` (a pinned session's position is under its token's mountpoint, the only
  one its teardown clears).
- **Access.** `TypeCorrect`, `NoUnjustifiedGrant`, `AnonymousStreamsEnd`. The invariant carries
  the moment that justifies a grant through the awaits: an answer that lets a request in is
  still what the registry says, or was noted as lawful before registry or clock moved
  (`AnswerJustified`). For the streams of the anonymous rover it adds that an answer about
  it has the limit in it, and that a deadline has not passed.
- **Onboarding.** `TypeCorrect`, `EveryPasswordReachesItsOwner`, `SuccessMeansStored` and the action
  property `OwnersStayPinned`. `PasswordsReachOwners` is far from inductive. The invariant says of
  every run, by the step it has reached, that its checkout is main or main has commits
  it lacks (so its push is refused), that its passwords are encrypted to an author who owns
  the entry or adds it, and that its tree is the request's with these passwords in it.
  An old request's hashes are no longer main's, but were sent to the owners of now
  (`RequestsSent`), which is why merging it cannot hand an entry to somebody else. Hashes the
  bot did not generate are followed through branch, requests and trees, and nothing is said
  of whose they are.
- **Base-station tool.** `TypeCorrect`, `PortsHaveOneReader`, `NeverUnconfigured`, `FramesStayInOrder`.
  `OneReader` needs `PortOwned`: while `SEARCHING`, or while a port is being opened, `ser_ref`
  is empty, and the port under configuration is the newest. `FramesInOrder` speaks of one
  concatenated sequence; the proof works with the order between each two places a frame
  passes through (`PlacesInOrder`) and puts the sequence together at the end.
- **Directory.** `TypeCorrect` and `NearestIsClosest`. The keys are a
  sequence without repetition, records are typed by what the parser can give rather than by
  what `Mountpoint.__post_init__` accepts, since a second registration bypasses it. The loop
  of `NEAREST` has the loop invariant `Found`: after i mountpoints it holds the first of the
  closest among them.
- **Quality pipeline.** `QualityTypeCorrect`, `FramesParsedOnce`, `DriftCounted`, `SummaryInOrder`, for
  any frames, chunks, queues and windows. `QualityInv` says of every station, as long as it
  has no gap, that the first k frames have been parsed and that buffer, queue and unsent
  bytes put together are the bytes of the others (`Accounted`). It is preserved because of
  `SplitStream`: whatever prefix of a stream the splitter gets, it cuts out exactly the
  frames that end in it. That in turn is an invariant of the loop (`InStep`), which after
  every turn stands at the start of a frame. `SplitFacts` holds for any bytes, after losses
  too: what is left is shorter than the largest frame, so the guard of
  `_observe_rtcm_quality` against endless buffers never discards anything. `DriftCounted`
  rests on `Anchored`: the reference is the position at which the counter last moved.
  `SummaryInOrder` places the 19th of 20 cut points (`CutPoint`): it lies at or after the
  middle of the window, or is extrapolated beyond its last value.

How the loops are proved. The library's induction theorems cannot be instantiated by the
provers here, but a set of numbers that has 0 and with every number the next one is all of
`Nat` (`SetInduction`, from the library's theorem that `<` is well-founded on `Nat`); a loop,
written as a function of the number of turns, then has its invariant (`LoopRuns`).

The inductive invariants of UDP egress, access, onboarding, base-station tool, directory and
quality pipeline have also been checked by TLC, as invariants of the instances of section 3. Assumptions on constants are limits the code has (queues with a
slot, timeouts that are not zero, a payload no longer than the length field can say, a
header of at least preamble and length), that a stand-in is not one of the values it stands
beside (`None` is neither a time, a record, a key nor a mountpoint, `<<>>` is not a
mountpoint), and that Onboarding has finitely many usernames and the issuers finitely many
`kid`s. The bounds of the instances (`MaxMessages`, `MaxHandles`, `MaxTokens`, `MaxFrames`, ...)
are arbitrary in the proofs.

Only model-checked:

- all liveness, which is out of the prover's reach: `ToldStreamsEnd`,
  `OrphanedRoversReleased`, `AbandonedTransportsReaped`, `SilentSessionsReaped`,
  `ReconnectsUnlessOvertaken`;
- `Resynchronises`, which is not true for every value of the constants: in the instance
  no length and no checksum byte equals the preamble, but in general such a byte can mislead
  the splitter once more after a loss.

## 6. Not modelled

- Text: GGA sentences, the source table (the records of MountpointDirectory in order), UBX
  messages, comments.
- Trigonometry (haversine), bcrypt, signatures, encryption, key encodings: no state.
- Of the UDP egress, frame contents, signing, the signed-frame cache and sequence numbers,
  which this program writes and never reads.
- Service-account tokens and OIDC configuration: one value with an expiry behind one call.
- The metrics collector, which reads the caster in one atomic section.
- The WebSocket session manager, which no route uses; cookies, client session and
  application set-up; deployment and dashboards.

## 7. Plan

All modules of section 2 have their runs, and all but the abstract CorrectionFeed have
proofs. What could still be added are action properties that follow from the invariants
already there: that a subscription which was ended is never served again (Caster), and that
the backlog of spawned coroutines never reopens a session (RTCMDatagramServer); and a bound
like `Resynchronises` in terms of the preambles that occur inside frames.
