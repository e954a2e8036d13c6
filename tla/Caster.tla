------------------------------- MODULE Caster -------------------------------
(***************************************************************************)
(* NTRIPCaster (src/corshub/ntrip/v2/caster.py) with the tasks that share  *)
(* it: the PUT handlers of the base stations (services/v1/ntrip/put.py),   *)
(* the GET handlers of the HTTP rovers (services/v1/ntrip/read.py) and the *)
(* reaper.  One asyncio event loop runs them, so the code between two      *)
(* awaits that suspend is one action; everything else interleaves.         *)
(*                                                                         *)
(* A mountpoint's transport is only present or absent here: what happens   *)
(* inside it is QueueTransport.  sub[r] is "live" while r is on the list   *)
(* of the transport, "closed" once shutdown() took it off, and "ended"     *)
(* when the shutdown() task of its subscription has run.                   *)
(*                                                                         *)
(* stop() cancels the reaper after_server_stop, when no request is left:   *)
(* there is nobody for it to leave behind and it is not an action.         *)
(***************************************************************************)
EXTENDS Naturals, FiniteSets

CONSTANTS Mountpoints,  \* mountpoint names
          Users,        \* rover usernames
          Handlers,     \* PUT requests that may be in progress at once
          Rovers,       \* GET requests that may be in progress at once
          PutTo,        \* PutTo[h]: the mountpoint h publishes to
          GetFrom,      \* GetFrom[r]: the mountpoint r streams from
          UserOf,       \* UserOf[r]: the username r authenticates with
          Expiry        \* the caster's expiry, in clock ticks

ASSUME CasterAssumption ==
    /\ PutTo \in [Handlers -> Mountpoints]
    /\ GetFrom \in [Rovers -> Mountpoints]
    /\ UserOf \in [Rovers -> Users]
    /\ Expiry \in Nat

VARIABLES mountpoints,  \* keys of _mountpoints
          transports,   \* keys of _transports
          silence,      \* silence[m]: ticks since m's last_seen, up to Expiry + 1
          positions,    \* _rover_positions, as <<mountpoint, username>> pairs
          put,          \* where each PUT handler is suspended
          available,    \* available[h]: what h told the policy about its transport
          get,          \* where each GET handler is suspended
          sub,          \* each GET handler's subscription
          closing,      \* the children of gather() that have not run: <<who awaits, rover>>
          reaper,       \* "sleep", or "wait": suspended in a transport's shutdown()
          stale,        \* the rest of the reaper's list
          overlapped    \* history: mountpoints that had two publishers at once

registry == <<mountpoints, transports, silence, positions>>
putVars == <<put, available, overlapped>>
subVars == <<sub, closing>>
getVars == <<get, subVars>>
reapVars == <<reaper, stale>>
vars == <<registry, putVars, getVars, reapVars>>

Init ==
    /\ mountpoints = {}
    /\ transports = {}
    /\ silence = [m \in Mountpoints |-> 0]
    /\ positions = {}
    /\ put = [h \in Handlers |-> "idle"]
    /\ available = [h \in Handlers |-> FALSE]
    /\ get = [r \in Rovers |-> "idle"]
    /\ sub = [r \in Rovers |-> "none"]
    /\ closing = {}
    /\ reaper = "sleep"
    /\ stale = {}
    /\ overlapped = {}

Publishing(h) == put[h] \in {"respond", "stream"}

Subscribed(m) == {r \in Rovers : GetFrom[r] = m /\ sub[r] = "live"}

\* The task of the reaper, which may await gather() as the handlers do.
Reaper == "reaper"

\* transport.shutdown() of every m of ms, awaited by c: the list is emptied, and
\* one shutdown() task per subscriber is scheduled, which tells it to stop.
EndStreamsOf(c, ms) ==
    LET gone == {r \in Rovers : GetFrom[r] \in ms /\ sub[r] = "live"} IN
    /\ sub' = [r \in Rovers |-> IF r \in gone THEN "closed" ELSE sub[r]]
    /\ closing' = closing \cup ({c} \X gone)

\* The shutdown() tasks that c is waiting for.
TasksOf(c) == {t \in closing : t[1] = c}

\* Mutation: every mountpoint's positions are forgotten.
ForgetPositions_All(ms) == positions' = {}

\* self._rover_positions.pop(m, None) for every m of ms.
ForgetPositions(ms) == positions' = {p \in positions : p[1] \notin ms}
-----------------------------------------------------------------------------
(* PUT handlers.                                                            *)

\* Headers, credentials and rate limit are fine: authenticate_base_station()
\* reads available(mountpoint) and awaits the policy.
PutRequest(h) ==
    /\ put[h] = "idle"
    /\ put' = [put EXCEPT ![h] = "policy"]
    /\ available' = [available EXCEPT ![h] = PutTo[h] \in mountpoints \cap transports]
    /\ UNCHANGED <<registry, overlapped, getVars, reapVars>>

\* base_station.rego allows the station: no transport was active when asked.
PolicyAllows(h) ==
    /\ put[h] = "policy"
    /\ ~available[h]
    /\ put' = [put EXCEPT ![h] = "verify"]
    /\ UNCHANGED <<registry, available, overlapped, getVars, reapVars>>

\* The policy denies or OPA cannot be reached; or the password is wrong; or
\* Ntrip-STR or the mountpoint's name is malformed: the request is refused.
PutRefused(h) ==
    /\ put[h] \in {"policy", "verify"}
    /\ put' = [put EXCEPT ![h] = "idle"]
    /\ UNCHANGED <<registry, available, overlapped, getVars, reapVars>>

\* Mutation: a registered mountpoint does not get its transport back.
Register_NoReopen(h) ==
    /\ put[h] = "verify"
    /\ put' = [put EXCEPT ![h] = "respond"]
    /\ mountpoints' = mountpoints \cup {PutTo[h]}
    /\ transports' = IF PutTo[h] \in mountpoints THEN transports
                     ELSE transports \cup {PutTo[h]}
    /\ overlapped' = IF \E g \in Handlers \ {h} : Publishing(g) /\ PutTo[g] = PutTo[h]
                     THEN overlapped \cup {PutTo[h]} ELSE overlapped
    /\ UNCHANGED <<silence, positions, available, getVars, reapVars>>

\* The password matched: register() adds the mountpoint, or reopens the
\* transport of a known one without touching its last_seen; then the handler
\* awaits request.respond().
Register(h) ==
    /\ put[h] = "verify"
    /\ put' = [put EXCEPT ![h] = "respond"]
    /\ mountpoints' = mountpoints \cup {PutTo[h]}
    /\ transports' = transports \cup {PutTo[h]}
    /\ overlapped' = IF \E g \in Handlers \ {h} : Publishing(g) /\ PutTo[g] = PutTo[h]
                     THEN overlapped \cup {PutTo[h]} ELSE overlapped
    /\ UNCHANGED <<silence, positions, available, getVars, reapVars>>

StartStream(h) ==
    /\ put[h] = "respond"
    /\ put' = [put EXCEPT ![h] = "stream"]
    /\ UNCHANGED <<registry, available, overlapped, getVars, reapVars>>

\* respond() fails or its task is cancelled.  It is awaited before the try whose
\* finally clause closes the mountpoint, so the transport stays.
RespondFails(h) ==
    /\ put[h] = "respond"
    /\ put' = [put EXCEPT ![h] = "idle"]
    /\ UNCHANGED <<registry, available, overlapped, getVars, reapVars>>

\* publish() of one chunk; without a transport it returns 0 and does nothing.
Chunk(h) ==
    /\ put[h] = "stream"
    /\ silence' = IF PutTo[h] \in transports
                  THEN [silence EXCEPT ![PutTo[h]] = 0] ELSE silence
    /\ UNCHANGED <<mountpoints, transports, positions, putVars, getVars, reapVars>>

\* Mutation: close() leaves the subscribers waiting.
CloseTransport_Silent(h) ==
    /\ transports' = transports \ {PutTo[h]}
    /\ ForgetPositions({PutTo[h]})
    /\ UNCHANGED subVars

\* close() of h's mountpoint, which has a transport.
CloseTransport(h) ==
    /\ transports' = transports \ {PutTo[h]}
    /\ ForgetPositions({PutTo[h]})
    /\ EndStreamsOf(h, {PutTo[h]})

\* Suspended in gather() when there were subscribers to tell, else done.
AfterClose(h) ==
    put' = [put EXCEPT ![h] = IF Subscribed(PutTo[h]) = {} THEN "idle" ELSE "close"]

\* The request body ends, or the connection is lost: finally: close().
EndStream(h) ==
    /\ put[h] = "stream"
    /\ PutTo[h] \in mountpoints \cap transports
    /\ CloseTransport(h)
    /\ AfterClose(h)
    /\ UNCHANGED <<mountpoints, silence, available, overlapped, get, reapVars>>

\* close() returns at once when the mountpoint is gone, and raises KeyError when
\* it is registered without a transport.  Neither changes anything.
EndStreamNoTransport(h) ==
    /\ put[h] = "stream"
    /\ PutTo[h] \notin mountpoints \cap transports
    /\ put' = [put EXCEPT ![h] = "idle"]
    /\ UNCHANGED <<registry, available, overlapped, getVars, reapVars>>

\* gather() returns when every shutdown() task has run.
CloseReturns(h) ==
    /\ put[h] = "close"
    /\ TasksOf(h) = {}
    /\ put' = [put EXCEPT ![h] = "idle"]
    /\ UNCHANGED <<registry, available, overlapped, getVars, reapVars>>

\* The handler's task is cancelled in gather(), which cancels its children: those
\* that have not started never run, and their subscribers are not told.
CloseCancelled(h) ==
    /\ put[h] = "close"
    /\ TasksOf(h) # {}
    /\ put' = [put EXCEPT ![h] = "idle"]
    /\ closing' = closing \ TasksOf(h)
    /\ UNCHANGED <<registry, available, overlapped, get, sub, reapVars>>

\* A request whose body is not a stream: register, publish a body that is not
\* empty, close, all without suspending before the close's gather().
PutBody(h, empty) ==
    /\ put[h] = "verify"
    /\ mountpoints' = mountpoints \cup {PutTo[h]}
    /\ silence' = IF empty THEN silence ELSE [silence EXCEPT ![PutTo[h]] = 0]
    /\ CloseTransport(h)
    /\ AfterClose(h)
    /\ overlapped' = IF \E g \in Handlers \ {h} : Publishing(g) /\ PutTo[g] = PutTo[h]
                     THEN overlapped \cup {PutTo[h]} ELSE overlapped
    /\ UNCHANGED <<available, get, reapVars>>
-----------------------------------------------------------------------------
(* GET handlers.                                                            *)

GetRequest(r) ==
    /\ get[r] = "idle"
    /\ get' = [get EXCEPT ![r] = "auth"]
    /\ UNCHANGED <<registry, putVars, subVars, reapVars>>

\* Not allowed, mountpoint unknown or unavailable, GGA missing or beyond the
\* mask; or the rover goes before its response stream starts.
GetRefused(r) ==
    /\ get[r] \in {"auth", "open"}
    /\ get' = [get EXCEPT ![r] = "idle"]
    /\ UNCHANGED <<registry, putVars, subVars, reapVars>>

\* Authenticated, and the mountpoint is available at this instant.
GetAccepted(r) ==
    /\ get[r] = "auth"
    /\ GetFrom[r] \in mountpoints \cap transports
    /\ get' = [get EXCEPT ![r] = "open"]
    /\ UNCHANGED <<registry, putVars, subVars, reapVars>>

\* The entry of rover r: positions are keyed by mountpoint, then by username.
Position(r) == <<GetFrom[r], UserOf[r]>>

\* stream_frames() seeds the position from a GGA header, starts the GGA reader
\* and subscribes; subscribe() raises KeyError when the transport has gone.
StreamFrames(r, gga) ==
    /\ get[r] = "open"
    /\ positions' = IF gga THEN positions \cup {Position(r)} ELSE positions
    /\ \/ /\ GetFrom[r] \in transports
          /\ sub' = [sub EXCEPT ![r] = "live"]
          /\ get' = [get EXCEPT ![r] = "stream"]
       \/ /\ GetFrom[r] \notin transports
          /\ get' = [get EXCEPT ![r] = "unwind"]
          /\ UNCHANGED sub
    /\ UNCHANGED <<mountpoints, transports, silence, closing, putVars, reapVars>>

\* The GGA reader stores a position from the request body.
ReadGGA(r) ==
    /\ get[r] = "stream"
    /\ positions' = positions \cup {Position(r)}
    /\ UNCHANGED <<mountpoints, transports, silence, putVars, getVars, reapVars>>

\* The shutdown() task of r's subscription runs: the sentinel is queued.
ShutdownTask(r) ==
    /\ \E t \in closing : t[2] = r
    /\ sub' = [sub EXCEPT ![r] = "ended"]
    /\ closing' = {t \in closing : t[2] # r}
    /\ UNCHANGED <<registry, putVars, get, reapVars>>

\* The loop ends: get() returned None, the session limit expired, or the rover
\* disconnected.  The subscription is left, which leaves nothing to do for a
\* shutdown() task still to run, and the GGA reader is cancelled.
StreamEnds(r) ==
    /\ get[r] = "stream"
    /\ get' = [get EXCEPT ![r] = "unwind"]
    /\ sub' = [sub EXCEPT ![r] = "none"]
    /\ closing' = {t \in closing : t[2] # r}
    /\ UNCHANGED <<registry, putVars, reapVars>>

\* Mutation: the position is cleared only when the stream ended by itself.
Unwound_KeepPosition(r) ==
    /\ get[r] = "unwind"
    /\ get' = [get EXCEPT ![r] = "idle"]
    /\ positions' = IF GetFrom[r] \in transports THEN positions
                    ELSE positions \ {Position(r)}
    /\ UNCHANGED <<mountpoints, transports, silence, putVars, subVars, reapVars>>

\* The cancelled GGA reader has ended: clear_rover_position().
Unwound(r) ==
    /\ get[r] = "unwind"
    /\ get' = [get EXCEPT ![r] = "idle"]
    /\ positions' = positions \ {Position(r)}
    /\ UNCHANGED <<mountpoints, transports, silence, putVars, subVars, reapVars>>
-----------------------------------------------------------------------------
(* The reaper and the clock.                                                *)

\* Mutation: unregister() forgets the mountpoints and keeps their transports.
Unregister_KeepTransport(ms) ==
    /\ mountpoints' = mountpoints \ ms
    /\ silence' = [m \in Mountpoints |-> IF m \in ms THEN 0 ELSE silence[m]]
    /\ ForgetPositions(ms)
    /\ EndStreamsOf(Reaper, ms)
    /\ UNCHANGED transports

\* unregister() of every mountpoint of ms.
Unregister(ms) ==
    /\ mountpoints' = mountpoints \ ms
    /\ silence' = [m \in Mountpoints |-> IF m \in ms THEN 0 ELSE silence[m]]
    /\ transports' = transports \ ms
    /\ ForgetPositions(ms)
    /\ EndStreamsOf(Reaper, ms)

\* for name in list: await unregister(name).  It suspends only in the shutdown()
\* of a transport with subscribers; up to there it is one atomic section.
ReapFrom(list) ==
    \E batch \in SUBSET list :
        /\ Unregister(batch)
        /\ \/ /\ batch = list
              /\ \A m \in batch : Subscribed(m) = {}
              /\ reaper' = "sleep"
              /\ stale' = {}
           \/ /\ Cardinality({m \in batch : Subscribed(m) # {}}) = 1
              /\ reaper' = "wait"
              /\ stale' = list \ batch
        /\ UNCHANGED <<putVars, get>>

\* Mutation: only mountpoints whose transport was closed are looked at.
ReapScan_ClosedOnly ==
    LET silent == {m \in mountpoints \ transports : silence[m] > Expiry} IN
    /\ reaper = "sleep"
    /\ silent # {}
    /\ ReapFrom(silent)

\* _reap() lists the mountpoints that have been silent for too long.
ReapScan ==
    LET silent == {m \in mountpoints : silence[m] > Expiry} IN
    /\ reaper = "sleep"
    /\ silent # {}
    /\ ReapFrom(silent)

\* shutdown() returned: on with the rest of the list, as it was made.
ReapResume ==
    /\ reaper = "wait"
    /\ TasksOf(Reaper) = {}
    /\ ReapFrom(stale)

\* Time passes.  Only whether a silence exceeds Expiry matters, so it saturates.
Tick ==
    /\ silence' = [m \in Mountpoints |->
                      IF m \in mountpoints /\ silence[m] <= Expiry
                      THEN silence[m] + 1 ELSE silence[m]]
    /\ UNCHANGED <<mountpoints, transports, positions, putVars, getVars, reapVars>>

PutStep(h) ==
    \/ PutRequest(h)
    \/ PolicyAllows(h)
    \/ PutRefused(h)
    \/ Register(h)
    \/ StartStream(h)
    \/ RespondFails(h)
    \/ Chunk(h)
    \/ EndStream(h)
    \/ EndStreamNoTransport(h)
    \/ CloseReturns(h)
    \/ CloseCancelled(h)
    \/ \E empty \in BOOLEAN : PutBody(h, empty)

GetStep(r) ==
    \/ GetRequest(r)
    \/ GetRefused(r)
    \/ GetAccepted(r)
    \/ \E gga \in BOOLEAN : StreamFrames(r, gga)
    \/ ReadGGA(r)
    \/ ShutdownTask(r)
    \/ StreamEnds(r)
    \/ Unwound(r)

Next ==
    \/ Tick
    \/ ReapScan
    \/ ReapResume
    \/ \E h \in Handlers : PutStep(h)
    \/ \E r \in Rovers : GetStep(r)

Spec == Init /\ [][Next]_vars

\* The event loop runs every ready task, the clock advances, and an await on a
\* socket or on a task that was cancelled comes back.  Nothing is assumed of the
\* base stations and the rovers: they may stay, go or send nothing for ever.
Fairness ==
    /\ WF_vars(Tick)
    /\ WF_vars(ReapScan)
    /\ WF_vars(ReapResume)
    /\ \A h \in Handlers : WF_vars(StartStream(h) \/ RespondFails(h))
    /\ \A r \in Rovers : /\ WF_vars(ShutdownTask(r))
                         /\ WF_vars(sub[r] = "ended" /\ StreamEnds(r))
                         /\ WF_vars(Unwound(r))

FairSpec == Spec /\ Fairness
-----------------------------------------------------------------------------
TypeOK ==
    /\ mountpoints \subseteq Mountpoints
    /\ transports \subseteq Mountpoints
    /\ silence \in [Mountpoints -> 0..(Expiry + 1)]
    /\ positions \subseteq Mountpoints \X Users
    /\ put \in [Handlers -> {"idle", "policy", "verify", "respond", "stream", "close"}]
    /\ available \in [Handlers -> BOOLEAN]
    /\ get \in [Rovers -> {"idle", "auth", "open", "stream", "unwind"}]
    /\ sub \in [Rovers -> {"none", "live", "closed", "ended"}]
    /\ closing \subseteq (Handlers \cup {Reaper}) \X Rovers
    /\ reaper \in {"sleep", "wait"}
    /\ stale \subseteq Mountpoints
    /\ overlapped \subseteq Mountpoints

\* publish() "Never raises KeyError": it looks up _mountpoints for a mountpoint
\* it found in _transports, so every transport must belong to a registered
\* mountpoint, whoever closes, reopens and reaps in between.
TransportsRegistered == transports \subseteq mountpoints

\* A rover on the list of a transport is on the list of a transport that a base
\* can publish to: whatever takes the transport out of the registry, close() or
\* the reaper, empties its list in the same atomic section.  (Whether those taken
\* off it are told is OrphanedRoversReleased.)
LiveStreamsHaveTransport ==
    \A r \in Rovers : sub[r] = "live" => GetFrom[r] \in transports

\* rover_positions is a "Live view of ... all connected rovers": an entry belongs
\* to a GET handler that has not finished, even when the handler's mountpoint
\* was closed or reaped while its GGA reader went on storing positions.
PositionsOwned ==
    \A p \in positions : \E r \in Rovers :
        p = Position(r) /\ get[r] \in {"stream", "unwind"}

\* A handler that never shared its mountpoint finds it with its transport, or
\* reaped altogether: its close() does not raise KeyError, and it does not
\* publish into a registered mountpoint without a transport.
SoloPublisherKeepsTransport ==
    \A h \in Handlers :
        /\ Publishing(h)
        /\ PutTo[h] \notin overlapped
        /\ PutTo[h] \in mountpoints
        => PutTo[h] \in transports

\* Taken off the list by a close() that was cancelled before it told the rover.
Untold(r) == sub[r] = "closed" /\ \A t \in closing : t[2] # r

\* A rover whose mountpoint lost its transport is released: its handler ends,
\* unless the handler that closed the mountpoint was itself cancelled in gather()
\* before the rover's shutdown() task ran.
OrphanedRoversReleased ==
    \A r \in Rovers :
        (get[r] = "stream" /\ GetFrom[r] \notin transports)
        ~> (get[r] = "idle" \/ Untold(r))

Abandoned(m) ==
    m \in transports /\ \A h \in Handlers : PutTo[h] = m => ~Publishing(h)

\* A transport that lost its handler (respond() failed after register()) does
\* not shut its station out for ever: the reaper removes it in the end.
AbandonedTransportsReaped ==
    \A m \in Mountpoints : Abandoned(m) ~> ~Abandoned(m)

\* get_rover_positions() is "for all rovers with a known position": as long as
\* rovers have usernames of their own, the position of a streaming rover
\* disappears only with its mountpoint's transport.
PositionKeptWhileStreaming ==
    [][\A r \in Rovers :
          Position(r) \in positions /\ get[r] = "stream" /\ get'[r] = "stream"
          => Position(r) \in positions' \/ GetFrom[r] \notin transports']_vars

=============================================================================
