-------------------------- MODULE RTCMDatagramServer --------------------------
(***************************************************************************)
(* The UDP egress of src/corshub/rtcm/udp.py: sessions opened by a Hello,  *)
(* kept alive, re-pointed to another mountpoint and torn down by the       *)
(* rover's datagrams, by the session reaper, by the egress task itself and *)
(* by stop().                                                              *)
(*                                                                         *)
(* One event loop runs everything, so the code between two awaits that     *)
(* suspend is one action.  Switch and Bye datagrams only refresh the       *)
(* session and spawn a coroutine: the loop may read several datagrams in a *)
(* row before the first of these runs.  A Hello spawns its coroutine       *)
(* before it looks at anything, so it is one action.  What a datagram asks *)
(* for is chosen where the code first looks at it.                         *)
(*                                                                         *)
(* Frames are abstracted to the subscription they come from.  etask[s] is  *)
(* the session's current egress task: a running one that has subscribed is *)
(* given by the mountpoint it subscribed to.  A replaced task was          *)
(* cancelled and has no further effect.                                    *)
(***************************************************************************)
EXTENDS Naturals, Sequences, FiniteSets

CONSTANTS Mountpoints,  \* mountpoint names
          Sids,         \* session ids; random 64 bit numbers, each drawn once
          ANY,          \* the wildcard scopes "*" and "NEAREST"
          NEAREST,      \* the mountpoint name that asks for the nearest base
          NoPlace,      \* a datagram without position
          Places,       \* rover positions
          Preference,   \* Preference[p]: the mountpoints in range, nearest first
          Beyond,       \* Beyond[p]: mountpoints whose mask excludes p
          TTL,          \* session_ttl, in clock ticks
          MaxBacklog    \* bound: spawned coroutines that have not run yet

ASSUME ServerAssumption ==
    /\ TTL \in Nat
    /\ MaxBacklog \in Nat
    /\ Preference \in [Places -> Seq(Mountpoints)]
    /\ Beyond \in [Places -> SUBSET Mountpoints]
    /\ \A p \in Places : \A i \in 1..Len(Preference[p]) : Preference[p][i] \notin Beyond[p]
    /\ ANY \notin Mountpoints
    /\ <<>> \notin Mountpoints
    /\ NEAREST \notin Mountpoints
    /\ Mountpoints \cap {"none", "ended", "ready", "told"} = {}
    /\ NoPlace \notin Places

VARIABLES registered,   \* keys of the caster's _mountpoints
          online,       \* keys of the caster's _transports
          positions,    \* the caster's UDP positions, as <<mountpoint, sid>> pairs
          sessions,     \* keys of _sessions
          mountpoint,   \* mountpoint[s]: Session.mountpoint, <<>> before its Hello
          scope,        \* scope[s]: Session.scope
          dynamic,      \* dynamic[s]: Session.dynamic
          silence,      \* silence[s]: ticks since its expiry was set, up to TTL + 1
          etask,        \* etask[s]: the state of Session.task, see Idle and Running
          gauge,        \* metrics.rtcm_udp_sessions
          bg,           \* spawned coroutines that have not started
          reaper,       \* "sleep", "wait": suspended in _teardown(), or "gone"
          stale,        \* the rest of the reaper's list
          server,       \* "running", then the progress of stop()
          draining      \* the rest of stop()'s list

casterVars == <<registered, online>>
profile == <<mountpoint, scope, dynamic>>
lifeVars == <<sessions, gauge, positions>>
reapVars == <<reaper, stale>>
stopVars == <<server, draining>>
vars == <<casterVars, profile, lifeVars, silence, etask, bg, reapVars, stopVars>>

Init ==
    /\ registered = {}
    /\ online = {}
    /\ positions = {}
    /\ sessions = {}
    /\ mountpoint = [s \in Sids |-> <<>>]
    /\ scope = [s \in Sids |-> ANY]
    /\ dynamic = [s \in Sids |-> FALSE]
    /\ silence = [s \in Sids |-> 0]
    /\ etask = [s \in Sids |-> "none"]
    /\ gauge = 0
    /\ bg = <<>>
    /\ reaper = "sleep"
    /\ stale = {}
    /\ server = "running"
    /\ draining = {}

\* No egress task, or one that has finished by itself.
Idle == {"none", "ended"}

\* The egress task of s has not started, or waits for frames of a mountpoint, or
\* is about to get the end of the stream.
Running(s) == etask[s] \in {"ready", "told"} \cup Mountpoints
-----------------------------------------------------------------------------
(* Authorization and resolution.                                            *)

\* Mutation: every token is good for every mountpoint.
ScopeAllows_Any(sc, m) == TRUE

ScopeAllows(sc, m) == sc = ANY \/ sc = m

\* _nearest(): at most one mountpoint, whether or not it has a transport.
Nearest(p) ==
    {m \in registered : \E i \in 1..Len(Preference[p]) :
        /\ Preference[p][i] = m
        /\ \A j \in 1..(i - 1) : Preference[p][j] \notin registered}

\* _resolve_mountpoint(): the mountpoint, or nothing when it raises.
Resolve(sc, requested, p) ==
    LET candidates == IF requested # NEAREST THEN {requested} \cap registered
                      ELSE IF p = NoPlace THEN {} ELSE Nearest(p)
    IN  {m \in candidates : ScopeAllows(sc, m)}

OutOfRange(m, p) == m \in registered /\ m \in Beyond[p]
-----------------------------------------------------------------------------
(* Teardown.                                                                *)

\* Mutation: the position stays.
Teardown_KeepPositions(batch) ==
    LET known == batch \cap sessions IN
    /\ sessions' = sessions \ known
    /\ gauge' = gauge - Cardinality(known)
    /\ etask' = [s \in Sids |-> IF s \in known THEN "none" ELSE etask[s]]
    /\ UNCHANGED positions

\* Mutation: the gauge is decremented even if the session was already gone.
Teardown_GaugeDrift(batch) ==
    LET known == batch \cap sessions IN
    /\ sessions' = sessions \ known
    /\ gauge' = gauge - Cardinality(batch)
    /\ positions' = positions \ {<<mountpoint[s], s>> : s \in known}
    /\ etask' = [s \in Sids |-> IF s \in known THEN "none" ELSE etask[s]]

\* _teardown() of each session of batch, up to the await of its cancelled task.
Teardown(batch) ==
    LET known == batch \cap sessions IN
    /\ sessions' = sessions \ known
    /\ gauge' = gauge - Cardinality(known)
    /\ positions' = positions \ {<<mountpoint[s], s>> : s \in known}
    /\ etask' = [s \in Sids |-> IF s \in known THEN "none" ELSE etask[s]]

\* for session in list: await self._teardown(session).  It suspends only on the
\* task of a session that was still known; up to there it is one atomic section.
TeardownFrom(list, batch) ==
    /\ Teardown(batch)
    /\ LET awaited == {s \in batch \cap sessions : Running(s)}
       IN  IF batch = list THEN Cardinality(awaited) <= 1 ELSE Cardinality(awaited) = 1

\* The loop over list ends with this batch, without suspending.
Finishes(list, batch) == batch = list /\ \A s \in batch \cap sessions : ~Running(s)
-----------------------------------------------------------------------------
(* Datagrams.                                                               *)

Spawn(job) ==
    /\ Len(bg) < MaxBacklog
    /\ bg' = Append(bg, job)

\* Mutation: the egress task is not restarted.
Repoint_KeepTask(s, m) ==
    /\ mountpoint' = [mountpoint EXCEPT ![s] = m]
    /\ UNCHANGED etask

Repoint(s, m) ==
    IF m = mountpoint[s] THEN UNCHANGED <<mountpoint, etask>>
    ELSE /\ mountpoint' = [mountpoint EXCEPT ![s] = m]
         /\ etask' = [etask EXCEPT ![s] = "ready"]

\* A Hello with a valid token of scope sc is accepted.
Hello(s, sc, requested, p) ==
    /\ server # "stopped"
    /\ mountpoint[s] = <<>>
    /\ \E m \in Resolve(sc, requested, p) : mountpoint' = [mountpoint EXCEPT ![s] = m]
    /\ sessions' = sessions \cup {s}
    /\ scope' = [scope EXCEPT ![s] = sc]
    /\ dynamic' = [dynamic EXCEPT ![s] = (requested = NEAREST)]
    /\ gauge' = gauge + 1
    /\ etask' = [etask EXCEPT ![s] = "ready"]
    /\ UNCHANGED <<casterVars, positions, silence, bg, reapVars, stopVars>>

\* Any other datagram of a known session puts its deadline off.
Refresh(s) ==
    /\ server # "stopped"
    /\ s \in sessions
    /\ silence' = [silence EXCEPT ![s] = 0]
    /\ UNCHANGED <<casterVars, sessions, gauge, scope, dynamic, reapVars, stopVars>>

KeepAlive(s) ==
    /\ Refresh(s)
    /\ UNCHANGED <<positions, mountpoint, etask, bg>>

\* A KeepAlive with a position is stored under the current mountpoint; a dynamic
\* session then follows the nearest base or is evicted when there is none, a
\* pinned one is evicted beyond its mountpoint's mask.
KeepAliveAt(s, p) ==
    /\ Refresh(s)
    /\ positions' = positions \cup {<<mountpoint[s], s>>}
    /\ \/ /\ IF dynamic[s] THEN Nearest(p) = {} ELSE OutOfRange(mountpoint[s], p)
          /\ Spawn(<<"teardown", s>>)
          /\ UNCHANGED <<mountpoint, etask>>
       \/ /\ dynamic[s]
          /\ \E m \in Nearest(p) : IF ScopeAllows(scope[s], m) THEN Repoint(s, m)
                                   ELSE UNCHANGED <<mountpoint, etask>>
          /\ UNCHANGED bg
       \/ /\ ~dynamic[s]
          /\ ~OutOfRange(mountpoint[s], p)
          /\ UNCHANGED <<mountpoint, etask, bg>>

SwitchMountpoint(s) ==
    /\ Refresh(s)
    /\ Spawn(<<"switch", s>>)
    /\ UNCHANGED <<positions, mountpoint, etask>>

Bye(s) ==
    /\ Refresh(s)
    /\ Spawn(<<"teardown", s>>)
    /\ UNCHANGED <<positions, mountpoint, etask>>
-----------------------------------------------------------------------------
(* Spawned coroutines, in the order in which they were spawned.             *)

\* _on_switch(): it holds the Session object, whatever became of the session.
OnSwitch(requested, p) ==
    /\ bg # <<>>
    /\ Head(bg)[1] = "switch"
    /\ bg' = Tail(bg)
    /\ LET s == Head(bg)[2]
           to == Resolve(scope[s], requested, p)
       IN  \/ /\ to = {}
              /\ UNCHANGED <<dynamic, mountpoint, etask>>
           \/ /\ \E m \in to : Repoint(s, m)
              /\ dynamic' = [dynamic EXCEPT ![s] = (requested = NEAREST)]
    /\ UNCHANGED <<casterVars, scope, lifeVars, silence, reapVars, stopVars>>

\* _teardown() for a Bye, or _evict().
RunTeardown ==
    /\ bg # <<>>
    /\ Head(bg)[1] = "teardown"
    /\ bg' = Tail(bg)
    /\ Teardown({Head(bg)[2]})
    /\ UNCHANGED <<casterVars, profile, silence, reapVars, stopVars>>
-----------------------------------------------------------------------------
(* Egress tasks.                                                            *)

\* subscribe() finds the transport and the task waits for frames.
EgressSubscribes(s) ==
    /\ etask[s] = "ready"
    /\ mountpoint[s] \in online
    /\ etask' = [etask EXCEPT ![s] = mountpoint[s]]
    /\ UNCHANGED <<casterVars, profile, lifeVars, silence, bg, reapVars, stopVars>>

\* subscribe() raises KeyError: an Error is sent and the session torn down by its
\* own task, if it was not already.
EgressUnavailable(s) ==
    /\ etask[s] = "ready"
    /\ mountpoint[s] \notin online
    /\ \/ s \in sessions /\ Teardown({s})
       \/ /\ s \notin sessions
          /\ etask' = [etask EXCEPT ![s] = "ended"]
          /\ UNCHANGED lifeVars
    /\ UNCHANGED <<casterVars, profile, silence, bg, reapVars, stopVars>>

\* get() returned None.  Nothing else happens: the session stays.
EgressEnds(s) ==
    /\ etask[s] = "told"
    /\ etask' = [etask EXCEPT ![s] = "ended"]
    /\ UNCHANGED <<casterVars, profile, lifeVars, silence, bg, reapVars, stopVars>>
-----------------------------------------------------------------------------
(* The reaper, the clock and stop().                                        *)

ReapFrom(list) ==
    \E batch \in SUBSET list :
        /\ TeardownFrom(list, batch)
        /\ reaper' = IF Finishes(list, batch) THEN "sleep" ELSE "wait"
        /\ stale' = list \ batch
        /\ UNCHANGED <<casterVars, profile, silence, bg, stopVars>>

\* Mutation: only sessions whose egress has ended are looked at.
ReapScan_EndedOnly ==
    LET silent == {s \in sessions : silence[s] > TTL /\ ~Running(s)} IN
    /\ reaper = "sleep"
    /\ silent # {}
    /\ ReapFrom(silent)

\* _reap_loop() lists the sessions whose deadline has passed.
ReapScan ==
    LET silent == {s \in sessions : silence[s] > TTL} IN
    /\ reaper = "sleep"
    /\ silent # {}
    /\ ReapFrom(silent)

\* The cancelled task has ended: on with the rest of the list, as it was made.
ReapResume ==
    /\ reaper = "wait"
    /\ ReapFrom(stale)

\* Time passes.  Only whether a silence exceeds TTL matters, so it saturates.
Tick ==
    /\ silence' = [s \in Sids |-> IF s \in sessions /\ silence[s] <= TTL
                                  THEN silence[s] + 1 ELSE silence[s]]
    /\ UNCHANGED <<casterVars, profile, lifeVars, etask, bg, reapVars, stopVars>>

\* stop() cancels the reaper and awaits it.  A sleeping reaper ends.  One that is
\* suspended in _teardown() swallows the cancellation, which cannot be told from
\* that of the egress task it awaits, and loops on.
StopBegins ==
    /\ server = "running"
    /\ server' = "stopping"
    /\ reaper' = IF reaper = "sleep" THEN "gone" ELSE reaper
    /\ UNCHANGED <<casterVars, profile, lifeVars, silence, etask, bg, stale, draining>>

\* The sessions of the list are torn down; after the last, the spawned coroutines
\* are cancelled and the socket is closed.
DrainFrom(list) ==
    \E batch \in SUBSET list :
        /\ TeardownFrom(list, batch)
        /\ server' = IF Finishes(list, batch) THEN "stopped" ELSE "draining"
        /\ bg' = IF Finishes(list, batch) THEN <<>> ELSE bg
        /\ draining' = list \ batch
        /\ UNCHANGED <<casterVars, profile, silence, reapVars>>

StopDrains ==
    /\ server = "stopping"
    /\ reaper = "gone"
    /\ DrainFrom(sessions)

StopResumes ==
    /\ server = "draining"
    /\ DrainFrom(draining)
-----------------------------------------------------------------------------
(* The caster, as far as the UDP sessions see it (see Caster).              *)

BaseConnects(m) ==
    /\ m \notin online
    /\ registered' = registered \cup {m}
    /\ online' = online \cup {m}
    /\ UNCHANGED <<profile, lifeVars, silence, etask, bg, reapVars, stopVars>>

\* shutdown() of m's transport, and its positions forgotten.
LoseTransport(m) ==
    /\ online' = online \ {m}
    /\ positions' = {q \in positions : q[1] # m}
    /\ etask' = [s \in Sids |-> IF etask[s] = m THEN "told" ELSE etask[s]]
    /\ UNCHANGED <<profile, sessions, gauge, silence, bg, reapVars, stopVars>>

BaseLeaves(m) ==
    /\ m \in online
    /\ LoseTransport(m)
    /\ UNCHANGED registered

Unregister(m) ==
    /\ m \in registered
    /\ LoseTransport(m)
    /\ registered' = registered \ {m}
-----------------------------------------------------------------------------
Requests == Mountpoints \cup {NEAREST}
MaybePlaces == Places \cup {NoPlace}
Scopes == Mountpoints \cup {ANY}

Datagram(s) ==
    \/ \E sc \in Scopes, q \in Requests, p \in MaybePlaces : Hello(s, sc, q, p)
    \/ KeepAlive(s)
    \/ \E p \in Places : KeepAliveAt(s, p)
    \/ SwitchMountpoint(s)
    \/ Bye(s)

Egress(s) ==
    \/ EgressSubscribes(s)
    \/ EgressUnavailable(s)
    \/ EgressEnds(s)

RunSpawned ==
    \/ \E q \in Requests, p \in MaybePlaces : OnSwitch(q, p)
    \/ RunTeardown

Base(m) ==
    \/ BaseConnects(m)
    \/ BaseLeaves(m)
    \/ Unregister(m)

Next ==
    \/ \E s \in Sids : Datagram(s) \/ Egress(s)
    \/ \E m \in Mountpoints : Base(m)
    \/ RunSpawned
    \/ ReapScan
    \/ ReapResume
    \/ Tick
    \/ StopBegins
    \/ StopDrains
    \/ StopResumes

Spec == Init /\ [][Next]_vars

\* The event loop runs every ready task and the clock advances.  Nothing is
\* assumed of the rovers, of the bases, nor that stop() is ever called.
Fairness ==
    /\ WF_vars(Tick)
    /\ WF_vars(ReapScan)
    /\ WF_vars(ReapResume)
    /\ WF_vars(RunSpawned)
    /\ WF_vars(StopDrains)
    /\ WF_vars(StopResumes)
    /\ \A s \in Sids : WF_vars(Egress(s))

FairSpec == Spec /\ Fairness
-----------------------------------------------------------------------------
TypeOK ==
    /\ registered \subseteq Mountpoints
    /\ online \subseteq registered
    /\ positions \subseteq Mountpoints \X Sids
    /\ sessions \subseteq Sids
    /\ mountpoint \in [Sids -> Mountpoints \cup {<<>>}]
    /\ scope \in [Sids -> Scopes]
    /\ dynamic \in [Sids -> BOOLEAN]
    /\ silence \in [Sids -> 0..(TTL + 1)]
    /\ etask \in [Sids -> Idle \cup {"ready", "told"} \cup Mountpoints]
    /\ gauge \in Nat
    /\ bg \in Seq({"switch", "teardown"} \X Sids)
    /\ Len(bg) <= MaxBacklog
    /\ reaper \in {"sleep", "wait", "gone"}
    /\ stale \subseteq Sids
    /\ server \in {"running", "stopping", "draining", "stopped"}
    /\ draining \subseteq Sids

\* "keep the sessions gauge from drifting": the gauge is the number of sessions,
\* however many of Bye, eviction, reaper, egress task and stop() tear one down.
GaugeCounts == gauge = Cardinality(sessions)

\* A session only ever streams, and is only ever pointed at, what its token
\* authorizes: through Hello, switches and keepalive handoffs, late ones too.
ScopeRespected ==
    \A s \in Sids : mountpoint[s] # <<>> => scope[s] \in {ANY, mountpoint[s]}

\* Frames are labelled and signed with Session.mountpoint, and come from the
\* mountpoint the task subscribed to: they are the same, whatever switches and
\* handoffs happen meanwhile.
LabelMatches == \A s \in Sids : etask[s] \in Mountpoints => etask[s] = mountpoint[s]

\* A session whose token names one mountpoint leaves nothing behind: once it is
\* torn down it has no egress task and no tracked position.
ScopedSessionsClean ==
    \A s \in Sids \ sessions : scope[s] # ANY =>
        /\ ~Running(s)
        /\ \A m \in Mountpoints : <<m, s>> \notin positions

\* "The caster also expires a session after session_ttl_s of silence": a silent
\* session is torn down, unless a datagram arrives or the server is stopped.
SilentSessionsReaped ==
    \A s \in Sids :
        (s \in sessions /\ silence[s] > TTL)
        ~> (s \notin sessions \/ silence[s] = 0 \/ server # "running")

\* "close it and drain sessions in after_server_stop": stop() comes to its end.
StopReturns == server = "stopping" ~> server = "stopped"
=============================================================================
