----------------------- MODULE RTCMDatagramServerProofs -----------------------
(***************************************************************************)
(* Proofs about RTCMDatagramServer for any mountpoints, session ids,       *)
(* places, session_ttl and backlog of spawned coroutines.                  *)
(***************************************************************************)
EXTENDS RTCMDatagramServer, FiniteSetTheorems, TLAPS

\* What a session leaves traces in knows its mountpoint: the Session object was
\* made by a Hello, whatever became of the session since.
SessionsKnown ==
    /\ IsFiniteSet(sessions)
    /\ \A s \in sessions : mountpoint[s] # <<>>
    /\ \A i \in 1..Len(bg) : mountpoint[bg[i][2]] # <<>>

\* A position is tracked for a session that was opened, and for a pinned one
\* under the mountpoint of its token.
PositionsPinned ==
    \A m \in Mountpoints, s \in Sids :
        <<m, s>> \in positions => mountpoint[s] # <<>> /\ scope[s] \in {ANY, m}

\* The inductive invariant.
IInv ==
    /\ TypeOK
    /\ SessionsKnown
    /\ GaugeCounts
    /\ ScopeRespected
    /\ LabelMatches
    /\ PositionsPinned
    /\ ScopedSessionsClean
-----------------------------------------------------------------------------
(* What the helpers return.                                                 *)

\* _resolve_mountpoint() gives a registered mountpoint that the scope allows.
LEMMA ResolveSound ==
    ASSUME NEW sc, NEW q, NEW p, NEW m \in Resolve(sc, q, p)
    PROVE  m \in registered /\ (sc = ANY \/ sc = m)
  BY DEF Resolve, Nearest, ScopeAllows

\* _nearest() gives a registered mountpoint.
LEMMA NearestSound ==
    ASSUME NEW p, NEW m \in Nearest(p)
    PROVE  m \in registered
  BY DEF Nearest

\* What Repoint does to the two variables it assigns.
LEMMA RepointEffect ==
    ASSUME TypeOK, NEW s \in Sids, NEW m \in Mountpoints, Repoint(s, m)
    PROVE  /\ mountpoint' = [mountpoint EXCEPT ![s] = m]
           /\ etask' = IF m = mountpoint[s] THEN etask
                       ELSE [etask EXCEPT ![s] = "ready"]
  BY DEF Repoint, TypeOK

\* Repointing keeps the types.
LEMMA RepointTypes ==
    ASSUME TypeOK, NEW s \in Sids, NEW m \in Mountpoints, Repoint(s, m)
    PROVE  /\ mountpoint' \in [Sids -> Mountpoints \cup {<<>>}]
           /\ etask' \in [Sids -> Idle \cup {"ready", "told"} \cup Mountpoints]
<1>1. CASE m = mountpoint[s]
  BY <1>1 DEF Repoint, TypeOK
<1>2. CASE m # mountpoint[s]
  BY <1>2 DEF Repoint, TypeOK
<1> QED BY <1>1, <1>2

\* Spawning keeps the type of the backlog, and what held for its jobs.
LEMMA SpawnEffect ==
    ASSUME TypeOK, NEW kind \in {"switch", "teardown"}, NEW s \in Sids,
           Spawn(<<kind, s>>)
    PROVE  /\ bg' \in Seq({"switch", "teardown"} \X Sids)
           /\ Len(bg') <= MaxBacklog
           /\ \A i \in 1..Len(bg') : bg'[i][2] = s \/ (i \in 1..Len(bg) /\ bg'[i] = bg[i])
<1> DEFINE J == {"switch", "teardown"} \X Sids
<1>1. bg \in Seq(J) /\ <<kind, s>> \in J /\ Len(bg) \in Nat
  BY DEF TypeOK
<1>2. bg' = Append(bg, <<kind, s>>) /\ Len(bg) < MaxBacklog
  BY DEF Spawn
<1> HIDE DEF J
<1>3. bg' \in Seq(J) /\ Len(bg') = Len(bg) + 1
  BY <1>1, <1>2
<1>4. \A i \in 1..Len(bg') : bg'[i] = IF i = Len(bg) + 1 THEN <<kind, s>> ELSE bg[i]
  BY <1>1, <1>2
<1>5. Len(bg') <= MaxBacklog
  BY <1>1, <1>2, <1>3, ServerAssumption
<1>6. ASSUME NEW i \in 1..Len(bg') PROVE bg'[i][2] = s \/ (i \in 1..Len(bg) /\ bg'[i] = bg[i])
  <2>1. CASE i = Len(bg) + 1
    BY <1>4, <2>1
  <2>2. CASE i # Len(bg) + 1
    BY <1>1, <1>3, <1>4, <2>2
  <2> QED BY <2>1, <2>2
<1> QED BY <1>3, <1>5, <1>6 DEF J

\* The job that runs next, and the rest of the backlog.
LEMMA RunEffect ==
    ASSUME TypeOK, bg # <<>>, bg' = Tail(bg)
    PROVE  /\ Head(bg) = bg[1] /\ 1 \in 1..Len(bg) /\ bg[1][2] \in Sids
           /\ bg' \in Seq({"switch", "teardown"} \X Sids)
           /\ Len(bg') <= MaxBacklog
           /\ \A i \in 1..Len(bg') : i + 1 \in 1..Len(bg) /\ bg'[i] = bg[i + 1]
<1> DEFINE J == {"switch", "teardown"} \X Sids
<1>1. bg \in Seq(J) /\ Len(bg) <= MaxBacklog
  BY DEF TypeOK
<1>a. \A j \in J : j[2] \in Sids
  OBVIOUS
<1> HIDE DEF J
<1>2. /\ Len(bg) \in Nat /\ Len(bg) # 0 /\ Head(bg) = bg[1]
      /\ bg' \in Seq(J) /\ Len(bg') = Len(bg) - 1
      /\ \A i \in 1..Len(bg') : bg'[i] = bg[i + 1]
  BY <1>1
<1>3. 1 \in 1..Len(bg) /\ bg[1] \in J
  BY <1>1, <1>2
<1>4. Len(bg') <= MaxBacklog
  BY <1>1, <1>2, ServerAssumption
<1>5. \A i \in 1..Len(bg') : i + 1 \in 1..Len(bg)
  BY <1>2
<1> QED BY <1>2, <1>3, <1>4, <1>5, <1>a DEF J

\* A teardown takes the sessions that are still known from the dictionary and
\* exactly that many from the gauge.
LEMMA TeardownCounts ==
    ASSUME IsFiniteSet(sessions), GaugeCounts, NEW batch, Teardown(batch)
    PROVE  IsFiniteSet(sessions') /\ GaugeCounts'
<1>1. /\ IsFiniteSet(sessions \ (batch \cap sessions))
      /\ Cardinality(sessions \ (batch \cap sessions))
            = Cardinality(sessions) - Cardinality(sessions \cap (batch \cap sessions))
  BY FS_Difference
<1>2. sessions \cap (batch \cap sessions) = batch \cap sessions
  OBVIOUS
<1> QED BY <1>1, <1>2 DEF Teardown, GaugeCounts
-----------------------------------------------------------------------------
(* Which steps touch what.                                                  *)

\* The steps that end sessions do it with Teardown.
Ends == \E batch : Teardown(batch)

\* A Hello opens session s on m with a token of scope sc.
Opens(s, m, sc) ==
    /\ mountpoint[s] = <<>>
    /\ mountpoint' = [mountpoint EXCEPT ![s] = m]
    /\ scope' = [scope EXCEPT ![s] = sc]
    /\ etask' = [etask EXCEPT ![s] = "ready"]
    /\ sessions' = sessions \cup {s} /\ gauge' = gauge + 1
    /\ UNCHANGED <<positions, bg>>

\* A handoff or a switch points s, opened before, to m, within its scope.
Moves(s, m) ==
    /\ mountpoint[s] # <<>>
    /\ scope[s] \in {ANY, m}
    /\ Repoint(s, m)
    /\ UNCHANGED <<scope, sessions>>

\* Sessions and gauge change when a Hello is accepted or a session torn down.
LEMMA CountFrame ==
    ASSUME TypeOK, [Next]_vars
    PROVE  \/ UNCHANGED <<sessions, gauge>>
           \/ \E s \in Sids, m \in Mountpoints : \E sc \in {ANY, m} : Opens(s, m, sc)
           \/ Ends
<1> DEFINE Goal == \/ UNCHANGED <<sessions, gauge>>
                   \/ \E s \in Sids, m \in Mountpoints :
                         \E sc \in {ANY, m} : Opens(s, m, sc)
                   \/ Ends
<1> SUFFICES Goal
  OBVIOUS
<1> USE DEF casterVars, profile, lifeVars, reapVars, stopVars
<1>1. ASSUME NEW s \in Sids, NEW sc \in Scopes, NEW q \in Requests, NEW p \in MaybePlaces, Hello(s, sc, q, p)
      PROVE  Goal
  <2>1. PICK m \in Resolve(sc, q, p) : mountpoint' = [mountpoint EXCEPT ![s] = m]
    BY <1>1 DEF Hello
  <2>2. m \in Mountpoints /\ sc \in {ANY, m}
    BY ResolveSound DEF TypeOK
  <2>3. Opens(s, m, sc)
    BY <1>1, <2>1 DEF Hello, Opens
  <2> QED BY <2>2, <2>3
<1>2. ASSUME NEW s \in Sids, KeepAlive(s)
      PROVE  Goal
  BY <1>2 DEF KeepAlive, Refresh
<1>3. ASSUME NEW s \in Sids, NEW p \in Places, KeepAliveAt(s, p)
      PROVE  Goal
  BY <1>3 DEF KeepAliveAt, Refresh
<1>4. ASSUME NEW s \in Sids, SwitchMountpoint(s)
      PROVE  Goal
  BY <1>4 DEF SwitchMountpoint, Refresh
<1>5. ASSUME NEW s \in Sids, Bye(s)
      PROVE  Goal
  BY <1>5 DEF Bye, Refresh
<1>6. ASSUME NEW s \in Sids, EgressSubscribes(s)
      PROVE  Goal
  BY <1>6 DEF EgressSubscribes
<1>7. ASSUME NEW s \in Sids, EgressUnavailable(s)
      PROVE  Goal
  BY <1>7 DEF EgressUnavailable, Ends
<1>8. ASSUME NEW s \in Sids, EgressEnds(s)
      PROVE  Goal
  BY <1>8 DEF EgressEnds
<1>9. ASSUME NEW m \in Mountpoints, BaseConnects(m)
      PROVE  Goal
  BY <1>9 DEF BaseConnects
<1>10. ASSUME NEW m \in Mountpoints, BaseLeaves(m)
      PROVE  Goal
  BY <1>10 DEF BaseLeaves, LoseTransport
<1>11. ASSUME NEW m \in Mountpoints, Unregister(m)
      PROVE  Goal
  BY <1>11 DEF Unregister, LoseTransport
<1>12. ASSUME NEW q \in Requests, NEW p \in MaybePlaces, OnSwitch(q, p)
      PROVE  Goal
  BY <1>12 DEF OnSwitch
<1>13. CASE RunTeardown
  BY <1>13 DEF RunTeardown, Ends
<1>14. CASE ReapScan
  BY <1>14 DEF ReapScan, ReapFrom, TeardownFrom, Ends
<1>15. CASE ReapResume
  BY <1>15 DEF ReapResume, ReapFrom, TeardownFrom, Ends
<1>16. CASE Tick
  BY <1>16 DEF Tick
<1>17. CASE StopBegins
  BY <1>17 DEF StopBegins
<1>18. CASE StopDrains
  BY <1>18 DEF StopDrains, DrainFrom, TeardownFrom, Ends
<1>19. CASE StopResumes
  BY <1>19 DEF StopResumes, DrainFrom, TeardownFrom, Ends
<1>20. CASE UNCHANGED vars
  BY <1>20 DEF vars
<1> QED
  BY <1>1, <1>2, <1>3, <1>4, <1>5, <1>6, <1>7, <1>8, <1>9, <1>10, <1>11,
     <1>12, <1>13, <1>14, <1>15, <1>16, <1>17, <1>18, <1>19, <1>20
  DEF Next, Datagram, Egress, Base, RunSpawned

\* The gauge counts the sessions after every step.
LEMMA StepGauge ==
    ASSUME TypeOK, SessionsKnown, GaugeCounts, [Next]_vars
    PROVE  IsFiniteSet(sessions') /\ GaugeCounts'
<1>1. IsFiniteSet(sessions)
  BY DEF SessionsKnown
<1>2. CASE UNCHANGED <<sessions, gauge>>
  BY <1>1, <1>2 DEF GaugeCounts
<1>3. ASSUME NEW s \in Sids, NEW m, NEW sc, Opens(s, m, sc)
      PROVE  IsFiniteSet(sessions') /\ GaugeCounts'
  <2>1. s \notin sessions
    BY <1>3 DEF SessionsKnown, Opens
  <2>2. /\ IsFiniteSet(sessions \cup {s})
        /\ Cardinality(sessions \cup {s}) = Cardinality(sessions) + 1
    BY <1>1, <2>1, FS_AddElement
  <2> QED BY <1>3, <2>2 DEF GaugeCounts, Opens
<1>4. CASE Ends
  BY <1>1, <1>4, TeardownCounts DEF Ends
<1> QED BY <1>2, <1>3, <1>4, CountFrame

\* Every step preserves the types.
LEMMA StepTypeOK ==
    ASSUME TypeOK, SessionsKnown, GaugeCounts, [Next]_vars
    PROVE  TypeOK'
<1> USE ServerAssumption DEF casterVars, profile, lifeVars, reapVars, stopVars, Scopes
<1>a. gauge' \in Nat
  <2>1. IsFiniteSet(sessions') /\ GaugeCounts'
    BY StepGauge
  <2> QED BY <2>1, FS_CardinalityType DEF GaugeCounts
<1>b. \A s \in sessions : mountpoint[s] \in Mountpoints
  BY DEF TypeOK, SessionsKnown
<1>1. ASSUME NEW s \in Sids, NEW sc \in Scopes, NEW q \in Requests, NEW p \in MaybePlaces, Hello(s, sc, q, p)
      PROVE  TypeOK'
  <2>1. PICK m \in Resolve(sc, q, p) : mountpoint' = [mountpoint EXCEPT ![s] = m]
    BY <1>1 DEF Hello
  <2>2. m \in Mountpoints
    BY ResolveSound DEF TypeOK
  <2> QED BY <1>1, <1>a, <2>1, <2>2 DEF Hello, TypeOK, Idle
<1>2. ASSUME NEW s \in Sids, KeepAlive(s)
      PROVE  TypeOK'
  BY <1>2, <1>a DEF KeepAlive, Refresh, TypeOK
<1>3. ASSUME NEW s \in Sids, NEW p \in Places, KeepAliveAt(s, p)
      PROVE  TypeOK'
  <2>1. s \in sessions /\ mountpoint[s] \in Mountpoints
    BY <1>3, <1>b DEF KeepAliveAt, Refresh
  <2>2. bg' \in Seq({"switch", "teardown"} \X Sids) /\ Len(bg') <= MaxBacklog
    BY <1>3, SpawnEffect DEF KeepAliveAt, TypeOK
  <2>3. /\ mountpoint' \in [Sids -> Mountpoints \cup {<<>>}]
        /\ etask' \in [Sids -> Idle \cup {"ready", "told"} \cup Mountpoints]
    <3>1. \/ UNCHANGED <<mountpoint, etask>>
          \/ \E m \in Nearest(p) : Repoint(s, m)
      BY <1>3 DEF KeepAliveAt
    <3>2. ASSUME NEW m \in Nearest(p), Repoint(s, m)
          PROVE  /\ mountpoint' \in [Sids -> Mountpoints \cup {<<>>}]
                 /\ etask' \in [Sids -> Idle \cup {"ready", "told"} \cup Mountpoints]
      <4>1. m \in Mountpoints
        BY NearestSound DEF TypeOK
      <4> QED BY <3>2, <4>1, RepointTypes
    <3> QED BY <3>1, <3>2 DEF TypeOK
  <2>4. positions' \subseteq Mountpoints \X Sids
    BY <1>3, <2>1 DEF KeepAliveAt, TypeOK
  <2>5. silence' \in [Sids -> 0..(TTL + 1)]
    BY <1>3 DEF KeepAliveAt, Refresh, TypeOK
  <2> QED BY <1>3, <1>a, <2>2, <2>3, <2>4, <2>5 DEF KeepAliveAt, Refresh, TypeOK
<1>4. ASSUME NEW s \in Sids, SwitchMountpoint(s)
      PROVE  TypeOK'
  <2>1. bg' \in Seq({"switch", "teardown"} \X Sids) /\ Len(bg') <= MaxBacklog
    BY <1>4, SpawnEffect DEF SwitchMountpoint
  <2> QED BY <1>4, <1>a, <2>1 DEF SwitchMountpoint, Refresh, TypeOK
<1>5. ASSUME NEW s \in Sids, Bye(s)
      PROVE  TypeOK'
  <2>1. bg' \in Seq({"switch", "teardown"} \X Sids) /\ Len(bg') <= MaxBacklog
    BY <1>5, SpawnEffect DEF Bye
  <2> QED BY <1>5, <1>a, <2>1 DEF Bye, Refresh, TypeOK
<1>6. ASSUME NEW s \in Sids, EgressSubscribes(s)
      PROVE  TypeOK'
  BY <1>6, <1>a DEF EgressSubscribes, TypeOK, Idle
<1>7. ASSUME NEW s \in Sids, EgressUnavailable(s)
      PROVE  TypeOK'
  BY <1>7, <1>a DEF EgressUnavailable, Teardown, TypeOK, Idle
<1>8. ASSUME NEW s \in Sids, EgressEnds(s)
      PROVE  TypeOK'
  BY <1>8, <1>a DEF EgressEnds, TypeOK, Idle
<1>9. ASSUME NEW m \in Mountpoints, BaseConnects(m)
      PROVE  TypeOK'
  BY <1>9, <1>a DEF BaseConnects, TypeOK
<1>10. ASSUME NEW m \in Mountpoints, BaseLeaves(m)
      PROVE  TypeOK'
  BY <1>10, <1>a DEF BaseLeaves, LoseTransport, TypeOK
<1>11. ASSUME NEW m \in Mountpoints, Unregister(m)
      PROVE  TypeOK'
  BY <1>11, <1>a DEF Unregister, LoseTransport, TypeOK
<1>12. ASSUME NEW q \in Requests, NEW p \in MaybePlaces, OnSwitch(q, p)
      PROVE  TypeOK'
  <2> DEFINE s == bg[1][2]
  <2>1. /\ s \in Sids /\ Head(bg) = bg[1]
        /\ bg' \in Seq({"switch", "teardown"} \X Sids)
        /\ Len(bg') <= MaxBacklog
    BY <1>12, RunEffect DEF OnSwitch
  <2>2. /\ mountpoint' \in [Sids -> Mountpoints \cup {<<>>}]
        /\ etask' \in [Sids -> Idle \cup {"ready", "told"} \cup Mountpoints]
        /\ dynamic' \in [Sids -> BOOLEAN]
    <3>1. \/ UNCHANGED <<dynamic, mountpoint, etask>>
          \/ /\ \E m \in Resolve(scope[s], q, p) : Repoint(s, m)
             /\ dynamic' = [dynamic EXCEPT ![s] = (q = NEAREST)]
      BY <1>12, <2>1 DEF OnSwitch
    <3>2. ASSUME NEW m \in Resolve(scope[s], q, p), Repoint(s, m)
          PROVE  /\ mountpoint' \in [Sids -> Mountpoints \cup {<<>>}]
                 /\ etask' \in [Sids -> Idle \cup {"ready", "told"} \cup Mountpoints]
      <4>1. m \in Mountpoints
        BY ResolveSound DEF TypeOK
      <4> QED BY <2>1, <3>2, <4>1, RepointTypes
    <3>3. [dynamic EXCEPT ![s] = (q = NEAREST)] \in [Sids -> BOOLEAN]
      BY DEF TypeOK
    <3> QED BY <3>1, <3>2, <3>3 DEF TypeOK
  <2> QED BY <1>12, <1>a, <2>1, <2>2 DEF OnSwitch, TypeOK
<1>13. CASE RunTeardown
  <2>1. bg' \in Seq({"switch", "teardown"} \X Sids) /\ Len(bg') <= MaxBacklog
    BY <1>13, RunEffect DEF RunTeardown
  <2> QED BY <1>13, <1>a, <2>1 DEF RunTeardown, Teardown, TypeOK, Idle
<1>14. CASE ReapScan
  BY <1>14, <1>a DEF ReapScan, ReapFrom, TeardownFrom, Teardown, TypeOK, Idle
<1>15. CASE ReapResume
  BY <1>15, <1>a DEF ReapResume, ReapFrom, TeardownFrom, Teardown, TypeOK, Idle
<1>16. CASE Tick
  BY <1>16, <1>a DEF Tick, TypeOK
<1>17. CASE StopBegins
  BY <1>17, <1>a DEF StopBegins, TypeOK
<1>18. CASE StopDrains
  BY <1>18, <1>a DEF StopDrains, DrainFrom, TeardownFrom, Teardown, TypeOK, Idle
<1>19. CASE StopResumes
  BY <1>19, <1>a DEF StopResumes, DrainFrom, TeardownFrom, Teardown, TypeOK, Idle
<1>20. CASE UNCHANGED vars
  BY <1>20 DEF vars, TypeOK
<1> QED
  BY <1>1, <1>2, <1>3, <1>4, <1>5, <1>6, <1>7, <1>8, <1>9, <1>10, <1>11,
     <1>12, <1>13, <1>14, <1>15, <1>16, <1>17, <1>18, <1>19, <1>20
  DEF Next, Datagram, Egress, Base, RunSpawned

\* What a step that neither opens nor moves a session may do to s's egress task:
\* end it, let it subscribe, or tell it of the end of its stream.
Quiet(s) ==
    \/ etask'[s] \in Idle \cup {etask[s]}
    \/ etask[s] = "ready" /\ etask'[s] = mountpoint[s]
    \/ etask[s] \in Mountpoints /\ etask'[s] = "told"

\* Mountpoint and scope of a session change by opening or moving it only, and its
\* egress task is started by nothing else.
LEMMA ProfileFrame ==
    ASSUME TypeOK, SessionsKnown, [Next]_vars
    PROVE  \/ UNCHANGED <<mountpoint, scope>> /\ \A s \in Sids : Quiet(s)
           \/ \E s \in Sids, m \in Mountpoints : \E sc \in {ANY, m} : Opens(s, m, sc)
           \/ \E s \in Sids, m \in Mountpoints : Moves(s, m)
<1> DEFINE Goal ==
      \/ UNCHANGED <<mountpoint, scope>> /\ \A s \in Sids : Quiet(s)
      \/ \E s \in Sids, m \in Mountpoints : \E sc \in {ANY, m} : Opens(s, m, sc)
      \/ \E s \in Sids, m \in Mountpoints : Moves(s, m)
<1> SUFFICES Goal
  OBVIOUS
<1> USE DEF casterVars, profile, lifeVars, reapVars, stopVars
<1>1. ASSUME NEW s \in Sids, NEW sc \in Scopes, NEW q \in Requests, NEW p \in MaybePlaces, Hello(s, sc, q, p)
      PROVE  Goal
  <2>1. PICK m \in Resolve(sc, q, p) : mountpoint' = [mountpoint EXCEPT ![s] = m]
    BY <1>1 DEF Hello
  <2>2. m \in Mountpoints /\ sc \in {ANY, m}
    BY ResolveSound DEF TypeOK
  <2>3. Opens(s, m, sc)
    BY <1>1, <2>1 DEF Hello, Opens
  <2> QED BY <2>2, <2>3
<1>2. ASSUME NEW s \in Sids, KeepAlive(s)
      PROVE  Goal
  BY <1>2 DEF KeepAlive, Refresh, TypeOK, Quiet, Idle
<1>3. ASSUME NEW s \in Sids, NEW p \in Places, KeepAliveAt(s, p)
      PROVE  Goal
  <2>1. UNCHANGED scope /\ s \in sessions /\ UNCHANGED sessions
    BY <1>3 DEF KeepAliveAt, Refresh
  <2>2. CASE UNCHANGED <<mountpoint, etask>>
    BY <2>1, <2>2 DEF Quiet
  <2>3. ASSUME NEW m \in Nearest(p), ScopeAllows(scope[s], m), Repoint(s, m)
        PROVE  Goal
    <3>1. m \in Mountpoints
      BY NearestSound DEF TypeOK
    <3>2. Moves(s, m)
      BY <2>1, <2>3 DEF Moves, ScopeAllows, SessionsKnown
    <3> QED BY <3>1, <3>2
  <2> QED BY <1>3, <2>2, <2>3 DEF KeepAliveAt
<1>4. ASSUME NEW s \in Sids, SwitchMountpoint(s)
      PROVE  Goal
  BY <1>4 DEF SwitchMountpoint, Refresh, TypeOK, Quiet, Idle
<1>5. ASSUME NEW s \in Sids, Bye(s)
      PROVE  Goal
  BY <1>5 DEF Bye, Refresh, TypeOK, Quiet, Idle
<1>6. ASSUME NEW s \in Sids, EgressSubscribes(s)
      PROVE  Goal
  BY <1>6 DEF EgressSubscribes, TypeOK, Quiet, Idle
<1>7. ASSUME NEW s \in Sids, EgressUnavailable(s)
      PROVE  Goal
  BY <1>7 DEF EgressUnavailable, Teardown, TypeOK, Quiet, Idle
<1>8. ASSUME NEW s \in Sids, EgressEnds(s)
      PROVE  Goal
  BY <1>8 DEF EgressEnds, TypeOK, Quiet, Idle
<1>9. ASSUME NEW m \in Mountpoints, BaseConnects(m)
      PROVE  Goal
  BY <1>9 DEF BaseConnects, TypeOK, Quiet, Idle
<1>10. ASSUME NEW m \in Mountpoints, BaseLeaves(m)
      PROVE  Goal
  BY <1>10 DEF BaseLeaves, LoseTransport, TypeOK, Quiet, Idle
<1>11. ASSUME NEW m \in Mountpoints, Unregister(m)
      PROVE  Goal
  BY <1>11 DEF Unregister, LoseTransport, TypeOK, Quiet, Idle
<1>12. ASSUME NEW q \in Requests, NEW p \in MaybePlaces, OnSwitch(q, p)
      PROVE  Goal
  <2> DEFINE s == bg[1][2]
  <2>1. /\ s \in Sids /\ Head(bg) = bg[1] /\ 1 \in 1..Len(bg)
        /\ UNCHANGED <<scope, sessions>>
    BY <1>12, RunEffect DEF OnSwitch
  <2>2. CASE UNCHANGED <<mountpoint, etask>>
    BY <2>1, <2>2 DEF Quiet
  <2>3. ASSUME NEW m \in Resolve(scope[s], q, p), Repoint(s, m)
        PROVE  Goal
    <3>1. m \in Mountpoints /\ scope[s] \in {ANY, m}
      BY ResolveSound DEF TypeOK
    <3>2. Moves(s, m)
      BY <2>1, <2>3, <3>1 DEF Moves, SessionsKnown
    <3> QED BY <2>1, <3>1, <3>2
  <2>4. \/ UNCHANGED <<mountpoint, etask>>
        \/ \E m \in Resolve(scope[s], q, p) : Repoint(s, m)
    BY <1>12, <2>1 DEF OnSwitch
  <2> QED BY <2>2, <2>3, <2>4
<1>13. CASE RunTeardown
  BY <1>13 DEF RunTeardown, Teardown, TypeOK, Quiet, Idle
<1>14. CASE ReapScan
  BY <1>14 DEF ReapScan, ReapFrom, TeardownFrom, Teardown, TypeOK, Quiet, Idle
<1>15. CASE ReapResume
  BY <1>15 DEF ReapResume, ReapFrom, TeardownFrom, Teardown, TypeOK, Quiet, Idle
<1>16. CASE Tick
  BY <1>16 DEF Tick, TypeOK, Quiet, Idle
<1>17. CASE StopBegins
  BY <1>17 DEF StopBegins, TypeOK, Quiet, Idle
<1>18. CASE StopDrains
  BY <1>18 DEF StopDrains, DrainFrom, TeardownFrom, Teardown, TypeOK, Quiet, Idle
<1>19. CASE StopResumes
  BY <1>19 DEF StopResumes, DrainFrom, TeardownFrom, Teardown, TypeOK, Quiet, Idle
<1>20. CASE UNCHANGED vars
  BY <1>20 DEF vars, Quiet
<1> QED
  BY <1>1, <1>2, <1>3, <1>4, <1>5, <1>6, <1>7, <1>8, <1>9, <1>10, <1>11,
     <1>12, <1>13, <1>14, <1>15, <1>16, <1>17, <1>18, <1>19, <1>20
  DEF Next, Datagram, Egress, Base, RunSpawned

\* A waiting coroutine was waiting before, or belongs to a session of now.
LEMMA BacklogFrame ==
    ASSUME TypeOK, [Next]_vars
    PROVE  \A i \in 1..Len(bg') : \/ bg'[i][2] \in sessions
                                 \/ \E j \in 1..Len(bg) : bg'[i] = bg[j]
<1> DEFINE Goal == \A i \in 1..Len(bg') : \/ bg'[i][2] \in sessions
                                         \/ \E j \in 1..Len(bg) : bg'[i] = bg[j]
<1> SUFFICES Goal
  OBVIOUS
<1> USE DEF casterVars, profile, lifeVars, reapVars, stopVars
<1>a. CASE UNCHANGED bg
  BY <1>a
<1>1. ASSUME NEW s \in Sids, NEW sc \in Scopes, NEW q \in Requests, NEW p \in MaybePlaces, Hello(s, sc, q, p)
      PROVE  Goal
  BY <1>1, <1>a DEF Hello
<1>2. ASSUME NEW s \in Sids, KeepAlive(s)
      PROVE  Goal
  BY <1>2, <1>a DEF KeepAlive, Refresh
<1>3. ASSUME NEW s \in Sids, NEW p \in Places, KeepAliveAt(s, p)
      PROVE  Goal
  <2>1. UNCHANGED bg \/ Spawn(<<"teardown", s>>)
    BY <1>3 DEF KeepAliveAt
  <2>2. s \in sessions
    BY <1>3 DEF KeepAliveAt, Refresh
  <2> QED BY <1>a, <2>1, <2>2, SpawnEffect
<1>4. ASSUME NEW s \in Sids, SwitchMountpoint(s)
      PROVE  Goal
  <2>1. s \in sessions /\ Spawn(<<"switch", s>>)
    BY <1>4 DEF SwitchMountpoint, Refresh
  <2> QED BY <2>1, SpawnEffect
<1>5. ASSUME NEW s \in Sids, Bye(s)
      PROVE  Goal
  <2>1. s \in sessions /\ Spawn(<<"teardown", s>>)
    BY <1>5 DEF Bye, Refresh
  <2> QED BY <2>1, SpawnEffect
<1>6. ASSUME NEW s \in Sids, EgressSubscribes(s)
      PROVE  Goal
  BY <1>6, <1>a DEF EgressSubscribes
<1>7. ASSUME NEW s \in Sids, EgressUnavailable(s)
      PROVE  Goal
  BY <1>7, <1>a DEF EgressUnavailable
<1>8. ASSUME NEW s \in Sids, EgressEnds(s)
      PROVE  Goal
  BY <1>8, <1>a DEF EgressEnds
<1>9. ASSUME NEW m \in Mountpoints, BaseConnects(m)
      PROVE  Goal
  BY <1>9, <1>a DEF BaseConnects
<1>10. ASSUME NEW m \in Mountpoints, BaseLeaves(m)
      PROVE  Goal
  BY <1>10, <1>a DEF BaseLeaves, LoseTransport
<1>11. ASSUME NEW m \in Mountpoints, Unregister(m)
      PROVE  Goal
  BY <1>11, <1>a DEF Unregister, LoseTransport
<1>12. ASSUME NEW q \in Requests, NEW p \in MaybePlaces, OnSwitch(q, p)
      PROVE  Goal
  BY <1>12, RunEffect DEF OnSwitch
<1>13. CASE RunTeardown
  BY <1>13, RunEffect DEF RunTeardown
<1>14. CASE ReapScan
  BY <1>14, <1>a DEF ReapScan, ReapFrom
<1>15. CASE ReapResume
  BY <1>15, <1>a DEF ReapResume, ReapFrom
<1>16. CASE Tick
  BY <1>16, <1>a DEF Tick
<1>17. CASE StopBegins
  BY <1>17, <1>a DEF StopBegins
<1>18. CASE StopDrains
  <2>1. UNCHANGED bg \/ bg' = <<>>
    BY <1>18 DEF StopDrains, DrainFrom
  <2> QED BY <1>a, <2>1
<1>19. CASE StopResumes
  <2>1. UNCHANGED bg \/ bg' = <<>>
    BY <1>19 DEF StopResumes, DrainFrom
  <2> QED BY <1>a, <2>1
<1>20. CASE UNCHANGED vars
  BY <1>20, <1>a DEF vars
<1> QED
  BY <1>1, <1>2, <1>3, <1>4, <1>5, <1>6, <1>7, <1>8, <1>9, <1>10, <1>11,
     <1>12, <1>13, <1>14, <1>15, <1>16, <1>17, <1>18, <1>19, <1>20
  DEF Next, Datagram, Egress, Base, RunSpawned

\* A Session object never loses its mountpoint.
LEMMA MountpointStays ==
    ASSUME TypeOK, SessionsKnown, [Next]_vars, NEW s \in Sids, mountpoint[s] # <<>>
    PROVE  mountpoint'[s] # <<>>
<1>1. ASSUME NEW t \in Sids, NEW m \in Mountpoints,
             mountpoint' = [mountpoint EXCEPT ![t] = m]
      PROVE  mountpoint'[s] # <<>>
  BY <1>1, ServerAssumption DEF TypeOK
<1>2. ASSUME NEW t \in Sids, NEW m \in Mountpoints, Moves(t, m)
      PROVE  mountpoint'[s] # <<>>
  BY <1>1, <1>2, RepointEffect DEF Moves
<1> QED BY <1>1, <1>2, ProfileFrame DEF Opens

\* Every step preserves SessionsKnown.
LEMMA StepKnown ==
    ASSUME TypeOK, SessionsKnown, GaugeCounts, [Next]_vars
    PROVE  SessionsKnown'
<1>1. IsFiniteSet(sessions')
  BY StepGauge
<1>2. ASSUME NEW s \in sessions' PROVE mountpoint'[s] # <<>>
  <2>1. s \in sessions => mountpoint'[s] # <<>>
    BY MountpointStays DEF SessionsKnown, TypeOK
  <2>2. ASSUME NEW t \in Sids, NEW m \in Mountpoints, NEW sc, Opens(t, m, sc)
        PROVE  mountpoint'[s] # <<>>
    BY <1>2, <2>1, <2>2, ServerAssumption DEF Opens, TypeOK
  <2> QED BY <1>2, <2>1, <2>2, CountFrame DEF Ends, Teardown
<1>3. ASSUME NEW i \in 1..Len(bg') PROVE mountpoint'[bg'[i][2]] # <<>>
  <2>1. CASE bg'[i][2] \in sessions
    BY <2>1, MountpointStays DEF SessionsKnown, TypeOK
  <2>2. ASSUME NEW j \in 1..Len(bg), bg'[i] = bg[j]
        PROVE  mountpoint'[bg'[i][2]] # <<>>
    <3>1. bg[j] \in {"switch", "teardown"} \X Sids
      BY DEF TypeOK
    <3>2. bg[j][2] \in Sids /\ mountpoint[bg[j][2]] # <<>>
      BY <3>1 DEF SessionsKnown
    <3> QED BY <2>2, <3>2, MountpointStays
  <2> QED BY <2>1, <2>2, BacklogFrame
<1> QED BY <1>1, <1>2, <1>3 DEF SessionsKnown
-----------------------------------------------------------------------------
(* The invariants of one session.                                           *)

\* A position that is new is that of a session, under its mountpoint, and the
\* step ends no session.
LEMMA PositionsFrame ==
    ASSUME [Next]_vars
    PROVE  \/ positions' \subseteq positions
           \/ \E s \in sessions : /\ positions' = positions \cup {<<mountpoint[s], s>>}
                                  /\ UNCHANGED <<sessions, scope>>
<1> DEFINE Goal ==
      \/ positions' \subseteq positions
      \/ \E s \in sessions : /\ positions' = positions \cup {<<mountpoint[s], s>>}
                             /\ UNCHANGED <<sessions, scope>>
<1> SUFFICES Goal
  OBVIOUS
<1> USE DEF casterVars, profile, lifeVars, reapVars, stopVars
<1>1. ASSUME NEW s \in Sids, NEW sc \in Scopes, NEW q \in Requests, NEW p \in MaybePlaces, Hello(s, sc, q, p)
      PROVE  Goal
  BY <1>1 DEF Hello
<1>2. ASSUME NEW s \in Sids, KeepAlive(s)
      PROVE  Goal
  BY <1>2 DEF KeepAlive, Refresh
<1>3. ASSUME NEW s \in Sids, NEW p \in Places, KeepAliveAt(s, p)
      PROVE  Goal
  BY <1>3 DEF KeepAliveAt, Refresh
<1>4. ASSUME NEW s \in Sids, SwitchMountpoint(s)
      PROVE  Goal
  BY <1>4 DEF SwitchMountpoint, Refresh
<1>5. ASSUME NEW s \in Sids, Bye(s)
      PROVE  Goal
  BY <1>5 DEF Bye, Refresh
<1>6. ASSUME NEW s \in Sids, EgressSubscribes(s)
      PROVE  Goal
  BY <1>6 DEF EgressSubscribes
<1>7. ASSUME NEW s \in Sids, EgressUnavailable(s)
      PROVE  Goal
  BY <1>7 DEF EgressUnavailable, Teardown
<1>8. ASSUME NEW s \in Sids, EgressEnds(s)
      PROVE  Goal
  BY <1>8 DEF EgressEnds
<1>9. ASSUME NEW m \in Mountpoints, BaseConnects(m)
      PROVE  Goal
  BY <1>9 DEF BaseConnects
<1>10. ASSUME NEW m \in Mountpoints, BaseLeaves(m)
      PROVE  Goal
  BY <1>10 DEF BaseLeaves, LoseTransport
<1>11. ASSUME NEW m \in Mountpoints, Unregister(m)
      PROVE  Goal
  BY <1>11 DEF Unregister, LoseTransport
<1>12. ASSUME NEW q \in Requests, NEW p \in MaybePlaces, OnSwitch(q, p)
      PROVE  Goal
  BY <1>12 DEF OnSwitch
<1>13. CASE RunTeardown
  BY <1>13 DEF RunTeardown, Teardown
<1>14. CASE ReapScan
  BY <1>14 DEF ReapScan, ReapFrom, TeardownFrom, Teardown
<1>15. CASE ReapResume
  BY <1>15 DEF ReapResume, ReapFrom, TeardownFrom, Teardown
<1>16. CASE Tick
  BY <1>16 DEF Tick
<1>17. CASE StopBegins
  BY <1>17 DEF StopBegins
<1>18. CASE StopDrains
  BY <1>18 DEF StopDrains, DrainFrom, TeardownFrom, Teardown
<1>19. CASE StopResumes
  BY <1>19 DEF StopResumes, DrainFrom, TeardownFrom, Teardown
<1>20. CASE UNCHANGED vars
  BY <1>20 DEF vars
<1> QED
  BY <1>1, <1>2, <1>3, <1>4, <1>5, <1>6, <1>7, <1>8, <1>9, <1>10, <1>11,
     <1>12, <1>13, <1>14, <1>15, <1>16, <1>17, <1>18, <1>19, <1>20
  DEF Next, Datagram, Egress, Base, RunSpawned

\* After every step a session is pointed at what its token authorizes.
LEMMA StepScope ==
    ASSUME TypeOK, SessionsKnown, ScopeRespected, [Next]_vars
    PROVE  ScopeRespected'
<1>1. CASE UNCHANGED <<mountpoint, scope>>
  BY <1>1 DEF ScopeRespected
<1>2. ASSUME NEW s \in Sids, NEW m \in Mountpoints, NEW sc \in {ANY, m}, Opens(s, m, sc)
      PROVE  ScopeRespected'
  BY <1>2 DEF Opens, ScopeRespected, TypeOK
<1>3. ASSUME NEW s \in Sids, NEW m \in Mountpoints, Moves(s, m)
      PROVE  ScopeRespected'
  <2>1. mountpoint' = [mountpoint EXCEPT ![s] = m] /\ scope[s] \in {ANY, m} /\ scope' = scope
    BY <1>3, RepointEffect DEF Moves
  <2> QED BY <2>1 DEF ScopeRespected, TypeOK
<1> QED BY <1>1, <1>2, <1>3, ProfileFrame

\* After every step an egress task streams the mountpoint its frames are labelled
\* with: a move replaces the task.
LEMMA StepLabel ==
    ASSUME TypeOK, SessionsKnown, LabelMatches, [Next]_vars
    PROVE  LabelMatches'
<1> USE ServerAssumption
<1> SUFFICES ASSUME NEW t \in Sids, etask'[t] \in Mountpoints
             PROVE  etask'[t] = mountpoint'[t]
  BY DEF LabelMatches
<1>1. CASE UNCHANGED <<mountpoint, scope>> /\ \A s \in Sids : Quiet(s)
  <2>1. Quiet(t)
    BY <1>1
  <2>2. etask'[t] \notin Idle /\ etask'[t] # "told"
    BY DEF Idle
  <2> QED BY <1>1, <2>1, <2>2 DEF LabelMatches, Quiet
<1>2. ASSUME NEW s \in Sids, NEW m \in Mountpoints, NEW sc, Opens(s, m, sc)
      PROVE  etask'[t] = mountpoint'[t]
  BY <1>2 DEF Opens, LabelMatches, TypeOK
<1>3. ASSUME NEW s \in Sids, NEW m \in Mountpoints, Moves(s, m)
      PROVE  etask'[t] = mountpoint'[t]
  <2>1. /\ mountpoint' = [mountpoint EXCEPT ![s] = m]
        /\ etask' = IF m = mountpoint[s] THEN etask ELSE [etask EXCEPT ![s] = "ready"]
    BY <1>3, RepointEffect DEF Moves
  <2> QED BY <2>1 DEF LabelMatches, TypeOK
<1> QED BY <1>1, <1>2, <1>3, ProfileFrame

\* The scope of a session that was opened is never changed.
LEMMA ScopeStays ==
    ASSUME TypeOK, SessionsKnown, [Next]_vars, NEW s \in Sids, mountpoint[s] # <<>>
    PROVE  scope'[s] = scope[s]
<1>1. ASSUME NEW t \in Sids, NEW m \in Mountpoints, NEW sc, Opens(t, m, sc)
      PROVE  scope'[s] = scope[s]
  BY <1>1 DEF Opens, TypeOK
<1> QED BY <1>1, ProfileFrame DEF Moves

\* After every step positions are tracked under what the token authorizes.
LEMMA StepPositions ==
    ASSUME TypeOK, SessionsKnown, ScopeRespected, PositionsPinned, [Next]_vars
    PROVE  PositionsPinned'
<1> SUFFICES ASSUME NEW m \in Mountpoints, NEW s \in Sids, <<m, s>> \in positions'
             PROVE  mountpoint'[s] # <<>> /\ scope'[s] \in {ANY, m}
  BY DEF PositionsPinned
<1>1. mountpoint[s] # <<>> /\ scope[s] \in {ANY, m}
  <2>1. <<m, s>> \in positions \/ (s \in sessions /\ m = mountpoint[s])
    BY PositionsFrame
  <2> QED BY <2>1 DEF PositionsPinned, ScopeRespected, SessionsKnown
<1> QED BY <1>1, MountpointStays, ScopeStays

\* A session that leaves the dictionary loses its task and the position under its
\* mountpoint.
LEMMA EndedIsTornDown ==
    ASSUME TypeOK, [Next]_vars, NEW s \in sessions, s \notin sessions'
    PROVE  /\ etask'[s] = "none"
           /\ positions' \subseteq positions \ {<<mountpoint[s], s>>}
<1>1. PICK batch : Teardown(batch)
  BY CountFrame DEF Ends, Opens
<1>2. s \in batch \cap sessions /\ s \in Sids
  BY <1>1 DEF Teardown, TypeOK
<1> QED BY <1>1, <1>2 DEF Teardown

\* A session that a step opens or moves is a known one, or keeps its task.
LEMMA StepClean ==
    ASSUME IInv, [Next]_vars
    PROVE  ScopedSessionsClean'
<1> USE ServerAssumption
<1> SUFFICES ASSUME NEW s \in Sids, s \notin sessions', scope'[s] # ANY
             PROVE  /\ ~(etask'[s] \in {"ready", "told"} \cup Mountpoints)
                    /\ \A m \in Mountpoints : <<m, s>> \notin positions'
  BY DEF ScopedSessionsClean, Running
<1>1. scope[s] = scope'[s]
  <2>1. ASSUME NEW t \in Sids, NEW m \in Mountpoints, NEW sc, Opens(t, m, sc)
        PROVE  scope[s] = scope'[s]
    BY <2>1 DEF Opens, TypeOK, IInv
  <2> QED BY <2>1, ProfileFrame DEF Moves, IInv
<1>2. CASE s \in sessions
  <2>1. etask'[s] = "none" /\ positions' \subseteq positions \ {<<mountpoint[s], s>>}
    BY <1>2, EndedIsTornDown DEF IInv
  <2>2. ASSUME NEW m \in Mountpoints, <<m, s>> \in positions' PROVE FALSE
    <3>1. <<m, s>> \in positions /\ m # mountpoint[s]
      BY <2>1, <2>2
    <3>2. scope[s] = m /\ mountpoint[s] # <<>>
      BY <1>1, <3>1 DEF IInv, PositionsPinned
    <3> QED BY <1>1, <3>1, <3>2 DEF IInv, ScopeRespected
  <2> QED BY <2>1, <2>2
<1>3. CASE s \notin sessions
  <2>1. /\ etask[s] \notin {"ready", "told"} \cup Mountpoints
        /\ \A m \in Mountpoints : <<m, s>> \notin positions
    BY <1>1, <1>3 DEF IInv, ScopedSessionsClean, Running
  <2>2. \A m \in Mountpoints : <<m, s>> \notin positions'
    BY <1>3, <2>1, PositionsFrame
  <2>3. etask'[s] \in Idle \cup {etask[s]}
    <3>1. CASE \A t \in Sids : Quiet(t)
      BY <2>1, <3>1 DEF Quiet
    <3>2. ASSUME NEW t \in Sids, NEW m \in Mountpoints, NEW sc, Opens(t, m, sc)
          PROVE  etask'[s] = etask[s]
      BY <3>2 DEF Opens, IInv, TypeOK
    <3>3. ASSUME NEW t \in Sids, NEW m \in Mountpoints, Moves(t, m)
          PROVE  etask'[s] = etask[s]
      <4>1. etask' = IF m = mountpoint[t] THEN etask ELSE [etask EXCEPT ![t] = "ready"]
        BY <3>3, RepointEffect DEF Moves, IInv
      <4>2. s = t => m = mountpoint[t]
        BY <1>1, <3>3 DEF Moves, IInv, ScopeRespected
      <4> QED BY <4>1, <4>2 DEF IInv, TypeOK
    <3> QED BY <3>1, <3>2, <3>3, ProfileFrame DEF IInv
  <2> QED BY <2>1, <2>2, <2>3 DEF Idle
<1> QED BY <1>2, <1>3
-----------------------------------------------------------------------------
(* The theorems.                                                            *)

LEMMA InitInv == Init => IInv
<1> SUFFICES ASSUME Init PROVE IInv
  OBVIOUS
<1> USE ServerAssumption DEF Init
<1>1. TypeOK
  BY DEF TypeOK, Idle, Scopes
<1>2. SessionsKnown /\ GaugeCounts
  BY FS_EmptySet DEF SessionsKnown, GaugeCounts
<1>3. ScopeRespected /\ LabelMatches /\ PositionsPinned /\ ScopedSessionsClean
  BY DEF ScopeRespected, LabelMatches, PositionsPinned, ScopedSessionsClean, Running
<1> QED BY <1>1, <1>2, <1>3 DEF IInv

LEMMA NextInv == IInv /\ [Next]_vars => IInv'
<1> SUFFICES ASSUME IInv, [Next]_vars PROVE IInv'
  OBVIOUS
<1>1. TypeOK' /\ SessionsKnown' /\ GaugeCounts'
  BY StepTypeOK, StepKnown, StepGauge DEF IInv
<1>2. ScopeRespected' /\ LabelMatches' /\ PositionsPinned'
  BY StepScope, StepLabel, StepPositions DEF IInv
<1>3. ScopedSessionsClean'
  BY StepClean
<1> QED BY <1>1, <1>2, <1>3 DEF IInv

LEMMA Inductive == Spec => []IInv
  BY InitInv, NextInv, PTL DEF Spec

\* The state of the UDP server stays within its types, for any number of sessions
\* and whatever order datagrams, coroutines, reaper and stop() run in.
THEOREM TypeCorrect == Spec => []TypeOK
<1>1. IInv => TypeOK
  BY DEF IInv
<1> QED BY <1>1, Inductive, PTL

\* rtcm_udp_sessions is the number of sessions at any time: a session that Bye,
\* eviction, reaper, egress task and stop() all tear down is subtracted once.
THEOREM GaugeNeverDrifts == Spec => []GaugeCounts
<1>1. IInv => GaugeCounts
  BY DEF IInv
<1> QED BY <1>1, Inductive, PTL

\* No Hello, switch or keepalive handoff, however late its coroutine runs, points
\* a session at a mountpoint its token does not authorize.
THEOREM TokensAreRespected == Spec => []ScopeRespected
<1>1. IInv => ScopeRespected
  BY DEF IInv
<1> QED BY <1>1, Inductive, PTL

\* A frame is never labelled and signed as that of another mountpoint.
THEOREM LabelsAreTrue == Spec => []LabelMatches
<1>1. IInv => LabelMatches
  BY DEF IInv
<1> QED BY <1>1, Inductive, PTL

\* Once a session with a token for one mountpoint is torn down, no task and no
\* position of it is left, and no coroutine spawned before brings one back.
THEOREM PinnedSessionsLeaveNothing == Spec => []ScopedSessionsClean
<1>1. IInv => ScopedSessionsClean
  BY DEF IInv
<1> QED BY <1>1, Inductive, PTL
=============================================================================
