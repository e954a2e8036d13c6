---------------------------- MODULE CasterProofs ----------------------------
(***************************************************************************)
(* Proofs about Caster for any mountpoints, users, handlers, rovers and    *)
(* expiry.                                                                 *)
(***************************************************************************)
EXTENDS Caster, TLAPS

\* Two publishers of one mountpoint have been noticed.
OverlapsNoted ==
    \A g, h \in Handlers :
        Publishing(g) /\ Publishing(h) /\ PutTo[g] = PutTo[h] /\ g # h
        => PutTo[h] \in overlapped

\* Every step preserves the types.
LEMMA StepTypeOK ==
    TypeOK /\ [Next]_vars => TypeOK'
<1> SUFFICES ASSUME TypeOK, [Next]_vars
             PROVE  TypeOK'
  OBVIOUS
<1> USE CasterAssumption DEF TypeOK, Position, Reaper, registry, putVars, getVars,
        subVars, reapVars
<1>1. CASE Tick
  BY <1>1 DEF Tick
<1>2. CASE ReapScan
  BY <1>2 DEF ReapScan, ReapFrom, Unregister, ForgetPositions, EndStreamsOf
<1>3. CASE ReapResume
  BY <1>3 DEF ReapResume, ReapFrom, Unregister, ForgetPositions, EndStreamsOf
<1>4. ASSUME NEW h \in Handlers, PutRequest(h) PROVE TypeOK'
  BY <1>4 DEF PutRequest
<1>5. ASSUME NEW h \in Handlers, PolicyAllows(h) PROVE TypeOK'
  BY <1>5 DEF PolicyAllows
<1>6. ASSUME NEW h \in Handlers, PutRefused(h) PROVE TypeOK'
  BY <1>6 DEF PutRefused
<1>7. ASSUME NEW h \in Handlers, Register(h) PROVE TypeOK'
  BY <1>7 DEF Register
<1>8. ASSUME NEW h \in Handlers, StartStream(h) PROVE TypeOK'
  BY <1>8 DEF StartStream
<1>9. ASSUME NEW h \in Handlers, RespondFails(h) PROVE TypeOK'
  BY <1>9 DEF RespondFails
<1>10. ASSUME NEW h \in Handlers, Chunk(h) PROVE TypeOK'
  BY <1>10 DEF Chunk
<1>11. ASSUME NEW h \in Handlers, EndStream(h) PROVE TypeOK'
  BY <1>11 DEF EndStream, CloseTransport, ForgetPositions, EndStreamsOf, AfterClose
<1>12. ASSUME NEW h \in Handlers, EndStreamNoTransport(h) PROVE TypeOK'
  BY <1>12 DEF EndStreamNoTransport
<1>13. ASSUME NEW h \in Handlers, CloseReturns(h) PROVE TypeOK'
  BY <1>13 DEF CloseReturns
<1>14. ASSUME NEW h \in Handlers, NEW empty \in BOOLEAN, PutBody(h, empty)
       PROVE  TypeOK'
  BY <1>14 DEF PutBody, CloseTransport, ForgetPositions, EndStreamsOf, AfterClose
<1>15. ASSUME NEW r \in Rovers, GetRequest(r) PROVE TypeOK'
  BY <1>15 DEF GetRequest
<1>16. ASSUME NEW r \in Rovers, GetRefused(r) PROVE TypeOK'
  BY <1>16 DEF GetRefused
<1>17. ASSUME NEW r \in Rovers, GetAccepted(r) PROVE TypeOK'
  BY <1>17 DEF GetAccepted
<1>18. ASSUME NEW r \in Rovers, ReadGGA(r) PROVE TypeOK'
  BY <1>18 DEF ReadGGA
<1>19. ASSUME NEW r \in Rovers, StreamEnds(r) PROVE TypeOK'
  BY <1>19 DEF StreamEnds
<1>20. ASSUME NEW r \in Rovers, Unwound(r) PROVE TypeOK'
  BY <1>20 DEF Unwound
<1>21. ASSUME NEW r \in Rovers, NEW gga \in BOOLEAN, StreamFrames(r, gga)
       PROVE  TypeOK'
  BY <1>21 DEF StreamFrames
<1>22. ASSUME NEW r \in Rovers, ShutdownTask(r) PROVE TypeOK'
  BY <1>22 DEF ShutdownTask
<1>23. ASSUME NEW h \in Handlers, CloseCancelled(h) PROVE TypeOK'
  BY <1>23 DEF CloseCancelled
<1>24. CASE UNCHANGED vars
  BY <1>24 DEF vars
<1> QED
  BY <1>1, <1>2, <1>3, <1>4, <1>5, <1>6, <1>7, <1>8, <1>9, <1>10, <1>11,
     <1>12, <1>13, <1>14, <1>15, <1>16, <1>17, <1>18, <1>19, <1>20, <1>21, <1>22,
     <1>23, <1>24
  DEF Next, PutStep, GetStep

\* No step leaves a transport behind without its mountpoint.
LEMMA StepTransports ==
    TypeOK /\ TransportsRegistered /\ [Next]_vars => TransportsRegistered'
<1> SUFFICES ASSUME TypeOK, TransportsRegistered, [Next]_vars
             PROVE  TransportsRegistered'
  OBVIOUS
<1> USE CasterAssumption DEF TypeOK, TransportsRegistered, registry, putVars, getVars,
        subVars, reapVars
<1>1. CASE Tick
  BY <1>1 DEF Tick
<1>2. CASE ReapScan
  BY <1>2 DEF ReapScan, ReapFrom, Unregister, ForgetPositions, EndStreamsOf
<1>3. CASE ReapResume
  BY <1>3 DEF ReapResume, ReapFrom, Unregister, ForgetPositions, EndStreamsOf
<1>4. ASSUME NEW h \in Handlers, PutRequest(h) PROVE TransportsRegistered'
  BY <1>4 DEF PutRequest
<1>5. ASSUME NEW h \in Handlers, PolicyAllows(h) PROVE TransportsRegistered'
  BY <1>5 DEF PolicyAllows
<1>6. ASSUME NEW h \in Handlers, PutRefused(h) PROVE TransportsRegistered'
  BY <1>6 DEF PutRefused
<1>7. ASSUME NEW h \in Handlers, Register(h) PROVE TransportsRegistered'
  BY <1>7 DEF Register
<1>8. ASSUME NEW h \in Handlers, StartStream(h) PROVE TransportsRegistered'
  BY <1>8 DEF StartStream
<1>9. ASSUME NEW h \in Handlers, RespondFails(h) PROVE TransportsRegistered'
  BY <1>9 DEF RespondFails
<1>10. ASSUME NEW h \in Handlers, Chunk(h) PROVE TransportsRegistered'
  BY <1>10 DEF Chunk
<1>11. ASSUME NEW h \in Handlers, EndStream(h) PROVE TransportsRegistered'
  BY <1>11 DEF EndStream, CloseTransport, ForgetPositions, EndStreamsOf, AfterClose
<1>12. ASSUME NEW h \in Handlers, EndStreamNoTransport(h) PROVE TransportsRegistered'
  BY <1>12 DEF EndStreamNoTransport
<1>13. ASSUME NEW h \in Handlers, CloseReturns(h) PROVE TransportsRegistered'
  BY <1>13 DEF CloseReturns
<1>14. ASSUME NEW h \in Handlers, NEW empty \in BOOLEAN, PutBody(h, empty)
       PROVE  TransportsRegistered'
  BY <1>14 DEF PutBody, CloseTransport, ForgetPositions, EndStreamsOf, AfterClose
<1>15. ASSUME NEW r \in Rovers, GetRequest(r) PROVE TransportsRegistered'
  BY <1>15 DEF GetRequest
<1>16. ASSUME NEW r \in Rovers, GetRefused(r) PROVE TransportsRegistered'
  BY <1>16 DEF GetRefused
<1>17. ASSUME NEW r \in Rovers, GetAccepted(r) PROVE TransportsRegistered'
  BY <1>17 DEF GetAccepted
<1>18. ASSUME NEW r \in Rovers, ReadGGA(r) PROVE TransportsRegistered'
  BY <1>18 DEF ReadGGA
<1>19. ASSUME NEW r \in Rovers, StreamEnds(r) PROVE TransportsRegistered'
  BY <1>19 DEF StreamEnds
<1>20. ASSUME NEW r \in Rovers, Unwound(r) PROVE TransportsRegistered'
  BY <1>20 DEF Unwound
<1>21. ASSUME NEW r \in Rovers, NEW gga \in BOOLEAN, StreamFrames(r, gga)
       PROVE  TransportsRegistered'
  BY <1>21 DEF StreamFrames
<1>22. ASSUME NEW r \in Rovers, ShutdownTask(r) PROVE TransportsRegistered'
  BY <1>22 DEF ShutdownTask
<1>23. ASSUME NEW h \in Handlers, CloseCancelled(h) PROVE TransportsRegistered'
  BY <1>23 DEF CloseCancelled
<1>24. CASE UNCHANGED vars
  BY <1>24 DEF vars
<1> QED
  BY <1>1, <1>2, <1>3, <1>4, <1>5, <1>6, <1>7, <1>8, <1>9, <1>10, <1>11,
     <1>12, <1>13, <1>14, <1>15, <1>16, <1>17, <1>18, <1>19, <1>20, <1>21, <1>22,
     <1>23, <1>24
  DEF Next, PutStep, GetStep

\* Whatever removes a transport empties its list of subscribers.
LEMMA StepLiveStreams ==
    TypeOK /\ LiveStreamsHaveTransport /\ [Next]_vars => LiveStreamsHaveTransport'
<1> SUFFICES ASSUME TypeOK, LiveStreamsHaveTransport, [Next]_vars
             PROVE  LiveStreamsHaveTransport'
  OBVIOUS
<1> USE CasterAssumption DEF TypeOK, LiveStreamsHaveTransport, registry, putVars, getVars,
        subVars, reapVars
<1>1. CASE Tick
  BY <1>1 DEF Tick
<1>2. CASE ReapScan
  BY <1>2 DEF ReapScan, ReapFrom, Unregister, ForgetPositions, EndStreamsOf
<1>3. CASE ReapResume
  BY <1>3 DEF ReapResume, ReapFrom, Unregister, ForgetPositions, EndStreamsOf
<1>4. ASSUME NEW h \in Handlers, PutRequest(h) PROVE LiveStreamsHaveTransport'
  BY <1>4 DEF PutRequest
<1>5. ASSUME NEW h \in Handlers, PolicyAllows(h) PROVE LiveStreamsHaveTransport'
  BY <1>5 DEF PolicyAllows
<1>6. ASSUME NEW h \in Handlers, PutRefused(h) PROVE LiveStreamsHaveTransport'
  BY <1>6 DEF PutRefused
<1>7. ASSUME NEW h \in Handlers, Register(h) PROVE LiveStreamsHaveTransport'
  BY <1>7 DEF Register
<1>8. ASSUME NEW h \in Handlers, StartStream(h) PROVE LiveStreamsHaveTransport'
  BY <1>8 DEF StartStream
<1>9. ASSUME NEW h \in Handlers, RespondFails(h) PROVE LiveStreamsHaveTransport'
  BY <1>9 DEF RespondFails
<1>10. ASSUME NEW h \in Handlers, Chunk(h) PROVE LiveStreamsHaveTransport'
  BY <1>10 DEF Chunk
<1>11. ASSUME NEW h \in Handlers, EndStream(h) PROVE LiveStreamsHaveTransport'
  BY <1>11 DEF EndStream, CloseTransport, ForgetPositions, EndStreamsOf, AfterClose
<1>12. ASSUME NEW h \in Handlers, EndStreamNoTransport(h) PROVE LiveStreamsHaveTransport'
  BY <1>12 DEF EndStreamNoTransport
<1>13. ASSUME NEW h \in Handlers, CloseReturns(h) PROVE LiveStreamsHaveTransport'
  BY <1>13 DEF CloseReturns
<1>14. ASSUME NEW h \in Handlers, NEW empty \in BOOLEAN, PutBody(h, empty)
       PROVE  LiveStreamsHaveTransport'
  BY <1>14 DEF PutBody, CloseTransport, ForgetPositions, EndStreamsOf, AfterClose
<1>15. ASSUME NEW r \in Rovers, GetRequest(r) PROVE LiveStreamsHaveTransport'
  BY <1>15 DEF GetRequest
<1>16. ASSUME NEW r \in Rovers, GetRefused(r) PROVE LiveStreamsHaveTransport'
  BY <1>16 DEF GetRefused
<1>17. ASSUME NEW r \in Rovers, GetAccepted(r) PROVE LiveStreamsHaveTransport'
  BY <1>17 DEF GetAccepted
<1>18. ASSUME NEW r \in Rovers, ReadGGA(r) PROVE LiveStreamsHaveTransport'
  BY <1>18 DEF ReadGGA
<1>19. ASSUME NEW r \in Rovers, StreamEnds(r) PROVE LiveStreamsHaveTransport'
  BY <1>19 DEF StreamEnds
<1>20. ASSUME NEW r \in Rovers, Unwound(r) PROVE LiveStreamsHaveTransport'
  BY <1>20 DEF Unwound
<1>21. ASSUME NEW r \in Rovers, NEW gga \in BOOLEAN, StreamFrames(r, gga)
       PROVE  LiveStreamsHaveTransport'
  BY <1>21 DEF StreamFrames
<1>22. ASSUME NEW r \in Rovers, ShutdownTask(r) PROVE LiveStreamsHaveTransport'
  BY <1>22 DEF ShutdownTask
<1>23. ASSUME NEW h \in Handlers, CloseCancelled(h) PROVE LiveStreamsHaveTransport'
  BY <1>23 DEF CloseCancelled
<1>24. CASE UNCHANGED vars
  BY <1>24 DEF vars
<1> QED
  BY <1>1, <1>2, <1>3, <1>4, <1>5, <1>6, <1>7, <1>8, <1>9, <1>10, <1>11,
     <1>12, <1>13, <1>14, <1>15, <1>16, <1>17, <1>18, <1>19, <1>20, <1>21, <1>22,
     <1>23, <1>24
  DEF Next, PutStep, GetStep

\* A position goes, at the latest, when the last handler that owns it does.
LEMMA StepPositions ==
    TypeOK /\ PositionsOwned /\ [Next]_vars => PositionsOwned'
<1> SUFFICES ASSUME TypeOK, PositionsOwned, [Next]_vars
             PROVE  PositionsOwned'
  OBVIOUS
<1> USE CasterAssumption DEF TypeOK, PositionsOwned, Position, registry, putVars, getVars,
        subVars, reapVars
<1>1. CASE Tick
  BY <1>1 DEF Tick
<1>2. CASE ReapScan
  BY <1>2 DEF ReapScan, ReapFrom, Unregister, ForgetPositions, EndStreamsOf
<1>3. CASE ReapResume
  BY <1>3 DEF ReapResume, ReapFrom, Unregister, ForgetPositions, EndStreamsOf
<1>4. ASSUME NEW h \in Handlers, PutRequest(h) PROVE PositionsOwned'
  BY <1>4 DEF PutRequest
<1>5. ASSUME NEW h \in Handlers, PolicyAllows(h) PROVE PositionsOwned'
  BY <1>5 DEF PolicyAllows
<1>6. ASSUME NEW h \in Handlers, PutRefused(h) PROVE PositionsOwned'
  BY <1>6 DEF PutRefused
<1>7. ASSUME NEW h \in Handlers, Register(h) PROVE PositionsOwned'
  BY <1>7 DEF Register
<1>8. ASSUME NEW h \in Handlers, StartStream(h) PROVE PositionsOwned'
  BY <1>8 DEF StartStream
<1>9. ASSUME NEW h \in Handlers, RespondFails(h) PROVE PositionsOwned'
  BY <1>9 DEF RespondFails
<1>10. ASSUME NEW h \in Handlers, Chunk(h) PROVE PositionsOwned'
  BY <1>10 DEF Chunk
<1>11. ASSUME NEW h \in Handlers, EndStream(h) PROVE PositionsOwned'
  BY <1>11 DEF EndStream, CloseTransport, ForgetPositions, EndStreamsOf, AfterClose
<1>12. ASSUME NEW h \in Handlers, EndStreamNoTransport(h) PROVE PositionsOwned'
  BY <1>12 DEF EndStreamNoTransport
<1>13. ASSUME NEW h \in Handlers, CloseReturns(h) PROVE PositionsOwned'
  BY <1>13 DEF CloseReturns
<1>14. ASSUME NEW h \in Handlers, NEW empty \in BOOLEAN, PutBody(h, empty)
       PROVE  PositionsOwned'
  BY <1>14 DEF PutBody, CloseTransport, ForgetPositions, EndStreamsOf, AfterClose
<1>15. ASSUME NEW r \in Rovers, GetRequest(r) PROVE PositionsOwned'
  BY <1>15 DEF GetRequest
<1>16. ASSUME NEW r \in Rovers, GetRefused(r) PROVE PositionsOwned'
  BY <1>16 DEF GetRefused
<1>17. ASSUME NEW r \in Rovers, GetAccepted(r) PROVE PositionsOwned'
  BY <1>17 DEF GetAccepted
<1>18. ASSUME NEW r \in Rovers, ReadGGA(r) PROVE PositionsOwned'
  BY <1>18 DEF ReadGGA
<1>19. ASSUME NEW r \in Rovers, StreamEnds(r) PROVE PositionsOwned'
  BY <1>19 DEF StreamEnds
<1>20. ASSUME NEW r \in Rovers, Unwound(r) PROVE PositionsOwned'
  BY <1>20 DEF Unwound
<1>21. ASSUME NEW r \in Rovers, NEW gga \in BOOLEAN, StreamFrames(r, gga)
       PROVE  PositionsOwned'
  BY <1>21 DEF StreamFrames
<1>22. ASSUME NEW r \in Rovers, ShutdownTask(r) PROVE PositionsOwned'
  BY <1>22 DEF ShutdownTask
<1>23. ASSUME NEW h \in Handlers, CloseCancelled(h) PROVE PositionsOwned'
  BY <1>23 DEF CloseCancelled
<1>24. CASE UNCHANGED vars
  BY <1>24 DEF vars
<1> QED
  BY <1>1, <1>2, <1>3, <1>4, <1>5, <1>6, <1>7, <1>8, <1>9, <1>10, <1>11,
     <1>12, <1>13, <1>14, <1>15, <1>16, <1>17, <1>18, <1>19, <1>20, <1>21, <1>22,
     <1>23, <1>24
  DEF Next, PutStep, GetStep

\* register() of a second publisher is noted.
LEMMA StepOverlaps ==
    TypeOK /\ OverlapsNoted /\ [Next]_vars => OverlapsNoted'
<1> SUFFICES ASSUME TypeOK, OverlapsNoted, [Next]_vars
             PROVE  OverlapsNoted'
  OBVIOUS
<1> USE CasterAssumption DEF TypeOK, OverlapsNoted, Publishing, registry, putVars, getVars,
        subVars, reapVars
<1>1. CASE Tick
  BY <1>1 DEF Tick
<1>2. CASE ReapScan
  BY <1>2 DEF ReapScan, ReapFrom, Unregister, ForgetPositions, EndStreamsOf
<1>3. CASE ReapResume
  BY <1>3 DEF ReapResume, ReapFrom, Unregister, ForgetPositions, EndStreamsOf
<1>4. ASSUME NEW h \in Handlers, PutRequest(h) PROVE OverlapsNoted'
  BY <1>4 DEF PutRequest
<1>5. ASSUME NEW h \in Handlers, PolicyAllows(h) PROVE OverlapsNoted'
  BY <1>5 DEF PolicyAllows
<1>6. ASSUME NEW h \in Handlers, PutRefused(h) PROVE OverlapsNoted'
  BY <1>6 DEF PutRefused
<1>7. ASSUME NEW h \in Handlers, Register(h) PROVE OverlapsNoted'
  BY <1>7 DEF Register
<1>8. ASSUME NEW h \in Handlers, StartStream(h) PROVE OverlapsNoted'
  BY <1>8 DEF StartStream
<1>9. ASSUME NEW h \in Handlers, RespondFails(h) PROVE OverlapsNoted'
  BY <1>9 DEF RespondFails
<1>10. ASSUME NEW h \in Handlers, Chunk(h) PROVE OverlapsNoted'
  BY <1>10 DEF Chunk
<1>11. ASSUME NEW h \in Handlers, EndStream(h) PROVE OverlapsNoted'
  BY <1>11 DEF EndStream, CloseTransport, ForgetPositions, EndStreamsOf, AfterClose
<1>12. ASSUME NEW h \in Handlers, EndStreamNoTransport(h) PROVE OverlapsNoted'
  BY <1>12 DEF EndStreamNoTransport
<1>13. ASSUME NEW h \in Handlers, CloseReturns(h) PROVE OverlapsNoted'
  BY <1>13 DEF CloseReturns
<1>14. ASSUME NEW h \in Handlers, NEW empty \in BOOLEAN, PutBody(h, empty)
       PROVE  OverlapsNoted'
  BY <1>14 DEF PutBody, CloseTransport, ForgetPositions, EndStreamsOf, AfterClose
<1>15. ASSUME NEW r \in Rovers, GetRequest(r) PROVE OverlapsNoted'
  BY <1>15 DEF GetRequest
<1>16. ASSUME NEW r \in Rovers, GetRefused(r) PROVE OverlapsNoted'
  BY <1>16 DEF GetRefused
<1>17. ASSUME NEW r \in Rovers, GetAccepted(r) PROVE OverlapsNoted'
  BY <1>17 DEF GetAccepted
<1>18. ASSUME NEW r \in Rovers, ReadGGA(r) PROVE OverlapsNoted'
  BY <1>18 DEF ReadGGA
<1>19. ASSUME NEW r \in Rovers, StreamEnds(r) PROVE OverlapsNoted'
  BY <1>19 DEF StreamEnds
<1>20. ASSUME NEW r \in Rovers, Unwound(r) PROVE OverlapsNoted'
  BY <1>20 DEF Unwound
<1>21. ASSUME NEW r \in Rovers, NEW gga \in BOOLEAN, StreamFrames(r, gga)
       PROVE  OverlapsNoted'
  BY <1>21 DEF StreamFrames
<1>22. ASSUME NEW r \in Rovers, ShutdownTask(r) PROVE OverlapsNoted'
  BY <1>22 DEF ShutdownTask
<1>23. ASSUME NEW h \in Handlers, CloseCancelled(h) PROVE OverlapsNoted'
  BY <1>23 DEF CloseCancelled
<1>24. CASE UNCHANGED vars
  BY <1>24 DEF vars
<1> QED
  BY <1>1, <1>2, <1>3, <1>4, <1>5, <1>6, <1>7, <1>8, <1>9, <1>10, <1>11,
     <1>12, <1>13, <1>14, <1>15, <1>16, <1>17, <1>18, <1>19, <1>20, <1>21, <1>22,
     <1>23, <1>24
  DEF Next, PutStep, GetStep

\* Only another publisher, or the reaper, takes a publisher's transport away.
LEMMA StepSolo ==
    TypeOK /\ OverlapsNoted /\ SoloPublisherKeepsTransport /\ [Next]_vars => SoloPublisherKeepsTransport'
<1> SUFFICES ASSUME TypeOK, OverlapsNoted, SoloPublisherKeepsTransport, [Next]_vars
             PROVE  SoloPublisherKeepsTransport'
  OBVIOUS
<1> USE CasterAssumption DEF TypeOK, OverlapsNoted, SoloPublisherKeepsTransport, Publishing, registry, putVars, getVars,
        subVars, reapVars
<1>1. CASE Tick
  BY <1>1 DEF Tick
<1>2. CASE ReapScan
  BY <1>2 DEF ReapScan, ReapFrom, Unregister, ForgetPositions, EndStreamsOf
<1>3. CASE ReapResume
  BY <1>3 DEF ReapResume, ReapFrom, Unregister, ForgetPositions, EndStreamsOf
<1>4. ASSUME NEW h \in Handlers, PutRequest(h) PROVE SoloPublisherKeepsTransport'
  BY <1>4 DEF PutRequest
<1>5. ASSUME NEW h \in Handlers, PolicyAllows(h) PROVE SoloPublisherKeepsTransport'
  BY <1>5 DEF PolicyAllows
<1>6. ASSUME NEW h \in Handlers, PutRefused(h) PROVE SoloPublisherKeepsTransport'
  BY <1>6 DEF PutRefused
<1>7. ASSUME NEW h \in Handlers, Register(h) PROVE SoloPublisherKeepsTransport'
  BY <1>7 DEF Register
<1>8. ASSUME NEW h \in Handlers, StartStream(h) PROVE SoloPublisherKeepsTransport'
  BY <1>8 DEF StartStream
<1>9. ASSUME NEW h \in Handlers, RespondFails(h) PROVE SoloPublisherKeepsTransport'
  BY <1>9 DEF RespondFails
<1>10. ASSUME NEW h \in Handlers, Chunk(h) PROVE SoloPublisherKeepsTransport'
  BY <1>10 DEF Chunk
<1>11. ASSUME NEW h \in Handlers, EndStream(h) PROVE SoloPublisherKeepsTransport'
  BY <1>11 DEF EndStream, CloseTransport, ForgetPositions, EndStreamsOf, AfterClose
<1>12. ASSUME NEW h \in Handlers, EndStreamNoTransport(h) PROVE SoloPublisherKeepsTransport'
  BY <1>12 DEF EndStreamNoTransport
<1>13. ASSUME NEW h \in Handlers, CloseReturns(h) PROVE SoloPublisherKeepsTransport'
  BY <1>13 DEF CloseReturns
<1>14. ASSUME NEW h \in Handlers, NEW empty \in BOOLEAN, PutBody(h, empty)
       PROVE  SoloPublisherKeepsTransport'
  BY <1>14 DEF PutBody, CloseTransport, ForgetPositions, EndStreamsOf, AfterClose
<1>15. ASSUME NEW r \in Rovers, GetRequest(r) PROVE SoloPublisherKeepsTransport'
  BY <1>15 DEF GetRequest
<1>16. ASSUME NEW r \in Rovers, GetRefused(r) PROVE SoloPublisherKeepsTransport'
  BY <1>16 DEF GetRefused
<1>17. ASSUME NEW r \in Rovers, GetAccepted(r) PROVE SoloPublisherKeepsTransport'
  BY <1>17 DEF GetAccepted
<1>18. ASSUME NEW r \in Rovers, ReadGGA(r) PROVE SoloPublisherKeepsTransport'
  BY <1>18 DEF ReadGGA
<1>19. ASSUME NEW r \in Rovers, StreamEnds(r) PROVE SoloPublisherKeepsTransport'
  BY <1>19 DEF StreamEnds
<1>20. ASSUME NEW r \in Rovers, Unwound(r) PROVE SoloPublisherKeepsTransport'
  BY <1>20 DEF Unwound
<1>21. ASSUME NEW r \in Rovers, NEW gga \in BOOLEAN, StreamFrames(r, gga)
       PROVE  SoloPublisherKeepsTransport'
  BY <1>21 DEF StreamFrames
<1>22. ASSUME NEW r \in Rovers, ShutdownTask(r) PROVE SoloPublisherKeepsTransport'
  BY <1>22 DEF ShutdownTask
<1>23. ASSUME NEW h \in Handlers, CloseCancelled(h) PROVE SoloPublisherKeepsTransport'
  BY <1>23 DEF CloseCancelled
<1>24. CASE UNCHANGED vars
  BY <1>24 DEF vars
<1> QED
  BY <1>1, <1>2, <1>3, <1>4, <1>5, <1>6, <1>7, <1>8, <1>9, <1>10, <1>11,
     <1>12, <1>13, <1>14, <1>15, <1>16, <1>17, <1>18, <1>19, <1>20, <1>21, <1>22,
     <1>23, <1>24
  DEF Next, PutStep, GetStep

\* No two rovers on one mountpoint have the same username.
OwnUsernames ==
    \A q, r \in Rovers : Position(q) = Position(r) => q = r

\* The position of a streaming rover goes with its mountpoint's transport only.
LEMMA StepPositionKept ==
    ASSUME NEW r0 \in Rovers, OwnUsernames, TypeOK, [Next]_vars,
           Position(r0) \in positions, get[r0] = "stream", get'[r0] = "stream"
    PROVE  Position(r0) \in positions' \/ GetFrom[r0] \notin transports'
<1> DEFINE Kept == Position(r0) \in positions' \/ GetFrom[r0] \notin transports'
<1> SUFFICES Kept
  OBVIOUS
<1> USE CasterAssumption DEF TypeOK, Position, Reaper, registry, putVars, getVars,
        subVars, reapVars
<1>1. CASE Tick
  BY <1>1 DEF Tick
<1>2. CASE ReapScan
  BY <1>2 DEF ReapScan, ReapFrom, Unregister, ForgetPositions, EndStreamsOf
<1>3. CASE ReapResume
  BY <1>3 DEF ReapResume, ReapFrom, Unregister, ForgetPositions, EndStreamsOf
<1>4. ASSUME NEW h \in Handlers, PutRequest(h) PROVE Kept
  BY <1>4 DEF PutRequest
<1>5. ASSUME NEW h \in Handlers, PolicyAllows(h) PROVE Kept
  BY <1>5 DEF PolicyAllows
<1>6. ASSUME NEW h \in Handlers, PutRefused(h) PROVE Kept
  BY <1>6 DEF PutRefused
<1>7. ASSUME NEW h \in Handlers, Register(h) PROVE Kept
  BY <1>7 DEF Register
<1>8. ASSUME NEW h \in Handlers, StartStream(h) PROVE Kept
  BY <1>8 DEF StartStream
<1>9. ASSUME NEW h \in Handlers, RespondFails(h) PROVE Kept
  BY <1>9 DEF RespondFails
<1>10. ASSUME NEW h \in Handlers, Chunk(h) PROVE Kept
  BY <1>10 DEF Chunk
<1>11. ASSUME NEW h \in Handlers, EndStream(h) PROVE Kept
  BY <1>11 DEF EndStream, CloseTransport, ForgetPositions, EndStreamsOf, AfterClose
<1>12. ASSUME NEW h \in Handlers, EndStreamNoTransport(h) PROVE Kept
  BY <1>12 DEF EndStreamNoTransport
<1>13. ASSUME NEW h \in Handlers, CloseReturns(h) PROVE Kept
  BY <1>13 DEF CloseReturns
<1>14. ASSUME NEW h \in Handlers, NEW empty \in BOOLEAN, PutBody(h, empty)
       PROVE  Kept
  BY <1>14 DEF PutBody, CloseTransport, ForgetPositions, EndStreamsOf, AfterClose
<1>15. ASSUME NEW r \in Rovers, GetRequest(r) PROVE Kept
  BY <1>15 DEF GetRequest
<1>16. ASSUME NEW r \in Rovers, GetRefused(r) PROVE Kept
  BY <1>16 DEF GetRefused
<1>17. ASSUME NEW r \in Rovers, GetAccepted(r) PROVE Kept
  BY <1>17 DEF GetAccepted
<1>18. ASSUME NEW r \in Rovers, ReadGGA(r) PROVE Kept
  BY <1>18 DEF ReadGGA
<1>19. ASSUME NEW r \in Rovers, StreamEnds(r) PROVE Kept
  BY <1>19 DEF StreamEnds
<1>20. ASSUME NEW r \in Rovers, Unwound(r) PROVE Kept
  BY <1>20 DEF Unwound, OwnUsernames
<1>21. ASSUME NEW r \in Rovers, NEW gga \in BOOLEAN, StreamFrames(r, gga)
       PROVE  Kept
  BY <1>21 DEF StreamFrames
<1>22. ASSUME NEW r \in Rovers, ShutdownTask(r) PROVE Kept
  BY <1>22 DEF ShutdownTask
<1>23. ASSUME NEW h \in Handlers, CloseCancelled(h) PROVE Kept
  BY <1>23 DEF CloseCancelled
<1>24. CASE UNCHANGED vars
  BY <1>24 DEF vars
<1> QED
  BY <1>1, <1>2, <1>3, <1>4, <1>5, <1>6, <1>7, <1>8, <1>9, <1>10, <1>11,
     <1>12, <1>13, <1>14, <1>15, <1>16, <1>17, <1>18, <1>19, <1>20, <1>21, <1>22,
     <1>23, <1>24
  DEF Next, PutStep, GetStep

\* Together they are inductive.
CasterInv ==
    /\ TypeOK
    /\ TransportsRegistered
    /\ LiveStreamsHaveTransport
    /\ PositionsOwned
    /\ OverlapsNoted
    /\ SoloPublisherKeepsTransport

\* The inductive invariant holds in every reachable state.
THEOREM Inductive == Spec => []CasterInv
<1>1. Init => CasterInv
  BY CasterAssumption
  DEF Init, CasterInv, TypeOK, TransportsRegistered,
      LiveStreamsHaveTransport, PositionsOwned, OverlapsNoted,
      SoloPublisherKeepsTransport, Publishing
<1>2. CasterInv /\ [Next]_vars => CasterInv'
  BY StepTypeOK, StepTransports, StepLiveStreams, StepPositions,
     StepOverlaps, StepSolo
  DEF CasterInv
<1> QED BY <1>1, <1>2, PTL DEF Spec

\* The variables keep their types.
THEOREM TypeCorrect == Spec => []TypeOK
  BY Inductive, PTL DEF CasterInv

\* publish() never raises KeyError: a transport's mountpoint is registered, for
\* any number of stations, rovers and mountpoints.
THEOREM PublishFindsMountpoint == Spec => []TransportsRegistered
  BY Inductive, PTL DEF CasterInv

\* The list of a transport that left the registry is empty: close() and the reaper
\* take every rover off it, for any number of rovers.
THEOREM LiveStreamsServed == Spec => []LiveStreamsHaveTransport
  BY Inductive, PTL DEF CasterInv

\* Every tracked position belongs to a GET handler that will clear it.
THEOREM PositionsCleared == Spec => []PositionsOwned
  BY Inductive, PTL DEF CasterInv

\* A publisher that never shared its mountpoint keeps its transport until the
\* mountpoint is reaped, and its close() does not raise.
THEOREM SoloPublisherSafe == Spec => []SoloPublisherKeepsTransport
  BY Inductive, PTL DEF CasterInv

\* Where rovers have usernames of their own, close(), unregister() and the
\* unwinding of other handlers never take a streaming rover's position along.
THEOREM PositionsKept ==
    ASSUME OwnUsernames
    PROVE  Spec => PositionKeptWhileStreaming
<1>1. ASSUME TypeOK, [Next]_vars
      PROVE  [\A r \in Rovers :
                Position(r) \in positions /\ get[r] = "stream" /\ get'[r] = "stream"
                => Position(r) \in positions' \/ GetFrom[r] \notin transports']_vars
  BY <1>1, StepPositionKept
<1> QED BY <1>1, TypeCorrect, PTL DEF Spec, PositionKeptWhileStreaming
=============================================================================
