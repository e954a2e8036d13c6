------------------------ MODULE Here4BaseCasterProofs ------------------------
(***************************************************************************)
(* Proofs about Here4BaseCaster for queues of any size, any number of      *)
(* commands to write, and any number of ports opened and messages read.    *)
(***************************************************************************)
EXTENDS Here4BaseCaster, SequenceTheorems, TLAPS

\* The types of what connect_loop, read_loop, process_loop and caster_loop hold,
\* the messages apart.
DeviceTypes ==
    /\ args \in [fixed : BOOLEAN, push : BOOLEAN]
    /\ running \in BOOLEAN
    /\ state \in States
    /\ serRef \in 0..opened /\ opened \in 0..MaxHandles
    /\ connector \in [pc : {"poll", "opening", "configuring"}, left : 0..NavWrites]
    /\ reading \subseteq 1..opened
    /\ proc \in [pc : {"get", "configuring"}, ser : 0..opened, left : 0..RtcmWrites + 1]
    /\ pusher \in {"wait", "connecting", "streaming", "sleep"}
    /\ casterState \in CasterStates
    /\ backoff \in 1..MaxBackoff
    /\ configured \subseteq 1..opened
    /\ overtaken \in BOOLEAN

\* The types of the messages under way.
MessageTypes ==
    /\ queue \in Seq([id : 1..count, kind : Kinds]) /\ Len(queue) <= QueueSize
    /\ count \in 0..MaxMessages
    /\ casterQueue \in Seq(1..count) /\ Len(casterQueue) <= CasterQueueSize
    /\ held \in Seq(1..count) /\ Len(held) <= 1
    /\ lastSent \in 0..count

\* connect_loop opens a port only when there is none in ser_ref, and nobody takes
\* the one it is configuring away from it.
PortOwned ==
    /\ state = "SEARCHING" => serRef = 0 /\ connector.pc = "poll"
    /\ connector.pc = "opening" => serRef = 0
    /\ connector.pc = "configuring" => serRef = opened /\ opened # 0
    /\ proc.pc = "configuring" => proc.ser # 0

\* FramesInOrder, between each pair of the places a frame passes through.
PlacesInOrder ==
    /\ \A i \in 1..Len(held) : lastSent < held[i]
    /\ \A i \in 1..Len(casterQueue) : lastSent < casterQueue[i]
    /\ \A i \in 1..Len(queue) : lastSent < queue[i].id
    /\ \A i \in 1..Len(held), j \in 1..Len(casterQueue) : held[i] < casterQueue[j]
    /\ \A i \in 1..Len(held), j \in 1..Len(queue) : held[i] < queue[j].id
    /\ \A i, j \in 1..Len(casterQueue) : i < j => casterQueue[i] < casterQueue[j]
    /\ \A i \in 1..Len(casterQueue), j \in 1..Len(queue) : casterQueue[i] < queue[j].id
    /\ \A i, j \in 1..Len(queue) : i < j => queue[i].id < queue[j].id

\* The inductive invariant, in two parts.
DeviceInv == DeviceTypes /\ PortOwned /\ OneReader /\ AdvancedMeansConfigured
MessageInv == MessageTypes /\ PlacesInOrder
-----------------------------------------------------------------------------
(* The serial port.                                                         *)

LEMMA StepDeviceTypes ==
    ASSUME DeviceInv, [Next]_vars
    PROVE  DeviceTypes'
<1> USE Here4Assumption DEF deviceVars, messageVars, procVars, casterVars, DeviceInv
<1>1. CASE FindPort
  BY <1>1 DEF FindPort, DeviceTypes, States
<1>2. CASE OpenFails
  BY <1>2 DEF OpenFails, DeviceTypes, Polling, States
<1>3. CASE OpenSucceeds
  BY <1>3 DEF OpenSucceeds, DeviceTypes, States
<1>4. CASE WriteNav
  BY <1>4 DEF WriteNav, DeviceTypes, Polling, States, PortOwned
<1>5. CASE NavWriteFails
  BY <1>5 DEF NavWriteFails, DeviceTypes
<1>6. ASSUME NEW h \in 1..MaxHandles, NEW kind \in Kinds, Read(h, kind) PROVE DeviceTypes'
  BY <1>6 DEF Read, DeviceTypes
<1>7. ASSUME NEW h \in 1..MaxHandles, ReadFails(h) PROVE DeviceTypes'
  BY <1>7 DEF ReadFails, DeviceTypes, States
<1>8. ASSUME NEW kind \in Kinds, ProcessDisplay(kind) PROVE DeviceTypes'
  BY <1>8 DEF ProcessDisplay, TakeMessage, DeviceTypes
<1>9. CASE ProcessFix
  BY <1>9 DEF ProcessFix, TakeMessage, DeviceTypes
<1>10. CASE WriteRtcm
  <2>1. CASE proc.left > 1
    BY <1>10, <2>1 DEF WriteRtcm, DeviceTypes
  <2>2. CASE ~(proc.left > 1)
    <3>1. /\ proc' = Getting /\ state' \in {"FIXED", "SURVEY_IN"}
          /\ configured' = configured \cup {proc.ser}
          /\ overtaken' = (overtaken \/ serRef # proc.ser)
          /\ UNCHANGED <<args, running, serRef, opened, connector, reading, pusher,
                        casterState, backoff>>
      BY <1>10, <2>2 DEF WriteRtcm
    <3>2. overtaken' \in BOOLEAN
      BY <3>1
    <3>3. proc' \in [pc : {"get", "configuring"}, ser : 0..opened', left : 0..RtcmWrites + 1]
      BY <3>1 DEF Getting, DeviceTypes
    <3>4. configured' \subseteq 1..opened'
      BY <1>10, <3>1 DEF WriteRtcm, PortOwned, DeviceTypes
    <3> QED BY <3>1, <3>2, <3>3, <3>4 DEF DeviceTypes, States
  <2> QED BY <2>1, <2>2
<1>11. CASE RtcmWriteFails
  BY <1>11 DEF RtcmWriteFails, DeviceTypes
<1>12. CASE ProcessSurveyed
  BY <1>12 DEF ProcessSurveyed, TakeMessage, DeviceTypes, States
<1>13. CASE ProcessFrame
  BY <1>13 DEF ProcessFrame, TakeMessage, DeviceTypes
<1>14. CASE Attempt
  BY <1>14 DEF Attempt, DeviceTypes, CasterStates
<1>15. CASE Accepted
  BY <1>15 DEF Accepted, DeviceTypes, CasterStates
<1>16. CASE TakeFrame
  BY <1>16 DEF TakeFrame, DeviceTypes
<1>17. CASE SendFrame
  BY <1>17 DEF SendFrame, DeviceTypes
<1>18. CASE ResponseEnds
  BY <1>18 DEF ResponseEnds, DeviceTypes
<1>19. CASE PushFails
  BY <1>19 DEF PushFails, DeviceTypes, CasterStates
<1>20. CASE Retry
  BY <1>20 DEF Retry, DeviceTypes
<1>21. CASE UNCHANGED vars
  BY <1>21 DEF vars, DeviceTypes
<1> QED
  BY <1>1, <1>2, <1>3, <1>4, <1>5, <1>6, <1>7, <1>8, <1>9, <1>10, <1>11,
     <1>12, <1>13, <1>14, <1>15, <1>16, <1>17, <1>18, <1>19, <1>20, <1>21
  DEF Next, Connect, Process, Push

\* connect_loop, read_loop and process_loop keep out of each other's port.
LEMMA StepPortOwned ==
    ASSUME DeviceInv, [Next]_vars
    PROVE  PortOwned' /\ OneReader'
<1> USE DEF deviceVars, messageVars, procVars, casterVars, DeviceInv, DeviceTypes, PortOwned, OneReader
<1>1. CASE FindPort
  BY <1>1 DEF FindPort
<1>2. CASE OpenFails
  BY <1>2 DEF OpenFails, Polling
<1>3. CASE OpenSucceeds
  BY <1>3 DEF OpenSucceeds
<1>4. CASE WriteNav
  BY <1>4 DEF WriteNav, Polling
<1>5. CASE NavWriteFails
  BY <1>5 DEF NavWriteFails
<1>6. ASSUME NEW h \in 1..MaxHandles, NEW kind \in Kinds, Read(h, kind) PROVE PortOwned' /\ OneReader'
  BY <1>6 DEF Read
<1>7. ASSUME NEW h \in 1..MaxHandles, ReadFails(h) PROVE PortOwned' /\ OneReader'
  BY <1>7 DEF ReadFails
<1>8. ASSUME NEW kind \in Kinds, ProcessDisplay(kind) PROVE PortOwned' /\ OneReader'
  BY <1>8 DEF ProcessDisplay, TakeMessage
<1>9. CASE ProcessFix
  BY <1>9 DEF ProcessFix, TakeMessage
<1>10. CASE WriteRtcm
  BY <1>10 DEF WriteRtcm, Getting
<1>11. CASE RtcmWriteFails
  BY <1>11 DEF RtcmWriteFails
<1>12. CASE ProcessSurveyed
  BY <1>12 DEF ProcessSurveyed, TakeMessage
<1>13. CASE ProcessFrame
  BY <1>13 DEF ProcessFrame, TakeMessage
<1>14. CASE Attempt
  BY <1>14 DEF Attempt
<1>15. CASE Accepted
  BY <1>15 DEF Accepted
<1>16. CASE TakeFrame
  BY <1>16 DEF TakeFrame
<1>17. CASE SendFrame
  BY <1>17 DEF SendFrame
<1>18. CASE ResponseEnds
  BY <1>18 DEF ResponseEnds
<1>19. CASE PushFails
  BY <1>19 DEF PushFails
<1>20. CASE Retry
  BY <1>20 DEF Retry
<1>21. CASE UNCHANGED vars
  BY <1>21 DEF vars
<1> QED
  BY <1>1, <1>2, <1>3, <1>4, <1>5, <1>6, <1>7, <1>8, <1>9, <1>10, <1>11,
     <1>12, <1>13, <1>14, <1>15, <1>16, <1>17, <1>18, <1>19, <1>20, <1>21
  DEF Next, Connect, Process, Push

\* process_loop advances the state for the port it has configured, or overtaken
\* tells that it did so for a port that is gone.
LEMMA StepAdvanced ==
    ASSUME DeviceInv, [Next]_vars
    PROVE  AdvancedMeansConfigured'
<1> USE DEF deviceVars, messageVars, procVars, casterVars, DeviceInv, DeviceTypes, PortOwned,
            AdvancedMeansConfigured
<1>1. CASE FindPort
  BY <1>1 DEF FindPort
<1>2. CASE OpenFails
  BY <1>2 DEF OpenFails, Polling
<1>3. CASE OpenSucceeds
  BY <1>3 DEF OpenSucceeds
<1>4. CASE WriteNav
  BY <1>4 DEF WriteNav, Polling
<1>5. CASE NavWriteFails
  BY <1>5 DEF NavWriteFails
<1>6. ASSUME NEW h \in 1..MaxHandles, NEW kind \in Kinds, Read(h, kind) PROVE AdvancedMeansConfigured'
  BY <1>6 DEF Read
<1>7. ASSUME NEW h \in 1..MaxHandles, ReadFails(h) PROVE AdvancedMeansConfigured'
  BY <1>7 DEF ReadFails
<1>8. ASSUME NEW kind \in Kinds, ProcessDisplay(kind) PROVE AdvancedMeansConfigured'
  BY <1>8 DEF ProcessDisplay, TakeMessage
<1>9. CASE ProcessFix
  BY <1>9 DEF ProcessFix, TakeMessage
<1>10. CASE WriteRtcm
  BY <1>10 DEF WriteRtcm, Getting
<1>11. CASE RtcmWriteFails
  BY <1>11 DEF RtcmWriteFails
<1>12. CASE ProcessSurveyed
  BY <1>12 DEF ProcessSurveyed, TakeMessage
<1>13. CASE ProcessFrame
  BY <1>13 DEF ProcessFrame, TakeMessage
<1>14. CASE Attempt
  BY <1>14 DEF Attempt
<1>15. CASE Accepted
  BY <1>15 DEF Accepted
<1>16. CASE TakeFrame
  BY <1>16 DEF TakeFrame
<1>17. CASE SendFrame
  BY <1>17 DEF SendFrame
<1>18. CASE ResponseEnds
  BY <1>18 DEF ResponseEnds
<1>19. CASE PushFails
  BY <1>19 DEF PushFails
<1>20. CASE Retry
  BY <1>20 DEF Retry
<1>21. CASE UNCHANGED vars
  BY <1>21 DEF vars
<1> QED
  BY <1>1, <1>2, <1>3, <1>4, <1>5, <1>6, <1>7, <1>8, <1>9, <1>10, <1>11,
     <1>12, <1>13, <1>14, <1>15, <1>16, <1>17, <1>18, <1>19, <1>20, <1>21
  DEF Next, Connect, Process, Push
-----------------------------------------------------------------------------
(* The messages.                                                            *)

\* The first of a queue of messages, and the others.
LEMMA TakeEffect ==
    ASSUME MessageInv, NEW kind, TakeMessage(kind)
    PROVE  /\ queue' \in Seq([id : 1..count, kind : Kinds]) /\ Len(queue) \in Nat
           /\ Len(queue') = Len(queue) - 1 /\ 1 \in 1..Len(queue)
           /\ Head(queue) = queue[1] /\ queue[1].id \in 1..count
           /\ \A i \in 1..Len(queue') : i + 1 \in 1..Len(queue) /\ queue'[i] = queue[i + 1]
<1> DEFINE Messages == [id : 1..count, kind : Kinds]
<1>1. queue \in Seq(Messages) /\ queue # <<>> /\ queue' = Tail(queue)
  BY DEF MessageInv, MessageTypes, TakeMessage
<1>2. \A m \in Messages : m.id \in 1..count
  OBVIOUS
<1> HIDE DEF Messages
<1>3. /\ Len(queue) \in Nat /\ Len(queue) # 0 /\ Head(queue) = queue[1]
      /\ queue' \in Seq(Messages) /\ Len(queue') = Len(queue) - 1
      /\ \A i \in 1..Len(queue') : queue'[i] = queue[i + 1]
  BY <1>1
<1>4. 1 \in 1..Len(queue) /\ queue[1] \in Messages
  BY <1>1, <1>3
<1>5. \A i \in 1..Len(queue') : i + 1 \in 1..Len(queue)
  BY <1>3
<1> QED BY <1>2, <1>3, <1>4, <1>5 DEF Messages

\* Numbers of the messages under way lie between 1 and count.
LEMMA MessageFacts ==
    ASSUME MessageInv
    PROVE  /\ count \in Nat /\ lastSent \in Nat /\ lastSent <= count
           /\ Len(queue) \in Nat /\ Len(casterQueue) \in Nat /\ Len(held) \in Nat
           /\ \A i \in 1..Len(queue) : queue[i].id \in Nat /\ queue[i].id <= count
           /\ \A i \in 1..Len(casterQueue) : casterQueue[i] \in Nat /\ casterQueue[i] <= count
           /\ \A i \in 1..Len(held) : held[i] \in Nat /\ held[i] <= count
<1> USE Here4Assumption
<1> DEFINE Messages == [id : 1..count, kind : Kinds]
<1>1. /\ queue \in Seq(Messages) /\ casterQueue \in Seq(1..count) /\ held \in Seq(1..count)
      /\ count \in Nat /\ lastSent \in Nat /\ lastSent <= count
  BY DEF MessageInv, MessageTypes
<1>2. \A m \in Messages : m.id \in 1..count
  OBVIOUS
<1> HIDE DEF Messages
<1>3. /\ Len(queue) \in Nat /\ Len(casterQueue) \in Nat /\ Len(held) \in Nat
      /\ \A i \in 1..Len(queue) : queue[i] \in Messages
      /\ \A i \in 1..Len(casterQueue) : casterQueue[i] \in 1..count
      /\ \A i \in 1..Len(held) : held[i] \in 1..count
  BY <1>1
<1> QED BY <1>1, <1>2, <1>3

\* A message that is read comes after all the others.
LEMMA ReadKeeps ==
    ASSUME MessageInv, NEW h, NEW kind \in Kinds, Read(h, kind)
    PROVE  MessageInv'
<1> USE Here4Assumption
<1> DEFINE New == [id : 1..(count + 1), kind : Kinds]
           m == [id |-> count + 1, kind |-> kind]
<1>a. /\ count \in Nat /\ count < MaxMessages /\ count' = count + 1
      /\ UNCHANGED <<casterQueue, held, lastSent>>
  BY MessageFacts DEF Read, casterVars
<1>1. m \in New /\ m.id = count + 1
  BY <1>a
<1>2. queue \in Seq(New) /\ casterQueue \in Seq(1..(count + 1)) /\ held \in Seq(1..(count + 1))
  <2>1. 1..count \subseteq 1..(count + 1)
    BY <1>a
  <2>2. [id : 1..count, kind : Kinds] \subseteq New
    BY <2>1
  <2> DEFINE Old == [id : 1..count, kind : Kinds]
             Ids == 1..count
             Ids1 == 1..(count + 1)
  <2>3. queue \in Seq(Old) /\ casterQueue \in Seq(Ids) /\ held \in Seq(Ids)
    BY DEF MessageInv, MessageTypes
  <2>4. Old \subseteq New /\ Ids \subseteq Ids1
    BY <2>1, <2>2
  <2> HIDE DEF New, Old, Ids, Ids1
  <2>5. queue \in Seq(New) /\ casterQueue \in Seq(Ids1) /\ held \in Seq(Ids1)
    BY <2>3, <2>4, SeqMonotonic
  <2> QED BY <2>5 DEF Ids1
<1>3. queue' = IF Len(queue) < QueueSize THEN Append(queue, m) ELSE queue
  BY DEF Read
<1> HIDE DEF New, m
<1>4. /\ queue' \in Seq(New) /\ Len(queue') <= QueueSize /\ Len(queue') \in Nat
      /\ \A i \in 1..Len(queue') :
            (i \in 1..Len(queue) /\ queue'[i] = queue[i]) \/ (i = Len(queue) + 1 /\ queue'[i] = m)
  <2>0. Len(queue) \in Nat /\ Len(queue) <= QueueSize
    BY <1>2 DEF MessageInv, MessageTypes
  <2>1. CASE Len(queue) < QueueSize
    <3>1. queue' = Append(queue, m)
      BY <1>3, <2>1
    <3>2. /\ queue' \in Seq(New) /\ Len(queue') = Len(queue) + 1
          /\ \A i \in 1..Len(queue) : queue'[i] = queue[i]
          /\ queue'[Len(queue) + 1] = m
      BY <1>1, <1>2, <3>1, AppendProperties
    <3> QED BY <2>0, <2>1, <3>2
  <2>2. CASE ~(Len(queue) < QueueSize)
    BY <1>2, <1>3, <2>0, <2>2
  <2> QED BY <2>1, <2>2
<1>5. MessageTypes'
  BY <1>2, <1>4, <1>a DEF MessageInv, MessageTypes, New
<1>6. PlacesInOrder'
  <2>a. /\ lastSent <= count /\ lastSent \in Nat /\ Len(queue) \in Nat /\ count \in Nat
        /\ \A i \in 1..Len(queue) : queue[i].id \in Nat /\ queue[i].id <= count
        /\ \A i \in 1..Len(casterQueue) : casterQueue[i] \in Nat /\ casterQueue[i] <= count
        /\ \A i \in 1..Len(held) : held[i] \in Nat /\ held[i] <= count
    BY MessageFacts
  <2>b. PlacesInOrder
    BY DEF MessageInv
  <2>1. ASSUME NEW j \in 1..Len(queue')
        PROVE  /\ lastSent < queue'[j].id
               /\ \A i \in 1..Len(held) : held[i] < queue'[j].id
               /\ \A i \in 1..Len(casterQueue) : casterQueue[i] < queue'[j].id
               /\ \A i \in 1..Len(queue') : i < j => queue'[i].id < queue'[j].id
    <3>1. CASE j \in 1..Len(queue) /\ queue'[j] = queue[j]
      <4>1. ASSUME NEW i \in 1..Len(queue'), i < j PROVE i \in 1..Len(queue) /\ queue'[i] = queue[i]
        <5>1. i # Len(queue) + 1
          BY <2>a, <3>1, <4>1
        <5> QED BY <1>4, <5>1
      <4> QED BY <2>b, <3>1, <4>1 DEF PlacesInOrder
    <3>2. CASE j = Len(queue) + 1 /\ queue'[j] = m
      <4>0. queue'[j].id = count + 1
        BY <1>1, <3>2
      <4>1. ASSUME NEW i \in 1..Len(queue'), i < j PROVE queue'[i].id <= count /\ queue'[i].id \in Nat
        <5>1. i # Len(queue) + 1
          BY <2>a, <3>2, <4>1
        <5>2. i \in 1..Len(queue) /\ queue'[i] = queue[i]
          BY <1>4, <5>1
        <5> QED BY <2>a, <5>2
      <4> QED BY <2>a, <4>0, <4>1
    <3> QED BY <1>4, <3>1, <3>2
  <2> QED BY <1>a, <2>1, <2>b DEF PlacesInOrder
<1> QED BY <1>5, <1>6 DEF MessageInv

\* A message is taken from the queue and not passed on.
LEMMA DropKeeps ==
    ASSUME MessageInv, NEW kind, TakeMessage(kind), UNCHANGED <<count, casterQueue, held, lastSent>>
    PROVE  MessageInv'
<1>1. /\ queue' \in Seq([id : 1..count, kind : Kinds]) /\ Len(queue) \in Nat
      /\ Len(queue') = Len(queue) - 1 /\ 1 \in 1..Len(queue)
      /\ \A i \in 1..Len(queue') : i + 1 \in 1..Len(queue) /\ queue'[i] = queue[i + 1]
  BY TakeEffect
<1>2. MessageTypes'
  <2>1. Len(queue') <= QueueSize
    BY <1>1, Here4Assumption DEF MessageInv, MessageTypes
  <2> QED BY <1>1, <2>1 DEF MessageInv, MessageTypes
<1>3. PlacesInOrder'
  <2> USE DEF MessageInv, PlacesInOrder
  <2>1. \A i \in 1..Len(queue') : lastSent < queue'[i].id
    BY <1>1
  <2>2. \A i \in 1..Len(held), j \in 1..Len(queue') : held[i] < queue'[j].id
    BY <1>1
  <2>3. \A i \in 1..Len(casterQueue), j \in 1..Len(queue') : casterQueue[i] < queue'[j].id
    BY <1>1
  <2>4. \A i, j \in 1..Len(queue') : i < j => queue'[i].id < queue'[j].id
    <3> SUFFICES ASSUME NEW i \in 1..Len(queue'), NEW j \in 1..Len(queue'), i < j
                 PROVE  queue'[i].id < queue'[j].id
      OBVIOUS
    <3>1. i + 1 \in 1..Len(queue) /\ j + 1 \in 1..Len(queue) /\ i + 1 < j + 1
      BY <1>1
    <3> QED BY <1>1, <3>1
  <2> QED BY <2>1, <2>2, <2>3, <2>4
<1> QED BY <1>2, <1>3 DEF MessageInv

\* A frame is passed on from the queue to the caster's queue, or dropped.
LEMMA FrameKeeps ==
    ASSUME MessageInv, ProcessFrame
    PROVE  MessageInv'
<1>a. TakeMessage("RTCM") /\ UNCHANGED <<count, held, lastSent>>
  BY DEF ProcessFrame, casterVars
<1>1. CASE UNCHANGED casterQueue
  BY <1>1, <1>a, DropKeeps
<1>2. CASE Len(casterQueue) < CasterQueueSize /\ casterQueue' = Append(casterQueue, Head(queue).id)
  <2>1. /\ queue' \in Seq([id : 1..count, kind : Kinds]) /\ Len(queue) \in Nat
        /\ Len(queue') = Len(queue) - 1 /\ 1 \in 1..Len(queue)
        /\ Head(queue) = queue[1] /\ queue[1].id \in 1..count
        /\ \A i \in 1..Len(queue') : i + 1 \in 1..Len(queue) /\ queue'[i] = queue[i + 1]
    BY <1>a, TakeEffect
  <2> DEFINE c == queue[1].id
  <2>2. /\ casterQueue' \in Seq(1..count) /\ Len(casterQueue') = Len(casterQueue) + 1
        /\ \A i \in 1..Len(casterQueue) : casterQueue'[i] = casterQueue[i]
        /\ casterQueue'[Len(casterQueue) + 1] = c
    <3>1. casterQueue \in Seq(1..count) /\ c \in 1..count /\ casterQueue' = Append(casterQueue, c)
      BY <1>2, <2>1 DEF MessageInv, MessageTypes
    <3> HIDE DEF c
    <3> QED BY <3>1, AppendProperties
  <2>3. MessageTypes'
    <3>1. Len(queue') <= QueueSize /\ Len(casterQueue') <= CasterQueueSize
      BY <1>2, <2>1, <2>2, MessageFacts, Here4Assumption DEF MessageInv, MessageTypes
    <3> QED BY <1>a, <2>1, <2>2, <3>1 DEF MessageInv, MessageTypes
  <2>4. PlacesInOrder'
    <3> USE MessageFacts DEF MessageInv, PlacesInOrder
    <3>1. \A i \in 1..Len(casterQueue') :
             \/ (i \in 1..Len(casterQueue) /\ casterQueue'[i] = casterQueue[i])
             \/ (i = Len(casterQueue) + 1 /\ casterQueue'[i] = c)
      <4> HIDE DEF c
      <4>1. Len(casterQueue) \in Nat
        OBVIOUS
      <4> QED BY <2>2, <4>1
    <3>2. /\ lastSent < c /\ c \in Nat
          /\ \A i \in 1..Len(held) : held[i] < c
          /\ \A i \in 1..Len(casterQueue) : casterQueue[i] < c
          /\ \A i \in 1..Len(queue') : c < queue'[i].id
      <4>1. lastSent < c /\ c \in Nat
        BY <2>1
      <4>2. \A i \in 1..Len(held) : held[i] < c
        BY <2>1
      <4>3. \A i \in 1..Len(casterQueue) : casterQueue[i] < c
        BY <2>1
      <4>4. ASSUME NEW i \in 1..Len(queue') PROVE c < queue'[i].id
        <5>1. i + 1 \in 1..Len(queue) /\ 1 < i + 1
          BY <2>1
        <5> QED BY <2>1, <5>1
      <4> QED BY <4>1, <4>2, <4>3, <4>4
    <3> HIDE DEF c
    <3>3. \A i \in 1..Len(queue') : lastSent < queue'[i].id
      BY <2>1
    <3>4. \A i \in 1..Len(held), j \in 1..Len(queue') : held[i] < queue'[j].id
      BY <2>1
    <3>5. \A i, j \in 1..Len(queue') : i < j => queue'[i].id < queue'[j].id
      <4> SUFFICES ASSUME NEW i \in 1..Len(queue'), NEW j \in 1..Len(queue'), i < j
                   PROVE  queue'[i].id < queue'[j].id
        OBVIOUS
      <4>1. i + 1 \in 1..Len(queue) /\ j + 1 \in 1..Len(queue) /\ i + 1 < j + 1
        BY <2>1
      <4> QED BY <2>1, <4>1
    <3>6. \A i \in 1..Len(casterQueue') : lastSent < casterQueue'[i]
      BY <3>1, <3>2
    <3>7. \A i \in 1..Len(held), j \in 1..Len(casterQueue') : held[i] < casterQueue'[j]
      BY <3>1, <3>2
    <3>8. \A i, j \in 1..Len(casterQueue') : i < j => casterQueue'[i] < casterQueue'[j]
      <4> SUFFICES ASSUME NEW i \in 1..Len(casterQueue'), NEW j \in 1..Len(casterQueue'), i < j
                   PROVE  casterQueue'[i] < casterQueue'[j]
        OBVIOUS
      <4>1. i # Len(casterQueue) + 1
        BY <2>2
      <4>2. i \in 1..Len(casterQueue) /\ casterQueue'[i] = casterQueue[i]
        BY <3>1, <4>1
      <4>3. CASE j \in 1..Len(casterQueue) /\ casterQueue'[j] = casterQueue[j]
        BY <4>2, <4>3
      <4>4. CASE casterQueue'[j] = c
        BY <3>2, <4>2, <4>4
      <4> QED BY <3>1, <4>3, <4>4
    <3>9. \A i \in 1..Len(casterQueue'), j \in 1..Len(queue') : casterQueue'[i] < queue'[j].id
      BY <2>1, <3>1, <3>2
    <3> QED BY <1>a, <3>3, <3>4, <3>5, <3>6, <3>7, <3>8, <3>9
  <2> QED BY <2>3, <2>4 DEF MessageInv
<1> QED BY <1>1, <1>2 DEF ProcessFrame

\* The generator takes the oldest frame of the caster's queue.
LEMMA TakeFrameKeeps ==
    ASSUME MessageInv, TakeFrame
    PROVE  MessageInv'
<1>a. /\ held = <<>> /\ casterQueue # <<>> /\ held' = <<Head(casterQueue)>>
      /\ casterQueue' = Tail(casterQueue) /\ UNCHANGED <<queue, count, lastSent>>
  BY DEF TakeFrame, messageVars
<1>1. /\ Len(casterQueue) \in Nat /\ Len(casterQueue) # 0 /\ Head(casterQueue) = casterQueue[1]
      /\ casterQueue' \in Seq(1..count) /\ Len(casterQueue') = Len(casterQueue) - 1
      /\ \A i \in 1..Len(casterQueue') : casterQueue'[i] = casterQueue[i + 1]
      /\ casterQueue[1] \in 1..count
  BY <1>a DEF MessageInv, MessageTypes
<1>2. held' \in Seq(1..count) /\ Len(held') = 1 /\ held'[1] = casterQueue[1]
  BY <1>1, <1>a
<1>3. MessageTypes'
  <2>1. Len(casterQueue') <= CasterQueueSize
    BY <1>1, Here4Assumption DEF MessageInv, MessageTypes
  <2> QED BY <1>1, <1>2, <1>a, <2>1 DEF MessageInv, MessageTypes
<1>4. PlacesInOrder'
  <2> USE DEF MessageInv, PlacesInOrder
  <2>0. 1 \in 1..Len(casterQueue) /\ \A i \in 1..Len(casterQueue') : i + 1 \in 1..Len(casterQueue)
    BY <1>1
  <2>1. \A i \in 1..Len(held') : held'[i] = casterQueue[1]
    BY <1>2
  <2>2. \A i \in 1..Len(casterQueue') : lastSent < casterQueue'[i] /\ casterQueue[1] < casterQueue'[i]
    BY <1>1, <2>0
  <2>3. \A i, j \in 1..Len(casterQueue') : i < j => casterQueue'[i] < casterQueue'[j]
    BY <1>1, <2>0
  <2>4. \A i \in 1..Len(casterQueue'), j \in 1..Len(queue) : casterQueue'[i] < queue[j].id
    BY <1>1, <2>0
  <2> QED BY <1>a, <2>0, <2>1, <2>2, <2>3, <2>4
<1> QED BY <1>3, <1>4 DEF MessageInv

\* The generator's frame is sent.
LEMMA SendKeeps ==
    ASSUME MessageInv, SendFrame
    PROVE  MessageInv'
<1>a. /\ held # <<>> /\ lastSent' = Head(held) /\ held' = <<>>
      /\ UNCHANGED <<queue, count, casterQueue>>
  BY DEF SendFrame, messageVars
<1>1. 1 \in 1..Len(held) /\ Head(held) = held[1] /\ held[1] \in 1..count
  BY <1>a DEF MessageInv, MessageTypes
<1>2. MessageTypes'
  <2>1. held' \in Seq(1..count) /\ Len(held') <= 1
    BY <1>a
  <2>2. lastSent' \in 0..count
    BY <1>1, <1>a, MessageFacts
  <2> QED BY <1>a, <2>1, <2>2 DEF MessageInv, MessageTypes
<1>3. PlacesInOrder'
  <2>1. Len(held') = 0
    BY <1>a
  <2> QED BY <1>1, <1>a, <2>1 DEF MessageInv, PlacesInOrder
<1> QED BY <1>2, <1>3 DEF MessageInv

\* The generator's frame is lost with its connection.
LEMMA LoseKeeps ==
    ASSUME MessageInv, held' = <<>>, UNCHANGED <<queue, count, casterQueue, lastSent>>
    PROVE  MessageInv'
<1>1. held' \in Seq(1..count) /\ Len(held') = 0
  OBVIOUS
<1> QED BY <1>1 DEF MessageInv, MessageTypes, PlacesInOrder

LEMMA StepMessages ==
    ASSUME MessageInv, [Next]_vars
    PROVE  MessageInv'
<1> USE DEF deviceVars, messageVars, procVars, casterVars
<1>a. ASSUME UNCHANGED <<queue, count, casterQueue, held, lastSent>> PROVE MessageInv'
  BY <1>a DEF MessageInv, MessageTypes, PlacesInOrder
<1>1. CASE FindPort
  BY <1>1, <1>a DEF FindPort
<1>2. CASE OpenFails
  BY <1>2, <1>a DEF OpenFails
<1>3. CASE OpenSucceeds
  BY <1>3, <1>a DEF OpenSucceeds
<1>4. CASE WriteNav
  BY <1>4, <1>a DEF WriteNav
<1>5. CASE NavWriteFails
  BY <1>5, <1>a DEF NavWriteFails
<1>6. ASSUME NEW h \in 1..MaxHandles, NEW kind \in Kinds, Read(h, kind) PROVE MessageInv'
  BY <1>6, ReadKeeps
<1>7. ASSUME NEW h \in 1..MaxHandles, ReadFails(h) PROVE MessageInv'
  BY <1>7, <1>a DEF ReadFails
<1>8. ASSUME NEW kind \in Kinds, ProcessDisplay(kind) PROVE MessageInv'
  BY <1>8, DropKeeps DEF ProcessDisplay
<1>9. CASE ProcessFix
  BY <1>9, DropKeeps DEF ProcessFix
<1>10. CASE WriteRtcm
  BY <1>10, <1>a DEF WriteRtcm
<1>11. CASE RtcmWriteFails
  BY <1>11, <1>a DEF RtcmWriteFails
<1>12. CASE ProcessSurveyed
  BY <1>12, DropKeeps DEF ProcessSurveyed
<1>13. CASE ProcessFrame
  BY <1>13, FrameKeeps
<1>14. CASE Attempt
  BY <1>14, <1>a DEF Attempt
<1>15. CASE Accepted
  BY <1>15, <1>a DEF Accepted
<1>16. CASE TakeFrame
  BY <1>16, TakeFrameKeeps
<1>17. CASE SendFrame
  BY <1>17, SendKeeps
<1>18. CASE ResponseEnds
  BY <1>18, LoseKeeps DEF ResponseEnds
<1>19. CASE PushFails
  BY <1>19, LoseKeeps DEF PushFails
<1>20. CASE Retry
  BY <1>20, <1>a DEF Retry
<1>21. CASE UNCHANGED vars
  BY <1>21, <1>a DEF vars
<1> QED
  BY <1>1, <1>2, <1>3, <1>4, <1>5, <1>6, <1>7, <1>8, <1>9, <1>10, <1>11,
     <1>12, <1>13, <1>14, <1>15, <1>16, <1>17, <1>18, <1>19, <1>20, <1>21
  DEF Next, Connect, Process, Push

\* Two increasing sequences of which the first ends below the second make one.
LEMMA IncreasingConcat ==
    ASSUME NEW s \in Seq(Nat), NEW t \in Seq(Nat),
           \A i, j \in 1..Len(s) : i < j => s[i] < s[j],
           \A i, j \in 1..Len(t) : i < j => t[i] < t[j],
           \A i \in 1..Len(s), j \in 1..Len(t) : s[i] < t[j]
    PROVE  /\ s \o t \in Seq(Nat) /\ Len(s \o t) = Len(s) + Len(t)
           /\ \A i, j \in 1..Len(s \o t) : i < j => (s \o t)[i] < (s \o t)[j]
           /\ \A i \in 1..Len(s \o t) : \/ \E k \in 1..Len(s) : (s \o t)[i] = s[k]
                                        \/ \E k \in 1..Len(t) : (s \o t)[i] = t[k]
<1>1. /\ s \o t \in Seq(Nat) /\ Len(s \o t) = Len(s) + Len(t)
      /\ Len(s) \in Nat /\ Len(t) \in Nat
      /\ \A i \in 1..(Len(s) + Len(t)) : (s \o t)[i] = IF i <= Len(s) THEN s[i] ELSE t[i - Len(s)]
  BY ConcatProperties
<1>2. \A i \in 1..(Len(s) + Len(t)) : IF i <= Len(s) THEN i \in 1..Len(s)
                                      ELSE i - Len(s) \in 1..Len(t)
  BY <1>1
<1>3. ASSUME NEW i \in 1..(Len(s) + Len(t)), NEW j \in 1..(Len(s) + Len(t)), i < j
      PROVE  (s \o t)[i] < (s \o t)[j]
  <2>1. CASE j <= Len(s)
    BY <1>1, <1>2, <1>3, <2>1
  <2>2. CASE i <= Len(s) /\ ~(j <= Len(s))
    BY <1>1, <1>2, <1>3, <2>2
  <2>3. CASE ~(i <= Len(s))
    <3>1. ~(j <= Len(s)) /\ i - Len(s) < j - Len(s)
      BY <1>1, <1>3, <2>3
    <3> QED BY <1>1, <1>2, <2>3, <3>1
  <2> QED BY <1>1, <1>3, <2>1, <2>2, <2>3
<1> QED BY <1>1, <1>2, <1>3

\* Order between the places is order along the pipeline.
LEMMA PlacesGiveOrder == ASSUME MessageInv PROVE FramesInOrder
<1> DEFINE ids == [i \in DOMAIN queue |-> queue[i].id]
           a == <<lastSent>>
           b == a \o held
           c == b \o casterQueue
           Inc(s) == \A i, j \in 1..Len(s) : i < j => s[i] < s[j]
<1>1. /\ lastSent \in Nat /\ held \in Seq(Nat) /\ casterQueue \in Seq(Nat)
      /\ Len(held) \in Nat /\ Len(held) <= 1
  <2>1. 1..count \subseteq Nat
    BY MessageFacts
  <2> QED BY <2>1, MessageFacts, SeqMonotonic DEF MessageInv, MessageTypes
<1>2. ids \in Seq(Nat) /\ Len(ids) = Len(queue) /\ \A i \in 1..Len(queue) : ids[i] = queue[i].id
  <2>1. DOMAIN queue = 1..Len(queue)
    BY LenProperties DEF MessageInv, MessageTypes
  <2>2. ids \in [1..Len(queue) -> Nat] /\ Len(queue) \in Nat
    BY <2>1, MessageFacts
  <2> QED BY <2>1, <2>2
<1>3. a \in Seq(Nat) /\ Len(a) = 1 /\ a[1] = lastSent
  BY <1>1
<1> HIDE DEF ids, a
<1>4. b \in Seq(Nat) /\ Inc(b) /\ \A i \in 1..Len(b) : \/ b[i] = lastSent
                                                       \/ \E k \in 1..Len(held) : b[i] = held[k]
  <2>1. Inc(a) /\ Inc(held) /\ \A i \in 1..Len(a), j \in 1..Len(held) : a[i] < held[j]
    BY <1>1, <1>3 DEF MessageInv, PlacesInOrder
  <2>2. /\ b \in Seq(Nat) /\ Inc(b)
        /\ \A i \in 1..Len(b) : \/ \E k \in 1..Len(a) : b[i] = a[k]
                                \/ \E k \in 1..Len(held) : b[i] = held[k]
    BY <1>1, <1>3, <2>1, IncreasingConcat
  <2> HIDE DEF b
  <2>3. \A k \in 1..Len(a) : a[k] = lastSent
    BY <1>3
  <2> QED BY <2>2, <2>3
<1> HIDE DEF b
<1>5. c \in Seq(Nat) /\ Inc(c) /\ \A i \in 1..Len(c) :
         \/ c[i] = lastSent
         \/ \E k \in 1..Len(held) : c[i] = held[k]
         \/ \E k \in 1..Len(casterQueue) : c[i] = casterQueue[k]
  <2>1. Inc(casterQueue) /\ \A i \in 1..Len(b), j \in 1..Len(casterQueue) : b[i] < casterQueue[j]
    BY <1>4 DEF MessageInv, PlacesInOrder
  <2>2. /\ c \in Seq(Nat) /\ Inc(c)
        /\ \A i \in 1..Len(c) : \/ \E k \in 1..Len(b) : c[i] = b[k]
                                \/ \E k \in 1..Len(casterQueue) : c[i] = casterQueue[k]
    BY <1>1, <1>4, <2>1, IncreasingConcat
  <2> QED BY <1>4, <2>2
<1> HIDE DEF c
<1>6. c \o ids \in Seq(Nat) /\ Inc(c \o ids)
  <2>1. Inc(ids) /\ \A i \in 1..Len(c), j \in 1..Len(ids) : c[i] < ids[j]
    <3> USE DEF MessageInv, PlacesInOrder
    <3>1. Inc(ids)
      BY <1>2
    <3>2. ASSUME NEW i \in 1..Len(c), NEW j \in 1..Len(queue) PROVE c[i] < queue[j].id
      BY <1>5
    <3> QED BY <1>2, <3>1, <3>2
  <2> QED BY <1>2, <1>5, <2>1, IncreasingConcat
<1>7. DOMAIN (c \o ids) = 1..Len(c \o ids)
  BY <1>6, LenProperties
<1> QED BY <1>6, <1>7 DEF FramesInOrder, a, b, c, ids
-----------------------------------------------------------------------------
(* The theorems.                                                            *)

LEMMA InitInv == Init => DeviceInv /\ MessageInv
<1> SUFFICES ASSUME Init PROVE DeviceInv /\ MessageInv
  OBVIOUS
<1> USE Here4Assumption DEF Init, Polling, Getting
<1>1. DeviceTypes
  <2>1. connector \in [pc : {"poll", "opening", "configuring"}, left : 0..NavWrites]
    OBVIOUS
  <2>2. proc \in [pc : {"get", "configuring"}, ser : 0..opened, left : 0..RtcmWrites + 1]
    OBVIOUS
  <2>3. serRef \in 0..opened /\ opened \in 0..MaxHandles /\ backoff \in 1..MaxBackoff
    OBVIOUS
  <2>4. /\ args \in [fixed : BOOLEAN, push : BOOLEAN] /\ running \in BOOLEAN
        /\ reading \subseteq 1..opened /\ configured \subseteq 1..opened /\ overtaken \in BOOLEAN
    BY Zenon
  <2>5. /\ state \in States /\ casterState \in CasterStates
        /\ pusher \in {"wait", "connecting", "streaming", "sleep"}
    BY DEF States, CasterStates
  <2> HIDE DEF Init
  <2> QED BY <2>1, <2>2, <2>3, <2>4, <2>5 DEF DeviceTypes
<1>2. PortOwned /\ OneReader /\ AdvancedMeansConfigured
  BY DEF PortOwned, OneReader, AdvancedMeansConfigured
<1>3. MessageTypes /\ PlacesInOrder
  BY DEF MessageTypes, PlacesInOrder
<1> QED BY <1>1, <1>2, <1>3 DEF DeviceInv, MessageInv

LEMMA NextInv ==
    (DeviceInv /\ MessageInv) /\ [Next]_vars => (DeviceInv /\ MessageInv)'
  BY StepDeviceTypes, StepPortOwned, StepAdvanced, StepMessages DEF DeviceInv

LEMMA Inductive == Spec => [](DeviceInv /\ MessageInv)
  BY InitInv, NextInv, PTL DEF Spec

\* The program's variables keep their types, and neither queue outgrows its
\* maxsize, for queues of any size.
THEOREM TypeCorrect == Spec => []TypeOK
<1>1. DeviceInv /\ MessageInv => TypeOK
  BY DEF DeviceInv, MessageInv, DeviceTypes, MessageTypes, TypeOK
<1> QED BY <1>1, Inductive, PTL

\* At any time at most one task reads the port in ser_ref, and none another port.
THEOREM PortsHaveOneReader == Spec => []OneReader
<1>1. DeviceInv => OneReader
  BY DEF DeviceInv
<1> QED BY <1>1, Inductive, PTL

\* Unless a read error overtook process_loop, SURVEY_IN and FIXED are only shown
\* for a receiver that got every command.
THEOREM NeverUnconfigured == Spec => []AdvancedMeansConfigured
<1>1. DeviceInv => AdvancedMeansConfigured
  BY DEF DeviceInv
<1> QED BY <1>1, Inductive, PTL

\* Frames are sent in the order they were read, across drops, lost connections and
\* reconnections.
THEOREM FramesStayInOrder == Spec => []FramesInOrder
<1>1. MessageInv => FramesInOrder
  BY PlacesGiveOrder
<1> QED BY <1>1, Inductive, PTL
=============================================================================
