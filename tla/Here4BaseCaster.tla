--------------------------- MODULE Here4BaseCaster ---------------------------
(***************************************************************************)
(* The base-station tool tools/here4-base-caster.py: connect_loop finds    *)
(* and opens the receiver, one read_loop per opened port queues what it    *)
(* sends, process_loop drives the state machine and configures the         *)
(* receiver, and caster_loop pushes the RTCM frames to the caster.  They   *)
(* are tasks of one event loop under one gather(): an exception that       *)
(* leaves connect_loop or process_loop ends the program.                   *)
(*                                                                         *)
(* A handle is the number of an opened serial port; a message is           *)
(* [id, kind], numbered in the order read.  Kinds tell apart what          *)
(* process_loop does: "PVT" is a NAV-PVT with a 3D fix, "SVIN" a NAV-SVIN  *)
(* that is valid and not active, "RTCM" a correction frame, and "NAV"      *)
(* everything that only changes what is displayed.                         *)
(***************************************************************************)
EXTENDS Naturals, Sequences, FiniteSets

CONSTANTS QueueSize,      \* maxsize of queue
          CasterQueueSize,\* maxsize of caster_queue
          NavWrites,      \* CFG-MSG commands connect_loop writes
          RtcmWrites,     \* CFG-MSG commands process_loop writes before CFG-TMODE3
          MaxBackoff,     \* the longest pause between attempts
          MaxHandles,     \* bound: ports opened in a behaviour
          MaxMessages     \* bound: messages read in a behaviour

ASSUME Here4Assumption ==
    /\ {QueueSize, CasterQueueSize, MaxBackoff, NavWrites, RtcmWrites}
          \subseteq Nat \ {0}
    /\ MaxHandles \in Nat /\ MaxMessages \in Nat

VARIABLES args,        \* [fixed, push]: --lat given, --caster-url given
          running,     \* the gather() of main() has not failed
          state,       \* gs.state
          serRef,      \* the handle in ser_ref, 0 when it is empty
          opened,      \* number of ports opened so far
          connector,   \* connect_loop: [pc, left], left commands to write
          reading,     \* handles that have a read_loop
          queue,       \* messages read and not yet processed
          count,       \* number of messages read so far
          proc,        \* process_loop: [pc, ser, left]
          casterQueue, \* caster_queue: ids of frames
          pusher,      \* where caster_loop is suspended
          casterState, \* gs.caster_state
          backoff,     \* caster_loop's backoff, in seconds
          held,        \* frames the generator took and has not yielded
          lastSent,    \* history: id of the newest frame sent, 0 for none
          configured,  \* history: handles that got every command
          overtaken    \* history: process_loop finished configuring a handle
                       \* that was no longer the one in ser_ref

deviceVars == <<state, serRef, opened, connector, reading>>
messageVars == <<queue, count>>
procVars == <<proc, configured, overtaken>>
casterVars == <<pusher, casterState, backoff, held, lastSent>>
vars == <<args, running, deviceVars, messageVars, procVars, casterQueue,
          casterVars>>

States == {"SEARCHING", "CONNECTING", "MONITORING", "SURVEY_IN", "FIXED"}
CasterStates == {"DISCONNECTED", "CONNECTING", "STREAMING", "ERROR"}
Kinds == {"PVT", "SVIN", "RTCM", "NAV"}
Polling == [pc |-> "poll", left |-> 0]
Getting == [pc |-> "get", ser |-> 0, left |-> 0]

Init ==
    /\ args \in [fixed : BOOLEAN, push : BOOLEAN]
    /\ running = TRUE
    /\ state = "SEARCHING" /\ serRef = 0 /\ opened = 0
    /\ connector = Polling /\ reading = {}
    /\ queue = <<>> /\ count = 0
    /\ proc = Getting /\ configured = {} /\ overtaken = FALSE
    /\ casterQueue = <<>>
    /\ pusher = "wait" /\ casterState = "DISCONNECTED"
    /\ backoff = 1 /\ held = <<>> /\ lastSent = 0

-----------------------------------------------------------------------------
(* connect_loop *)

\* Mutation: reconnects whenever ser_ref is not in use for corrections.
FindPort_AnyState ==
    /\ running /\ connector.pc = "poll"
    /\ state \notin {"SURVEY_IN", "FIXED"}
    /\ state' = "CONNECTING"
    /\ connector' = [pc |-> "opening", left |-> 0]
    /\ UNCHANGED <<args, running, serRef, opened, reading, messageVars,
                   procVars, casterQueue, casterVars>>

\* connect_loop sees a u-blox port while SEARCHING and starts to open it.
FindPort ==
    /\ running /\ connector.pc = "poll"
    /\ state = "SEARCHING"
    /\ state' = "CONNECTING"
    /\ connector' = [pc |-> "opening", left |-> 0]
    /\ UNCHANGED <<args, running, serRef, opened, reading, messageVars,
                   procVars, casterQueue, casterVars>>

\* The open fails: back to SEARCHING, whatever the state has become.
OpenFails ==
    /\ running /\ connector.pc = "opening"
    /\ state' = "SEARCHING"
    /\ connector' = Polling
    /\ UNCHANGED <<args, running, serRef, opened, reading, messageVars,
                   procVars, casterQueue, casterVars>>

\* The open succeeds: the new handle replaces whatever is in ser_ref.
OpenSucceeds ==
    /\ running /\ connector.pc = "opening" /\ opened < MaxHandles
    /\ opened' = opened + 1
    /\ serRef' = opened + 1
    /\ connector' = [pc |-> "configuring", left |-> NavWrites]
    /\ UNCHANGED <<args, running, state, reading, messageVars, procVars,
                   casterQueue, casterVars>>

\* One NAV command is written; after the last one the port is monitored and
\* its read_loop is created.
WriteNav ==
    /\ running /\ connector.pc = "configuring"
    /\ IF connector.left > 1
       THEN /\ connector' = [connector EXCEPT !.left = @ - 1]
            /\ UNCHANGED <<state, reading>>
       ELSE /\ connector' = Polling
            /\ state' = "MONITORING"
            /\ reading' = reading \cup {opened}
    /\ UNCHANGED <<args, running, serRef, opened, messageVars, procVars,
                   casterQueue, casterVars>>

\* The write raises outside any try block: gather() ends the program.
NavWriteFails ==
    /\ running /\ connector.pc = "configuring"
    /\ running' = FALSE
    /\ UNCHANGED <<args, deviceVars, messageVars, procVars, casterQueue,
                   casterVars>>

-----------------------------------------------------------------------------
(* read_loop *)

\* A message is read from h; when the queue is full it is dropped.
Read(h, kind) ==
    /\ running /\ h \in reading /\ count < MaxMessages
    /\ count' = count + 1
    /\ queue' = IF Len(queue) < QueueSize
                THEN Append(queue, [id |-> count + 1, kind |-> kind])
                ELSE queue
    /\ UNCHANGED <<args, running, deviceVars, procVars, casterQueue, casterVars>>

\* Mutation: the port is given up without going back to SEARCHING.
ReadFails_KeepState(h) ==
    /\ running /\ h \in reading
    /\ reading' = reading \ {h}
    /\ serRef' = IF serRef = h THEN 0 ELSE serRef
    /\ UNCHANGED <<args, running, state, opened, connector, messageVars,
                   procVars, casterQueue, casterVars>>

\* A serial error ends h's read_loop and, when h is the port in use, makes
\* connect_loop look for one again.
ReadFails(h) ==
    /\ running /\ h \in reading
    /\ reading' = reading \ {h}
    /\ serRef' = IF serRef = h THEN 0 ELSE serRef
    /\ state' = IF serRef = h THEN "SEARCHING" ELSE state
    /\ UNCHANGED <<args, running, opened, connector, messageVars, procVars,
                   casterQueue, casterVars>>

-----------------------------------------------------------------------------
(* process_loop *)

TakeMessage(kind) ==
    /\ running /\ proc.pc = "get"
    /\ queue # <<>> /\ Head(queue).kind = kind
    /\ queue' = Tail(queue)

\* A message that starts nothing: display data, a fix or a finished survey
\* outside the state that waits for it, a frame before FIXED.
ProcessDisplay(kind) ==
    /\ TakeMessage(kind)
    /\ kind = "PVT" => ~(state = "MONITORING" /\ serRef # 0)
    /\ kind = "SVIN" => state # "SURVEY_IN"
    /\ kind = "RTCM" => state # "FIXED"
    /\ UNCHANGED <<args, running, deviceVars, count, procVars, casterQueue,
                   casterVars>>

\* A 3D fix while MONITORING: process_loop keeps the handle that is in
\* ser_ref now and starts to configure it.
ProcessFix ==
    /\ TakeMessage("PVT")
    /\ state = "MONITORING" /\ serRef # 0
    /\ proc' = [pc |-> "configuring", ser |-> serRef, left |-> RtcmWrites + 1]
    /\ UNCHANGED <<args, running, deviceVars, count, configured, overtaken,
                   casterQueue, casterVars>>

\* Mutation: the state is advanced before the last command is written.
WriteRtcm_StateFirst ==
    /\ running /\ proc.pc = "configuring"
    /\ IF proc.left > 1
       THEN /\ proc' = [proc EXCEPT !.left = @ - 1]
            /\ state' = IF args.fixed THEN "FIXED" ELSE "SURVEY_IN"
            /\ UNCHANGED <<configured, overtaken>>
       ELSE /\ proc' = Getting
            /\ configured' = configured \cup {proc.ser}
            /\ overtaken' = (overtaken \/ serRef # proc.ser)
            /\ UNCHANGED state
    /\ UNCHANGED <<args, running, serRef, opened, connector, reading,
                   messageVars, casterQueue, casterVars>>

\* One command is written; after CFG-TMODE3, the last, the state advances,
\* whatever it has become while process_loop was writing.  A write to a
\* handle whose read_loop failed may still succeed: nobody closes the port.
WriteRtcm ==
    /\ running /\ proc.pc = "configuring"
    /\ IF proc.left > 1
       THEN /\ proc' = [proc EXCEPT !.left = @ - 1]
            /\ UNCHANGED <<state, configured, overtaken>>
       ELSE /\ proc' = Getting
            /\ state' = IF args.fixed THEN "FIXED" ELSE "SURVEY_IN"
            /\ configured' = configured \cup {proc.ser}
            /\ overtaken' = (overtaken \/ serRef # proc.ser)
    /\ UNCHANGED <<args, running, serRef, opened, connector, reading,
                   messageVars, casterQueue, casterVars>>

\* A write of process_loop raises, and gather() ends the program.
RtcmWriteFails ==
    /\ running /\ proc.pc = "configuring"
    /\ running' = FALSE
    /\ UNCHANGED <<args, deviceVars, messageVars, procVars, casterQueue,
                   casterVars>>

\* Survey-in is reported complete while SURVEY_IN.
ProcessSurveyed ==
    /\ TakeMessage("SVIN")
    /\ state = "SURVEY_IN"
    /\ state' = "FIXED"
    /\ UNCHANGED <<args, running, serRef, opened, connector, reading, count,
                   procVars, casterQueue, casterVars>>

\* Mutation: the frame is queued without the test for a full queue.
ProcessFrame_Unbounded ==
    /\ TakeMessage("RTCM")
    /\ state = "FIXED"
    /\ casterQueue' = IF args.push THEN Append(casterQueue, Head(queue).id)
                      ELSE casterQueue
    /\ UNCHANGED <<args, running, deviceVars, count, procVars, casterVars>>

\* A frame while FIXED is offered to caster_loop; a full queue drops it.
ProcessFrame ==
    /\ TakeMessage("RTCM")
    /\ state = "FIXED"
    /\ casterQueue' = IF args.push /\ Len(casterQueue) < CasterQueueSize
                      THEN Append(casterQueue, Head(queue).id)
                      ELSE casterQueue
    /\ UNCHANGED <<args, running, deviceVars, count, procVars, casterVars>>

-----------------------------------------------------------------------------
(* caster_loop *)

\* caster_loop has seen FIXED and starts the PUT request.  Frames that were
\* queued while it was disconnected are still there.
Attempt ==
    /\ running /\ args.push /\ pusher = "wait" /\ state = "FIXED"
    /\ pusher' = "connecting" /\ casterState' = "CONNECTING"
    /\ UNCHANGED <<args, running, deviceVars, messageVars, procVars,
                   casterQueue, backoff, held, lastSent>>

\* The caster answers 200.
Accepted ==
    /\ running /\ pusher = "connecting"
    /\ pusher' = "streaming" /\ casterState' = "STREAMING" /\ backoff' = 1
    /\ UNCHANGED <<args, running, deviceVars, messageVars, procVars,
                   casterQueue, held, lastSent>>

\* The generator of the request body takes a frame, from the moment the
\* request is sent; it yields it after a sleep(0).
TakeFrame ==
    /\ running /\ pusher \in {"connecting", "streaming"}
    /\ held = <<>> /\ casterQueue # <<>>
    /\ held' = <<Head(casterQueue)>>
    /\ casterQueue' = Tail(casterQueue)
    /\ UNCHANGED <<args, running, deviceVars, messageVars, procVars, pusher,
                   casterState, backoff, lastSent>>

SendFrame ==
    /\ running /\ held # <<>>
    /\ lastSent' = Head(held) /\ held' = <<>>
    /\ UNCHANGED <<args, running, deviceVars, messageVars, procVars,
                   casterQueue, pusher, casterState, backoff>>

\* The caster ends its response: the connection is over, with the frame the
\* generator held, and caster_loop starts again without a pause.
ResponseEnds ==
    /\ running /\ pusher = "streaming"
    /\ pusher' = "wait" /\ held' = <<>>
    /\ UNCHANGED <<args, running, deviceVars, messageVars, procVars,
                   casterQueue, casterState, backoff, lastSent>>

\* Mutation: the frame that could not be sent is put back into the queue.
PushFails_Requeue ==
    /\ running /\ pusher \in {"connecting", "streaming"}
    /\ pusher' = "sleep" /\ casterState' = "ERROR"
    /\ held' = <<>>
    /\ casterQueue' = IF Len(casterQueue) < CasterQueueSize
                      THEN casterQueue \o held ELSE casterQueue
    /\ UNCHANGED <<args, running, deviceVars, messageVars, procVars,
                   backoff, lastSent>>

\* Refused, not reachable or disconnected: the error is shown and caster_loop
\* sleeps for the present backoff.
PushFails ==
    /\ running /\ pusher \in {"connecting", "streaming"}
    /\ pusher' = "sleep" /\ casterState' = "ERROR" /\ held' = <<>>
    /\ UNCHANGED <<args, running, deviceVars, messageVars, procVars,
                   casterQueue, backoff, lastSent>>

\* The sleep is over; the next one will be twice as long.
Retry ==
    /\ running /\ pusher = "sleep"
    /\ backoff' = IF 2 * backoff < MaxBackoff THEN 2 * backoff ELSE MaxBackoff
    /\ pusher' = "wait"
    /\ UNCHANGED <<args, running, deviceVars, messageVars, procVars,
                   casterQueue, casterState, held, lastSent>>

-----------------------------------------------------------------------------
Connect == FindPort \/ OpenFails \/ OpenSucceeds \/ WriteNav \/ NavWriteFails
Process == \/ \E kind \in Kinds : ProcessDisplay(kind)
           \/ ProcessFix \/ WriteRtcm \/ RtcmWriteFails
           \/ ProcessSurveyed \/ ProcessFrame
Push == \/ Attempt \/ Accepted \/ TakeFrame \/ SendFrame
        \/ ResponseEnds \/ PushFails \/ Retry

Next ==
    \/ Connect
    \/ \E h \in 1..MaxHandles, kind \in Kinds : Read(h, kind)
    \/ \E h \in 1..MaxHandles : ReadFails(h)
    \/ Process
    \/ Push

Spec == Init /\ [][Next]_vars

\* connect_loop keeps polling and finds the port, an open and a write return
\* in the end: the receiver is plugged in again after every serial error.
FairSpec == Spec /\ WF_vars(Connect)

-----------------------------------------------------------------------------
(* Every variable has the type the program gives it, and neither queue grows *)
(* past its maxsize, although both producers drop instead of waiting         *)
(* (read_loop and process_loop, put_nowait).                                 *)
TypeOK ==
    /\ args \in [fixed : BOOLEAN, push : BOOLEAN]
    /\ running \in BOOLEAN
    /\ state \in States
    /\ serRef \in 0..opened /\ opened \in 0..MaxHandles
    /\ connector \in [pc : {"poll", "opening", "configuring"}, left : 0..NavWrites]
    /\ reading \subseteq 1..opened
    /\ queue \in Seq([id : 1..count, kind : Kinds]) /\ Len(queue) <= QueueSize
    /\ count \in 0..MaxMessages
    /\ proc \in [pc : {"get", "configuring"}, ser : 0..opened,
                 left : 0..RtcmWrites + 1]
    /\ casterQueue \in Seq(1..count) /\ Len(casterQueue) <= CasterQueueSize
    /\ pusher \in {"wait", "connecting", "streaming", "sleep"}
    /\ casterState \in CasterStates
    /\ backoff \in 1..MaxBackoff
    /\ held \in Seq(1..count) /\ Len(held) <= 1
    /\ lastSent \in 0..count
    /\ configured \subseteq 1..opened
    /\ overtaken \in BOOLEAN

(* The serial port in ser_ref has one owner: connect_loop while it sends the *)
(* NAV commands, then one read_loop, and there is no read_loop for any other *)
(* port.  Two readers on one device would each get half of its bytes.  Also  *)
(* the identity test in read_loop's error handler never fails.               *)
OneReader ==
    reading = IF serRef = 0 \/ connector.pc = "configuring" THEN {}
              ELSE {serRef}

(* As long as no read error hits the port that process_loop is configuring   *)
(* (the race of read_loop's handler with the awaits before gs.state is set), *)
(* SURVEY_IN and FIXED mean that the port in use has got every command:      *)
(* the station is never shown as streaming from an unconfigured receiver.    *)
AdvancedMeansConfigured ==
    (~overtaken /\ state \in {"SURVEY_IN", "FIXED"}) => serRef \in configured

(* Corrections reach the caster in the order the receiver sent them, across  *)
(* drops in both queues, lost connections and reconnections of either side:  *)
(* ids grow strictly from the last one sent, over the generator's frame and  *)
(* caster_queue, to the messages not yet processed.                          *)
FramesInOrder ==
    LET unprocessed == [i \in DOMAIN queue |-> queue[i].id]
        pipeline == <<lastSent>> \o held \o casterQueue \o unprocessed
    IN \A i, j \in DOMAIN pipeline : i < j => pipeline[i] < pipeline[j]

(* After a serial error the port is opened again or the program ends, unless *)
(* process_loop was configuring the lost port and overwrote SEARCHING.       *)
ReconnectsUnlessOvertaken ==
    serRef = 0 ~> (connector.pc = "opening" \/ ~running \/ overtaken)

=============================================================================
