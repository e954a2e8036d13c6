--------------------------- MODULE QualityPipeline ---------------------------
(***************************************************************************)
(* The signal-quality pipeline of NTRIPCaster (ntrip/v2/caster.py,         *)
(* ntrip/v2/quality.py): publish() hands every chunk of a base station's   *)
(* stream to a bounded queue, one worker reassembles RTCM frames from the  *)
(* chunks and updates what GET /quality reports.  Chunks are not aligned   *)
(* with frames; close(), unregister() and stop() cut in between.           *)
(*                                                                         *)
(* A frame on the wire is PREAMBLE, a header that ends in the length, the  *)
(* payload and a trailer.  A byte is [v, frame, at]: its value, and the    *)
(* frame and offset it was sent as, which only the checksum "sees".        *)
(* A mountpoint has one publisher at a time here (see Caster for two).     *)
(***************************************************************************)
EXTENDS Integers, Sequences, Functions, FiniteSets

CONSTANTS Stations,
          PREAMBLE,      \* _RTCM3_PREAMBLE
          HEADER,        \* bytes before the payload: 3 in RTCM3
          TRAILER,       \* bytes after it: 3 in RTCM3
          MaxPayload,    \* largest value of the length field: 1023 in RTCM3
          FrameTypes,    \* what a base station sends: [kind, val, payload]
          QueueSize,     \* quality_queue_maxsize
          WINDOW,        \* MountpointQuality.WINDOW
          Threshold,     \* _ARP_CHANGE_THRESHOLD
          MaxFrames,     \* bound: frames a base station sends in a behaviour
          MaxAhead,      \* bound: unsent bytes when another frame is produced
          MaxGaps        \* bound: gaps after which nothing new is sent

ASSUME QualityAssumption ==
    /\ {TRAILER, QueueSize, WINDOW} \subseteq Nat \ {0}
    /\ HEADER \in Nat /\ HEADER >= 2
    /\ {PREAMBLE, MaxPayload, Threshold, MaxFrames, MaxAhead, MaxGaps} \subseteq Nat
    /\ FrameTypes \subseteq [kind : {"arp", "msm", "other"}, val : Nat, payload : Seq(Nat)]
    /\ \A f \in FrameTypes : Len(f.payload) <= MaxPayload

VARIABLES worker,    \* "before" start(), "loop", "stopping", or "after" stop()
          queue,     \* _quality_queue: <<mountpoint, chunk>> pairs
          session,   \* session[m]: a PUT handler streams for m
          registry,  \* registry[m]: m is "absent" from the registry, "open", or
                     \* "closed": registered without a transport
          sent,      \* sent[m]: the frames m's base station has produced
          out,       \* out[m]: their bytes that are not yet sent
          buffer,    \* _frame_buffer[m], empty when m has no entry
          cnr,       \* _quality[m]: the rolling window, empty without entry
          arp,       \* _arp_reference[m], or none
          changes,   \* base_station_arp_changes_total[m]
          errors,    \* rtcm_parse_errors_total[m]
          parsed,    \* history: numbers of the frames parsed for m
          track,     \* history: [anchor, last], m's ARP when last counted, and now
          gaps       \* history: chunks lost for m and sessions that ended

pipeVars == <<worker, queue>>
baseVars == <<session, registry, sent, out>>
metricVars == <<arp, changes, errors, parsed, track>>
qualityVars == <<pipeVars, baseVars, buffer, cnr, metricVars, gaps>>

\* No reference position yet; positions are natural numbers.
none == -1
MaxFrame == HEADER + MaxPayload + TRAILER

\* The bytes of the frame f, sent as number no.
Encode(no, f) ==
    LET values == <<PREAMBLE>> \o [i \in 1..HEADER - 1 |-> Len(f.payload)]
                  \o f.payload \o [i \in 1..TRAILER |-> 0]
    IN [i \in DOMAIN values |-> [v |-> values[i], frame |-> no, at |-> i]]

QualityInit ==
    /\ worker = "before" /\ queue = <<>>
    /\ session = [m \in Stations |-> FALSE]
    /\ registry = [m \in Stations |-> "absent"]
    /\ sent = [m \in Stations |-> <<>>]
    /\ out = [m \in Stations |-> <<>>]
    /\ buffer = [m \in Stations |-> <<>>]
    /\ cnr = [m \in Stations |-> <<>>]
    /\ arp = [m \in Stations |-> none]
    /\ changes = [m \in Stations |-> 0]
    /\ errors = [m \in Stations |-> 0]
    /\ parsed = [m \in Stations |-> <<>>]
    /\ track = [m \in Stations |-> [anchor |-> none, last |-> none]]
    /\ gaps = [m \in Stations |-> 0]

-----------------------------------------------------------------------------
(* The splitter *)

\* Mutation: the checksum is not counted.
FrameLength_NoTrailer(data, i) ==
    HEADER + (data[i + HEADER - 1].v % (MaxPayload + 1))

\* Length of the frame that starts at i, from its length field (10 bits wide
\* in RTCM3, hence the modulus).
FrameLength(data, i) ==
    HEADER + (data[i + HEADER - 1].v % (MaxPayload + 1)) + TRAILER

\* The first place from i on that holds a preamble, or the one after the last.
Find(data, i) ==
    LET starts == {j \in i..Len(data) : data[j].v = PREAMBLE}
    IN IF starts = {} THEN Len(data) + 1
       ELSE CHOOSE j \in starts : \A k \in starts : j <= k

\* One turn of _split_rtcm_frames's loop: x.at is where it is in data, x.frames
\* what it has found.  A turn that finds the end, or an incomplete frame, is
\* the last; another one would change nothing.
Scan(data, x) ==
    LET n == Len(data)
        start == Find(data, x.at)
        total == FrameLength(data, start)
    IN IF start + HEADER - 1 > n THEN [x EXCEPT !.at = start]
       ELSE IF total > MaxFrame THEN [x EXCEPT !.at = start + 1]
       ELSE IF start + total - 1 > n THEN [x EXCEPT !.at = start]
       ELSE [at |-> start + total,
             frames |-> Append(x.frames, SubSeq(data, start, start + total - 1))]

\* _split_rtcm_frames: the complete frames of data, in order, and the bytes
\* of the incomplete frame at its end.  Every turn but the last takes a byte.
Split(data) ==
    LET n == Len(data)
        turn[t \in 0..n] == IF t = 0 THEN [at |-> 1, frames |-> <<>>]
                            ELSE Scan(data, turn[t - 1])
    IN [frames |-> turn[n].frames, rest |-> SubSeq(data, turn[n].at, n)]

-----------------------------------------------------------------------------
(* Observation.  A snapshot s is what one mountpoint has: [arp, changes,    *)
(* errors, parsed, track, cnr].                                             *)

\* record_cnr and _trim: the newest WINDOW values.
Trimmed(values) ==
    IF Len(values) > WINDOW THEN Tail(values) ELSE values

\* Mutation: the reference follows every message.
ObserveArp_Follow(s, p) ==
    [s EXCEPT !.arp = p, !.track.last = p,
              !.track.anchor = IF s.arp = none THEN p ELSE @]

\* RTCM 1005/1006: the first position is the reference; one that is further
\* than the threshold from it is counted and becomes the reference.
ObserveArp(s, p) ==
    LET moved == s.arp # none
                 /\ (p - s.arp > Threshold \/ s.arp - p > Threshold)
    IN [s EXCEPT !.arp = IF s.arp = none \/ moved THEN p ELSE @,
                 !.changes = IF moved THEN @ + 1 ELSE @,
                 !.track.last = p,
                 !.track.anchor = IF s.arp = none \/ moved THEN p ELSE @]

\* One frame cut out by the splitter.  It is a parse error unless it is one
\* of the frames sent, all of it and nothing else: the checksum tells.
ObserveFrame(s, frame, frames) ==
    LET no == frame[1].frame
        read == [s EXCEPT !.parsed = Append(@, no)]
        f == frames[no]
    IN IF frame # Encode(no, f) THEN [s EXCEPT !.errors = @ + 1]
       ELSE CASE f.kind = "arp" -> ObserveArp(read, f.val)
              [] f.kind = "msm" -> [read EXCEPT !.cnr = Trimmed(Append(@, f.val))]
              [] OTHER -> read

\* All of them, in order.
ObserveFrames(s, cut, frames) ==
    LET after[i \in 0..Len(cut)] ==
            IF i = 0 THEN s ELSE ObserveFrame(after[i - 1], cut[i], frames)
    IN after[Len(cut)]

\* Mutation: the bytes of the incomplete frame are forgotten.
Reassembled_Forget(m, chunk) == chunk

\* The incomplete frame of the last chunk, if any, goes in front of this one.
Reassembled(m, chunk) == buffer[m] \o chunk

\* _process_quality and _observe_rtcm_quality on one chunk of m.
ProcessQuality(m, chunk) ==
    LET split == Split(Reassembled(m, chunk))
        old == [arp |-> arp[m], changes |-> changes[m], errors |-> errors[m],
                parsed |-> parsed[m], track |-> track[m], cnr |-> cnr[m]]
        new == ObserveFrames(old, split.frames, sent[m])
    IN /\ buffer' = [buffer EXCEPT ![m] =
                        IF Len(split.rest) < MaxFrame THEN split.rest ELSE <<>>]
       /\ arp' = [arp EXCEPT ![m] = new.arp]
       /\ changes' = [changes EXCEPT ![m] = new.changes]
       /\ errors' = [errors EXCEPT ![m] = new.errors]
       /\ parsed' = [parsed EXCEPT ![m] = new.parsed]
       /\ track' = [track EXCEPT ![m] = new.track]
       /\ cnr' = [cnr EXCEPT ![m] = new.cnr]

\* cnr_p50 and cnr_p95, times 20.  quantiles(n=20) interpolates between two
\* neighbours, and extrapolates beyond the largest value of a short window.
\* The i-th smallest is the least that i of the values do not exceed.
Sorted(values) ==
    LET enough(v, i) == Cardinality({j \in DOMAIN values : values[j] <= v}) >= i
    IN [i \in DOMAIN values |->
          CHOOSE v \in Range(values) :
              enough(v, i) /\ \A w \in Range(values) : enough(w, i) => v <= w]

P50(values) ==
    LET data == Sorted(values)
        n == Len(data)
    IN IF n % 2 = 1 THEN 20 * data[(n + 1) \div 2]
       ELSE 10 * (data[n \div 2] + data[n \div 2 + 1])

\* Mutation: the first cut point instead of the last.
P95_FirstCut(values) ==
    LET data == Sorted(values)
        n == Len(data)
        at == (n + 1) \div 20
        j == IF at < 1 THEN 1 ELSE IF at > n - 1 THEN n - 1 ELSE at
        delta == (n + 1) - 20 * j
    IN IF n < 2 THEN 20 * data[1]
       ELSE data[j] * (20 - delta) + data[j + 1] * delta

P95(values) ==
    LET data == Sorted(values)
        n == Len(data)
        at == (19 * (n + 1)) \div 20
        j == IF at < 1 THEN 1 ELSE IF at > n - 1 THEN n - 1 ELSE at
        delta == 19 * (n + 1) - 20 * j
    IN IF n < 2 THEN 20 * data[1]
       ELSE data[j] * (20 - delta) + data[j + 1] * delta

-----------------------------------------------------------------------------
(* The base station and its PUT handler *)

\* register(): the session starts on a frame boundary, with a transport.
Connect(m) ==
    /\ ~session[m] /\ gaps[m] < MaxGaps
    /\ session' = [session EXCEPT ![m] = TRUE]
    /\ registry' = [registry EXCEPT ![m] = "open"]
    /\ UNCHANGED <<pipeVars, sent, out, buffer, cnr, metricVars, gaps>>

\* The base station has another frame to send.
Produce(m, f) ==
    /\ session[m] /\ gaps[m] < MaxGaps
    /\ Len(sent[m]) < MaxFrames /\ Len(out[m]) <= MaxAhead
    /\ sent' = [sent EXCEPT ![m] = Append(@, f)]
    /\ out' = [out EXCEPT ![m] = @ \o Encode(Len(sent[m]) + 1, f)]
    /\ UNCHANGED <<pipeVars, session, registry, buffer, cnr, metricVars, gaps>>

Lose(m) == gaps' = [gaps EXCEPT ![m] = @ + 1]

\* Mutation: put_nowait without the test for a full queue.
EnqueueQuality_Unbounded(m, chunk) ==
    IF worker \in {"before", "after"}
    THEN ProcessQuality(m, chunk) /\ UNCHANGED <<queue, gaps>>
    ELSE /\ queue' = Append(queue, <<m, chunk>>)
         /\ UNCHANGED <<buffer, cnr, metricVars, gaps>>

\* _enqueue_quality: inline without a worker's queue; a full queue sheds it.
EnqueueQuality(m, chunk) ==
    IF worker \in {"before", "after"}
    THEN ProcessQuality(m, chunk) /\ UNCHANGED <<queue, gaps>>
    ELSE IF Len(queue) < QueueSize
         THEN /\ queue' = Append(queue, <<m, chunk>>)
              /\ UNCHANGED <<buffer, cnr, metricVars, gaps>>
         ELSE Lose(m) /\ UNCHANGED <<queue, buffer, cnr, metricVars>>

\* publish() of the next n bytes; a mountpoint without transport ignores them.
Publish(m, n) ==
    /\ session[m] /\ n <= Len(out[m])
    /\ out' = [out EXCEPT ![m] = SubSeq(@, n + 1, Len(@))]
    /\ IF registry[m] = "open" THEN EnqueueQuality(m, SubSeq(out[m], 1, n))
       ELSE Lose(m) /\ UNCHANGED <<queue, buffer, cnr, metricVars>>
    /\ UNCHANGED <<worker, session, registry, sent>>

\* The stream ends, in the middle of a frame perhaps, and put() calls close().
\* Chunks of m that are still queued stay there.
CloseSession(m) ==
    /\ session[m]
    /\ session' = [session EXCEPT ![m] = FALSE]
    /\ out' = [out EXCEPT ![m] = <<>>]
    /\ IF registry[m] = "open"
       THEN /\ registry' = [registry EXCEPT ![m] = "closed"]
            /\ buffer' = [buffer EXCEPT ![m] = <<>>]
            /\ cnr' = [cnr EXCEPT ![m] = <<>>]
       ELSE UNCHANGED <<registry, buffer, cnr>>
    /\ Lose(m)
    /\ UNCHANGED <<pipeVars, sent, metricVars>>

\* The reaper unregisters m, whose handler has gone or waits for a chunk.
Reap(m) ==
    /\ registry[m] # "absent"
    /\ registry' = [registry EXCEPT ![m] = "absent"]
    /\ buffer' = [buffer EXCEPT ![m] = <<>>]
    /\ cnr' = [cnr EXCEPT ![m] = <<>>]
    /\ Lose(m)
    /\ UNCHANGED <<pipeVars, session, sent, out, metricVars>>

-----------------------------------------------------------------------------
(* start(), the worker and stop() *)

Start ==
    /\ worker = "before"
    /\ worker' = "loop"
    /\ UNCHANGED <<queue, baseVars, buffer, cnr, metricVars, gaps>>

\* One turn of _quality_loop.
QualityLoop ==
    /\ worker = "loop" /\ queue # <<>>
    /\ ProcessQuality(Head(queue)[1], Head(queue)[2])
    /\ queue' = Tail(queue)
    /\ UNCHANGED <<worker, baseVars, gaps>>

\* stop() cancels the worker and waits for it; chunks are still queued ...
StopWorker ==
    /\ worker = "loop"
    /\ worker' = "stopping"
    /\ UNCHANGED <<queue, baseVars, buffer, cnr, metricVars, gaps>>

\* ... until the queue is dropped with all of them.
Stopped ==
    /\ worker = "stopping"
    /\ worker' = "after"
    /\ queue' = <<>>
    /\ gaps' = [m \in Stations |->
                  gaps[m] + Cardinality({i \in DOMAIN queue : queue[i][1] = m})]
    /\ UNCHANGED <<baseVars, buffer, cnr, metricVars>>

QualityNext ==
    \/ \E m \in Stations :
          \/ Connect(m) \/ CloseSession(m) \/ Reap(m)
          \/ \E f \in FrameTypes : Produce(m, f)
          \/ \E n \in 1..Len(out[m]) : Publish(m, n)
    \/ Start \/ QualityLoop \/ StopWorker \/ Stopped

QualitySpec == QualityInit /\ [][QualityNext]_qualityVars

-----------------------------------------------------------------------------
Bytes == [v : Nat, frame : 1..MaxFrames, at : Nat]

(* The queue and the rolling window keep their bounds, and an incomplete     *)
(* frame is always shorter than the largest frame: _observe_rtcm_quality's   *)
(* guard against a buffer that grows without end never discards anything.    *)
QualityTypeOK ==
    /\ worker \in {"before", "loop", "stopping", "after"}
    /\ Len(queue) <= QueueSize
    /\ \A i \in DOMAIN queue : /\ queue[i][1] \in Stations
                               /\ queue[i][2] \in Seq(Bytes)
    /\ session \in [Stations -> BOOLEAN] /\ registry \in [Stations -> {"absent", "open", "closed"}]
    /\ \A m \in Stations :
         /\ sent[m] \in Seq(FrameTypes) /\ out[m] \in Seq(Bytes)
         /\ buffer[m] \in Seq(Bytes) /\ Len(buffer[m]) < MaxFrame
         /\ Len(cnr[m]) <= WINDOW
         /\ arp[m] = none => changes[m] = 0
         /\ parsed[m] \in Seq(1..MaxFrames)
         /\ errors[m] \in Nat /\ gaps[m] \in Nat

\* The concatenation of a sequence of sequences.
Joined(pieces) ==
    LET joined[i \in 0..Len(pieces)] ==
            IF i = 0 THEN <<>> ELSE joined[i - 1] \o pieces[i]
    IN joined[Len(pieces)]

\* The bytes of m in the queue.
Queued(m) ==
    Joined([i \in DOMAIN queue |-> IF queue[i][1] = m THEN queue[i][2] ELSE <<>>])

\* The bytes of the frames that m's base station has produced after the first n.
Stream(m, n) ==
    Joined([i \in 1..Len(sent[m]) - n |-> Encode(n + i, sent[m][n + i])])

(* "every frame is parsed exactly once regardless of chunk boundaries"       *)
(* (_observe_rtcm_quality): as long as no chunk was lost and no session      *)
(* ended, the frames parsed and the bytes in the buffer, in the queue and    *)
(* still to be sent are together exactly what the base station produced.     *)
ExactlyOnce ==
    \A m \in Stations : gaps[m] = 0 =>
        /\ parsed[m] = [i \in 1..Len(parsed[m]) |-> i]
        /\ errors[m] = 0
        /\ buffer[m] \o Queued(m) \o out[m] = Stream(m, Len(parsed[m]))

(* A lost chunk, or a session cut in the middle of a frame whose chunks are  *)
(* still queued (close() empties the buffer, not the queue), costs at most   *)
(* one parse error each: the splitter finds the next frame by its preamble.  *)
(* A payload that contains the preamble may mislead it again.                *)
Resynchronises ==
    \A m \in Stations :
        (\A i \in DOMAIN sent[m] : \A k \in DOMAIN sent[m][i].payload :
            sent[m][i].payload[k] # PREAMBLE)
        => errors[m] <= gaps[m]

(* The antenna cannot drift away unnoticed in small steps: its last position *)
(* is within the threshold of the one where the change counter last moved,   *)
(* across sessions, since the reference is never dropped.                    *)
DriftIsCounted ==
    \A m \in Stations : track[m].last # none =>
        /\ track[m].last - track[m].anchor <= Threshold
        /\ track[m].anchor - track[m].last <= Threshold

(* What GET /quality reports is in order: smallest value <= median <= p95,   *)
(* for every window, the short ones included.                                *)
SummaryOrdered ==
    \A m \in Stations : cnr[m] # <<>> =>
        /\ 20 * Sorted(cnr[m])[1] <= P50(cnr[m])
        /\ P50(cnr[m]) <= P95(cnr[m])

=============================================================================
