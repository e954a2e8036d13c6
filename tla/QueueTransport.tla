--------------------------- MODULE QueueTransport ---------------------------
(***************************************************************************)
(* One QueueTransport of src/corshub/ntrip/v2/transport.py: a base station *)
(* publishes frames, each subscriber reads them from its own bounded       *)
(* asyncio.Queue, and shutdown() tells the subscribers that the base has   *)
(* left.                                                                   *)
(*                                                                         *)
(* The process is one asyncio event loop, so the code between two awaits   *)
(* that really suspend is one action.  A subscriber is the loop            *)
(*     async with transport.subscribe() as sub:                            *)
(*         while (frame := await sub.get()) is not None: await write(frame)*)
(* of the HTTP rover handler and of the UDP egress task.  It suspends in   *)
(* get() only when the queue is empty, and in write().                     *)
(*                                                                         *)
(* A transport is reached through the caster's _transports dictionary and  *)
(* is removed from it in the same atomic section that calls shutdown(), so *)
(* nobody subscribes or publishes after that: open is that fact.           *)
(***************************************************************************)
EXTENDS Naturals, Sequences

CONSTANTS Subscribers,    \* subscriptions, each used for one subscribe()
          QUEUE_MAXSIZE,  \* the bound of each subscriber's queue
          SENTINEL,       \* the object that marks the end of the stream
          MaxFrames       \* bound: frames published in a behaviour

ASSUME QueueAssumption ==
    /\ QUEUE_MAXSIZE \in Nat \ {0}
    /\ MaxFrames \in Nat
    /\ SENTINEL \notin Nat

VARIABLES open,       \* the caster still holds this transport
          attached,   \* QueueTransport._queues
          closing,    \* subscribers whose shutdown() task gather() has scheduled
          untold,     \* history: those whose task was cancelled before it started
          queue,      \* queue[s]: QueueTransportSubscriber.queue
          cancelled,  \* cancelled[s]: QueueTransportSubscriber.cancelled
          pc,         \* where the subscriber's task is suspended
          published,  \* frames are numbered in publication order
          last        \* last[s]: the newest frame get() returned to s

vars == <<open, attached, closing, untold, queue, cancelled, pc, published, last>>

\* "get": suspended in get(); "write": suspended in the consumer's write().
States == {"idle", "get", "write", "done"}

Init ==
    /\ open = TRUE
    /\ attached = {}
    /\ closing = {}
    /\ untold = {}
    /\ queue = [s \in Subscribers |-> <<>>]
    /\ cancelled = [s \in Subscribers |-> FALSE]
    /\ pc = [s \in Subscribers |-> "idle"]
    /\ published = 0
    /\ last = [s \in Subscribers |-> 0]

-----------------------------------------------------------------------------
\* Mutation: the newest frame is shed instead of the oldest.
Offer_ShedNewest(q, frame) ==
    IF Len(q) >= QUEUE_MAXSIZE THEN q ELSE Append(q, frame)

\* Mutation: two frames are evicted to make room for one.
Offer_EvictTwo(q, frame) ==
    Append(IF Len(q) >= QUEUE_MAXSIZE THEN SubSeq(q, 3, Len(q)) ELSE q, frame)

\* publish() of one subscriber on a live queue: a full queue gives up its head.
Offer(q, frame) ==
    Append(IF Len(q) >= QUEUE_MAXSIZE THEN Tail(q) ELSE q, frame)

\* Mutation: cleanup() does not drain, and a full queue swallows the sentinel.
ShutdownSubscriber_NoDrain(s) ==
    /\ cancelled' = [cancelled EXCEPT ![s] = TRUE]
    /\ queue' = [queue EXCEPT ![s] =
                    IF cancelled[s] \/ Len(@) >= QUEUE_MAXSIZE
                    THEN @ ELSE Append(@, SENTINEL)]

\* Mutation: cleanup() drains the queue but puts no sentinel.
ShutdownSubscriber_NoSentinel(s) ==
    /\ cancelled' = [cancelled EXCEPT ![s] = TRUE]
    /\ queue' = [queue EXCEPT ![s] = IF cancelled[s] THEN @ ELSE <<>>]

\* cleanup(): drain, then _signal_done(); the drained queue has room for it.
\* shutdown() skips it for a subscriber that is cancelled already.
ShutdownSubscriber(s) ==
    /\ cancelled' = [cancelled EXCEPT ![s] = TRUE]
    /\ queue' = [queue EXCEPT ![s] = IF cancelled[s] THEN @ ELSE <<SENTINEL>>]

\* subscribe() appends a new subscriber, whose first get() finds nothing.
Subscribe(s) ==
    /\ open
    /\ pc[s] = "idle"
    /\ attached' = attached \cup {s}
    /\ pc' = [pc EXCEPT ![s] = "get"]
    /\ last' = [last EXCEPT ![s] = published]
    /\ UNCHANGED <<open, closing, untold, queue, cancelled, published>>

\* publish(): synchronous fan-out to every attached subscriber.
Publish ==
    /\ open
    /\ published < MaxFrames
    /\ published' = published + 1
    /\ queue' = [s \in Subscribers |->
                    IF s \in attached /\ ~cancelled[s]
                    THEN Offer(queue[s], published + 1)
                    ELSE queue[s]]
    /\ UNCHANGED <<open, attached, closing, untold, cancelled, pc, last>>

\* The finally clause of subscribe(): leave the list, then sub.shutdown().
Leave(s) ==
    /\ attached' = attached \ {s}
    /\ pc' = [pc EXCEPT ![s] = "done"]
    /\ UNCHANGED <<open, closing, untold, published, last>>

\* get() returns None, which ends the consumer's loop: the suspended get() was
\* woken by the sentinel, or write() returned and the subscriber is cancelled.
\* Either way it is cancelled already, so the final sub.shutdown() does nothing.
GetNone(s) ==
    /\ \/ /\ pc[s] = "get"
          /\ queue[s] # <<>>
          /\ Head(queue[s]) = SENTINEL
          /\ queue' = [queue EXCEPT ![s] = Tail(@)]
       \/ /\ pc[s] = "write"
          /\ cancelled[s]
          /\ UNCHANGED queue
    /\ Leave(s)
    /\ UNCHANGED cancelled

\* get() returns a frame: a suspended get() was woken, or write() returned and
\* the next get() does not have to wait.
GetFrame(s) ==
    /\ pc[s] = "get" \/ (pc[s] = "write" /\ ~cancelled[s])
    /\ queue[s] # <<>>
    /\ Head(queue[s]) # SENTINEL
    /\ queue' = [queue EXCEPT ![s] = Tail(@)]
    /\ last' = [last EXCEPT ![s] = Head(queue[s])]
    /\ pc' = [pc EXCEPT ![s] = "write"]
    /\ UNCHANGED <<open, attached, closing, untold, cancelled, published>>

\* write() returned and the next get() suspends on an empty queue.
GetWait(s) ==
    /\ pc[s] = "write"
    /\ ~cancelled[s]
    /\ queue[s] = <<>>
    /\ pc' = [pc EXCEPT ![s] = "get"]
    /\ UNCHANGED <<open, attached, closing, untold, queue, cancelled, published, last>>

\* The consumer's task is cancelled while get() is suspended: get() marks the
\* subscriber cancelled and re-raises, so sub.shutdown() has nothing to do.
CancelGet(s) ==
    /\ pc[s] = "get"
    /\ cancelled' = [cancelled EXCEPT ![s] = TRUE]
    /\ Leave(s)
    /\ UNCHANGED queue

\* The consumer's task is cancelled, or fails, while write() is suspended.
CancelWrite(s) ==
    /\ pc[s] = "write"
    /\ Leave(s)
    /\ ShutdownSubscriber(s)

\* shutdown() swaps the list for an empty one and gathers one task per
\* subscriber; those tasks first run in a later iteration of the event loop.
Shutdown ==
    /\ open
    /\ open' = FALSE
    /\ closing' = attached
    /\ attached' = {}
    /\ UNCHANGED <<untold, queue, cancelled, pc, published, last>>

\* One of the gathered sub.shutdown() tasks runs.
ShutdownTask(s) ==
    /\ s \in closing
    /\ closing' = closing \ {s}
    /\ ShutdownSubscriber(s)
    /\ UNCHANGED <<open, attached, untold, pc, published, last>>

\* The task awaiting gather() is cancelled: gather() cancels its children, and
\* a child that has not started never runs its body.
CancelCloser ==
    /\ closing # {}
    /\ closing' = {}
    /\ untold' = untold \cup closing
    /\ UNCHANGED <<open, attached, queue, cancelled, pc, published, last>>

Consume(s) == GetNone(s) \/ GetFrame(s) \/ GetWait(s)

Next ==
    \/ Publish
    \/ Shutdown
    \/ CancelCloser
    \/ \E s \in Subscribers :
          \/ Subscribe(s)
          \/ GetNone(s)
          \/ GetFrame(s)
          \/ GetWait(s)
          \/ CancelGet(s)
          \/ CancelWrite(s)
          \/ ShutdownTask(s)

\* The event loop runs every ready task; writes end, by returning or failing.
Fairness ==
    \A s \in Subscribers :
        WF_vars(Consume(s) \/ CancelWrite(s)) /\ WF_vars(ShutdownTask(s))

Spec == Init /\ [][Next]_vars

FairSpec == Spec /\ Fairness
-----------------------------------------------------------------------------
TypeOK ==
    /\ open \in BOOLEAN
    /\ attached \in SUBSET Subscribers
    /\ closing \in SUBSET Subscribers
    /\ untold \in SUBSET Subscribers
    /\ queue \in [Subscribers -> Seq(Nat \cup {SENTINEL})]
    /\ cancelled \in [Subscribers -> BOOLEAN]
    /\ pc \in [Subscribers -> States]
    /\ published \in Nat
    /\ last \in [Subscribers -> Nat]

Streaming(s) == pc[s] \in {"get", "write"}

Smaller(m, n) == IF m <= n THEN m ELSE n

\* The frames s has still to be given, oldest first: those newer than its last
\* one, but at most the QUEUE_MAXSIZE latest.
HoldsBacklog(s) ==
    /\ last[s] <= published
    /\ Len(queue[s]) = Smaller(QUEUE_MAXSIZE, published - last[s])
    /\ \A i \in 1..Len(queue[s]) : queue[s][i] = (published - Len(queue[s])) + i

\* The queue of a subscriber that was not told to stop is exactly its backlog.
\* So publish() evicts only when the subscriber is QUEUE_MAXSIZE frames behind,
\* keeps the newest frame, and never reorders or repeats one.
QueueIsBacklog ==
    \A s \in Subscribers : Streaming(s) /\ ~cancelled[s] => HoldsBacklog(s)

\* Nobody is left behind: a subscriber still in its loop is on the list, or its
\* shutdown() task is scheduled, or it has been told to stop and a suspended
\* get() has the sentinel to wake it; all but those whose task was cancelled
\* with the closer.  (The sentinel is put only after the drain, so a full queue
\* cannot swallow it.)
NobodyForgotten ==
    \A s \in Subscribers : Streaming(s) =>
        \/ s \in attached /\ ~cancelled[s] /\ open
        \/ s \in (closing \cup untold) /\ ~cancelled[s]
        \/ cancelled[s] /\ queue[s] = <<SENTINEL>>

\* Once the transport is shut down every subscriber's loop ends, unless the
\* closer was cancelled before the subscriber's shutdown() task ran.
ToldStreamsEnd ==
    \A s \in Subscribers :
        (~open /\ Streaming(s)) ~> (pc[s] = "done" \/ s \in untold)

\* The transport implements the feed it promises.
feedStatus == [s \in Subscribers |-> CASE pc[s] = "idle" -> "none"
                                       [] pc[s] = "done" -> "ended"
                                       [] OTHER -> "live"]

Feed == INSTANCE CorrectionFeed
            WITH Window <- QUEUE_MAXSIZE, status <- feedStatus

\* Every step of the transport is a step of CorrectionFeed or leaves it alone.
ImplementsFeed == Feed!Spec
=============================================================================
