------------------------ MODULE QueueTransportProofs ------------------------
(***************************************************************************)
(* Proofs about QueueTransport for every set of subscribers and every      *)
(* queue bound: the queue of a subscriber is its backlog, the transport    *)
(* implements CorrectionFeed, and, when the task that shuts the transport  *)
(* down is not cancelled, no subscriber is forgotten.                      *)
(***************************************************************************)
EXTENDS QueueTransport, Integers, TLAPS

\* What ties the list, the flags and the tasks together.
Bookkeeping ==
    \A s \in Subscribers :
        /\ pc[s] = "idle" => ~cancelled[s] /\ queue[s] = <<>>
        /\ s \in attached => Streaming(s) /\ open
        /\ Streaming(s) /\ ~cancelled[s] /\ open => s \in attached
        /\ Streaming(s) /\ cancelled[s] => s \notin attached /\ queue[s] = <<SENTINEL>>
        /\ s \in closing => ~open /\ pc[s] # "idle"
        /\ pc[s] = "done" => cancelled[s]

IInv == TypeOK /\ Bookkeeping /\ QueueIsBacklog

\* Init establishes the inductive invariant.
LEMMA InitIInv == Init => IInv
  BY QueueAssumption
  DEF Init, IInv, TypeOK, Bookkeeping, QueueIsBacklog, Streaming, States

\* The smaller of two integers is one of them and exceeds neither.
LEMMA SmallerIsLeast ==
    ASSUME NEW m \in Int, NEW n \in Int
    PROVE  /\ Smaller(m, n) \in {m, n}
           /\ Smaller(m, n) <= m
           /\ Smaller(m, n) <= n
  BY DEF Smaller

\* The frame after the i-th of n when p were published is the i-th when one more is.
LEMMA ShiftedFrame ==
    ASSUME NEW p \in Nat, NEW n \in Nat, NEW i \in Nat
    PROVE  (p - n) + (i + 1) = ((p + 1) - n) + i
  OBVIOUS

\* One more frame in the queue and one more published: the i-th stays the same.
LEMMA GrownQueue ==
    ASSUME NEW p \in Nat, NEW n \in Nat, NEW i \in Nat
    PROVE  (p - n) + i = ((p + 1) - (n + 1)) + i
  OBVIOUS

\* A queue that holds nothing but the sentinel is a queue.
LEMMA SentinelQueue == <<SENTINEL>> \in Seq(Nat \cup {SENTINEL})
  OBVIOUS

\* What publish() leaves in a queue: its length and its frames.
LEMMA OfferEffect ==
    ASSUME NEW q \in Seq(Nat \cup {SENTINEL}), NEW f \in Nat, Len(q) <= QUEUE_MAXSIZE
    PROVE  /\ Offer(q, f) \in Seq(Nat \cup {SENTINEL})
           /\ Len(Offer(q, f)) = IF Len(q) = QUEUE_MAXSIZE THEN Len(q) ELSE Len(q) + 1
           /\ \A i \in 1..Len(Offer(q, f)) :
                 Offer(q, f)[i] = IF i = Len(Offer(q, f)) THEN f
                                  ELSE IF Len(q) = QUEUE_MAXSIZE THEN q[i + 1] ELSE q[i]
<1> DEFINE T == Nat \cup {SENTINEL}
<1>1. CASE Len(q) = QUEUE_MAXSIZE
  <2>1. /\ Len(q) > 0
        /\ q # <<>>
        /\ Offer(q, f) = Append(Tail(q), f)
    BY <1>1, QueueAssumption DEF Offer
  <2>2. /\ Tail(q) \in Seq(T)
        /\ Len(Tail(q)) = Len(q) - 1
        /\ \A i \in 1..Len(q) - 1 : Tail(q)[i] = q[i + 1]
    BY <2>1
  <2> QED BY <1>1, <2>1, <2>2
<1>2. CASE Len(q) # QUEUE_MAXSIZE
  <2>1. Offer(q, f) = Append(q, f)
    BY <1>2, QueueAssumption DEF Offer
  <2> QED BY <1>2, <2>1
<1> QED BY <1>1, <1>2

\* Every step preserves the types.
LEMMA StepTypeOK == TypeOK /\ Bookkeeping /\ QueueIsBacklog /\ [Next]_vars => TypeOK'
<1> SUFFICES ASSUME TypeOK, Bookkeeping, QueueIsBacklog, [Next]_vars PROVE TypeOK'
  OBVIOUS
<1> USE QueueAssumption DEF TypeOK, States
<1>1. CASE Publish
  <2>1. \A s \in Subscribers : s \in attached /\ ~cancelled[s] =>
           Offer(queue[s], published + 1) \in Seq(Nat \cup {SENTINEL})
    <3> SUFFICES ASSUME NEW s \in Subscribers, s \in attached, ~cancelled[s]
                 PROVE  Offer(queue[s], published + 1) \in Seq(Nat \cup {SENTINEL})
      OBVIOUS
    <3>1. Len(queue[s]) = Smaller(QUEUE_MAXSIZE, published - last[s])
      BY DEF Bookkeeping, QueueIsBacklog, HoldsBacklog
    <3>2. Len(queue[s]) <= QUEUE_MAXSIZE
      BY <3>1, SmallerIsLeast
    <3>3. queue[s] \in Seq(Nat \cup {SENTINEL}) /\ published + 1 \in Nat
      OBVIOUS
    <3> HIDE DEF TypeOK
    <3> QED BY <3>2, <3>3, OfferEffect
  <2> QED BY <1>1, <2>1 DEF Publish
<1>2. CASE Shutdown
  BY <1>2 DEF Shutdown
<1>3. CASE CancelCloser
  BY <1>3 DEF CancelCloser
<1>4. ASSUME NEW s \in Subscribers, Subscribe(s) PROVE TypeOK'
  BY <1>4 DEF Subscribe
<1>5. ASSUME NEW s \in Subscribers, GetNone(s) PROVE TypeOK'
  <2>1. queue' \in [Subscribers -> Seq(Nat \cup {SENTINEL})]
    <3>1. queue[s] # <<>> => Tail(queue[s]) \in Seq(Nat \cup {SENTINEL})
      OBVIOUS
    <3> QED BY <1>5, <3>1 DEF GetNone
  <2> QED BY <1>5, <2>1 DEF GetNone, Leave
<1>6. ASSUME NEW s \in Subscribers, GetFrame(s) PROVE TypeOK'
  BY <1>6 DEF GetFrame
<1>7. ASSUME NEW s \in Subscribers, GetWait(s) PROVE TypeOK'
  BY <1>7 DEF GetWait
<1>8. ASSUME NEW s \in Subscribers, CancelGet(s) PROVE TypeOK'
  BY <1>8 DEF CancelGet, Leave
<1>9. ASSUME NEW s \in Subscribers, CancelWrite(s) PROVE TypeOK'
  BY <1>9, SentinelQueue DEF CancelWrite, Leave, ShutdownSubscriber
<1>10. ASSUME NEW s \in Subscribers, ShutdownTask(s) PROVE TypeOK'
  BY <1>10, SentinelQueue DEF ShutdownTask, ShutdownSubscriber
<1>11. CASE UNCHANGED vars
  BY <1>11 DEF vars
<1> QED
  BY <1>1, <1>2, <1>3, <1>4, <1>5, <1>6, <1>7, <1>8, <1>9, <1>10, <1>11 DEF Next

\* A subscriber that reads a frame which is not its backlog has been told to
\* stop: the head of a live queue is the oldest frame of the window.
LEMMA HeadOfBacklog ==
    ASSUME TypeOK, QueueIsBacklog,
           NEW s \in Subscribers, Streaming(s), ~cancelled[s], queue[s] # <<>>
    PROVE  /\ Head(queue[s]) = (published - Len(queue[s])) + 1
           /\ Head(queue[s]) \in Nat
           /\ Head(queue[s]) # SENTINEL
           /\ Len(queue[s]) \in Nat \ {0}
           /\ Len(queue[s]) <= QUEUE_MAXSIZE
           /\ Len(queue[s]) <= published - last[s]
           /\ Len(queue[s]) < published - last[s] => Len(queue[s]) = QUEUE_MAXSIZE
<1> USE QueueAssumption DEF TypeOK
<1>1. HoldsBacklog(s)
  BY DEF QueueIsBacklog
<1>2. /\ Len(queue[s]) \in Nat \ {0}
      /\ Head(queue[s]) = queue[s][1]
  OBVIOUS
<1>3. /\ Len(queue[s]) <= QUEUE_MAXSIZE
      /\ Len(queue[s]) <= published - last[s]
      /\ Len(queue[s]) < published - last[s] => Len(queue[s]) = QUEUE_MAXSIZE
  <2>1. published - last[s] \in Int /\ QUEUE_MAXSIZE \in Int
    OBVIOUS
  <2>2. Len(queue[s]) = Smaller(QUEUE_MAXSIZE, published - last[s])
    BY <1>1 DEF HoldsBacklog
  <2> HIDE DEF TypeOK
  <2> QED BY <2>1, <2>2, SmallerIsLeast
<1>4. Head(queue[s]) = (published - Len(queue[s])) + 1
  BY <1>1, <1>2 DEF HoldsBacklog
<1> QED BY <1>2, <1>3, <1>4

\* Every step keeps the list, the flags and the tasks in agreement.
LEMMA StepBookkeeping ==
    TypeOK /\ Bookkeeping /\ QueueIsBacklog /\ [Next]_vars => Bookkeeping'
<1> SUFFICES ASSUME TypeOK, Bookkeeping, QueueIsBacklog, [Next]_vars PROVE Bookkeeping'
  OBVIOUS
<1> USE QueueAssumption DEF TypeOK, States, Bookkeeping, Streaming
<1>1. CASE Publish
  BY <1>1 DEF Publish
<1>2. CASE Shutdown
  BY <1>2 DEF Shutdown
<1>3. CASE CancelCloser
  BY <1>3 DEF CancelCloser
<1>4. ASSUME NEW s \in Subscribers, Subscribe(s) PROVE Bookkeeping'
  BY <1>4 DEF Subscribe
<1>5. ASSUME NEW s \in Subscribers, GetNone(s) PROVE Bookkeeping'
  <2>1. cancelled[s]
    BY <1>5, HeadOfBacklog DEF GetNone
  <2> QED BY <1>5, <2>1 DEF GetNone, Leave
<1>6. ASSUME NEW s \in Subscribers, GetFrame(s) PROVE Bookkeeping'
  <2>1. ~cancelled[s]
    BY <1>6 DEF GetFrame
  <2> QED BY <1>6, <2>1 DEF GetFrame
<1>7. ASSUME NEW s \in Subscribers, GetWait(s) PROVE Bookkeeping'
  BY <1>7 DEF GetWait
<1>8. ASSUME NEW s \in Subscribers, CancelGet(s) PROVE Bookkeeping'
  BY <1>8 DEF CancelGet, Leave
<1>9. ASSUME NEW s \in Subscribers, CancelWrite(s) PROVE Bookkeeping'
  BY <1>9 DEF CancelWrite, Leave, ShutdownSubscriber
<1>10. ASSUME NEW s \in Subscribers, ShutdownTask(s) PROVE Bookkeeping'
  BY <1>10 DEF ShutdownTask, ShutdownSubscriber
<1>11. CASE UNCHANGED vars
  BY <1>11 DEF vars
<1> QED
  BY <1>1, <1>2, <1>3, <1>4, <1>5, <1>6, <1>7, <1>8, <1>9, <1>10, <1>11 DEF Next

\* Every step keeps the queue of a live subscriber equal to its backlog.
LEMMA StepBacklog ==
    TypeOK /\ Bookkeeping /\ QueueIsBacklog /\ [Next]_vars => QueueIsBacklog'
<1> SUFFICES ASSUME TypeOK, Bookkeeping, QueueIsBacklog, [Next]_vars,
                    NEW s \in Subscribers, Streaming(s)', ~cancelled'[s]
             PROVE  HoldsBacklog(s)'
  BY DEF QueueIsBacklog
<1> USE QueueAssumption DEF TypeOK, States
<1>a. /\ published \in Nat /\ last[s] \in Nat
      /\ queue[s] \in Seq(Nat \cup {SENTINEL})
      /\ QUEUE_MAXSIZE \in Nat \ {0}
  OBVIOUS
<1>b. ~cancelled[s] /\ Streaming(s) => HoldsBacklog(s)
  BY DEF QueueIsBacklog
\* A step that leaves the backlog's ingredients alone.
<1>c. ASSUME UNCHANGED <<queue[s], published, last[s]>>, Streaming(s), ~cancelled[s]
      PROVE  HoldsBacklog(s)'
  BY <1>b, <1>c DEF HoldsBacklog
<1>1. CASE Publish
  <2> DEFINE q == queue[s]
  <2>1. Streaming(s) /\ ~cancelled[s] /\ s \in attached
    BY <1>1 DEF Publish, Streaming, Bookkeeping
  <2>2. /\ last[s] <= published
        /\ Len(q) = Smaller(QUEUE_MAXSIZE, published - last[s])
        /\ \A i \in 1..Len(q) : q[i] = (published - Len(q)) + i
    BY <2>1, <1>b DEF HoldsBacklog
  <2>3. /\ queue'[s] = Offer(q, published + 1)
        /\ published' = published + 1
        /\ last'[s] = last[s]
    BY <1>1, <2>1 DEF Publish
  <2>4. Len(q) \in Nat /\ Len(q) <= QUEUE_MAXSIZE
    BY <1>a, <2>2, SmallerIsLeast
  <2>5. /\ Len(queue'[s]) = IF Len(q) = QUEUE_MAXSIZE THEN Len(q) ELSE Len(q) + 1
        /\ \A i \in 1..Len(queue'[s]) :
              queue'[s][i] = IF i = Len(queue'[s]) THEN published + 1
                             ELSE IF Len(q) = QUEUE_MAXSIZE THEN q[i + 1] ELSE q[i]
    <3>1. q \in Seq(Nat \cup {SENTINEL}) /\ published + 1 \in Nat
      BY <1>a
    <3> HIDE DEF q, TypeOK
    <3> QED BY <2>3, <2>4, <3>1, OfferEffect
  <2>6. Len(queue'[s]) = Smaller(QUEUE_MAXSIZE, published' - last'[s])
    <3> HIDE DEF q, TypeOK
    <3> QED BY <1>a, <2>2, <2>3, <2>4, <2>5 DEF Smaller
  <2>7. \A i \in 1..Len(queue'[s]) : queue'[s][i] = (published' - Len(queue'[s])) + i
    <3> HIDE DEF q, TypeOK
    <3> TAKE i \in 1..Len(queue'[s])
    <3>1. CASE i = Len(queue'[s])
      <4>1. queue'[s][i] = published + 1
        BY <2>4, <2>5, <3>1
      <4>2. Len(queue'[s]) \in Nat
        BY <2>4, <2>5
      <4> QED BY <1>a, <2>3, <3>1, <4>1, <4>2
    <3>2. CASE i # Len(queue'[s]) /\ Len(q) = QUEUE_MAXSIZE
      <4>1. i + 1 \in 1..Len(q) /\ queue'[s][i] = q[i + 1]
        BY <2>4, <2>5, <3>2
      <4>2. q[i + 1] = (published - Len(q)) + (i + 1)
        BY <2>2, <4>1
      <4>3. Len(queue'[s]) = Len(q)
        BY <2>5, <3>2
      <4>4. i \in Nat
        BY <2>4, <4>3
      <4>5. (published - Len(q)) + (i + 1) = ((published + 1) - Len(q)) + i
        BY <1>a, <2>4, <4>4, ShiftedFrame
      <4> QED BY <2>3, <4>1, <4>2, <4>3, <4>5
    <3>3. CASE i # Len(queue'[s]) /\ Len(q) # QUEUE_MAXSIZE
      <4>1. i \in 1..Len(q) /\ queue'[s][i] = q[i]
        BY <2>4, <2>5, <3>3
      <4>2. q[i] = (published - Len(q)) + i
        BY <2>2, <4>1
      <4>3. Len(queue'[s]) = Len(q) + 1
        BY <2>5, <3>3
      <4>4. i \in Nat
        BY <2>4, <4>1
      <4>5. (published - Len(q)) + i = ((published + 1) - (Len(q) + 1)) + i
        BY <1>a, <2>4, <4>4, GrownQueue
      <4> QED BY <2>3, <4>1, <4>2, <4>3, <4>5
    <3> QED BY <3>1, <3>2, <3>3
  <2> QED BY <1>a, <2>2, <2>3, <2>6, <2>7 DEF HoldsBacklog
<1>2. CASE Shutdown
  BY <1>2, <1>c DEF Shutdown, Streaming
<1>3. CASE CancelCloser
  BY <1>3, <1>c DEF CancelCloser, Streaming
<1>4. ASSUME NEW t \in Subscribers, Subscribe(t) PROVE HoldsBacklog(s)'
  <2>1. CASE s = t
    <3>1. /\ queue'[s] = <<>>
          /\ last'[s] = published
          /\ published' = published
      BY <1>4, <2>1 DEF Subscribe, Bookkeeping
    <3> QED BY <1>a, <3>1 DEF HoldsBacklog, Smaller
  <2>2. CASE s # t
    BY <1>4, <1>c, <2>2 DEF Subscribe, Streaming
  <2> QED BY <2>1, <2>2
<1>5. ASSUME NEW t \in Subscribers, GetNone(t) PROVE HoldsBacklog(s)'
  <2>1. s # t
    BY <1>5 DEF GetNone, Leave, Streaming
  <2> QED BY <1>5, <1>c, <2>1 DEF GetNone, Leave, Streaming
<1>6. ASSUME NEW t \in Subscribers, GetFrame(t) PROVE HoldsBacklog(s)'
  <2>1. CASE s = t
    <3> DEFINE q == queue[s]
    <3>1. Streaming(s) /\ ~cancelled[s] /\ q # <<>>
      BY <1>6, <2>1 DEF GetFrame, Streaming
    <3>2. /\ queue'[s] = Tail(q)
          /\ last'[s] = Head(q)
          /\ published' = published
      BY <1>6, <2>1 DEF GetFrame
    <3>3. /\ Head(q) = (published - Len(q)) + 1
          /\ Len(q) \in Nat \ {0}
          /\ Len(q) <= QUEUE_MAXSIZE
      BY <3>1, HeadOfBacklog
    <3>4. /\ Len(Tail(q)) = Len(q) - 1
          /\ \A i \in 1..Len(q) - 1 : Tail(q)[i] = q[i + 1]
      BY <1>a, <3>1
    <3>5. \A i \in 1..Len(q) : q[i] = (published - Len(q)) + i
      BY <1>b, <3>1 DEF HoldsBacklog
    <3>6. published' - last'[s] = Len(q) - 1
      <4> HIDE DEF q, TypeOK
      <4> QED BY <1>a, <3>2, <3>3
    <3>7. Len(queue'[s]) = Smaller(QUEUE_MAXSIZE, published' - last'[s])
      <4> HIDE DEF q, TypeOK
      <4> QED BY <1>a, <3>2, <3>3, <3>4, <3>6 DEF Smaller
    <3>8. \A i \in 1..Len(queue'[s]) : queue'[s][i] = (published' - Len(queue'[s])) + i
      <4> HIDE DEF q, TypeOK
      <4> QED BY <1>a, <3>2, <3>3, <3>4, <3>5
    <3>9. last'[s] <= published'
      <4> HIDE DEF q, TypeOK
      <4> QED BY <1>a, <3>2, <3>3
    <3> QED BY <3>7, <3>8, <3>9 DEF HoldsBacklog
  <2>2. CASE s # t
    BY <1>6, <1>c, <2>2 DEF GetFrame, Streaming
  <2> QED BY <2>1, <2>2
<1>7. ASSUME NEW t \in Subscribers, GetWait(t) PROVE HoldsBacklog(s)'
  BY <1>7, <1>c DEF GetWait, Streaming
<1>8. ASSUME NEW t \in Subscribers, CancelGet(t) PROVE HoldsBacklog(s)'
  BY <1>8, <1>c DEF CancelGet, Leave, Streaming
<1>9. ASSUME NEW t \in Subscribers, CancelWrite(t) PROVE HoldsBacklog(s)'
  BY <1>9, <1>c DEF CancelWrite, Leave, ShutdownSubscriber, Streaming
<1>10. ASSUME NEW t \in Subscribers, ShutdownTask(t) PROVE HoldsBacklog(s)'
  BY <1>10, <1>c DEF ShutdownTask, ShutdownSubscriber, Streaming
<1>11. CASE UNCHANGED vars
  BY <1>11, <1>c DEF vars, Streaming
<1> QED
  BY <1>1, <1>2, <1>3, <1>4, <1>5, <1>6, <1>7, <1>8, <1>9, <1>10, <1>11 DEF Next

\* IInv is inductive, so every reachable state satisfies it.
THEOREM Inductive == Spec => []IInv
<1>1. IInv /\ [Next]_vars => IInv'
  BY StepTypeOK, StepBookkeeping, StepBacklog DEF IInv
<1> QED BY InitIInv, <1>1, PTL DEF Spec

\* For every queue bound and any number of subscribers, the variables keep
\* their types: get() never hands the sentinel out as a frame.
THEOREM TypeCorrect == Spec => []TypeOK
  BY Inductive, PTL DEF IInv

\* For every queue bound and any number of subscribers, a queue that was not
\* shut down is exactly the subscriber's backlog.
THEOREM BacklogCorrect == Spec => []QueueIsBacklog
  BY Inductive, PTL DEF IInv

\* Once the list was swapped, a live subscriber that was not told has its
\* shutdown() pending, unless that was cancelled with the closer.
PendingShutdown ==
    \A s \in Subscribers :
        Streaming(s) /\ ~cancelled[s] /\ ~open => s \in closing \cup untold

\* No subscriber is ever forgotten by subscribe() and shutdown(): each one still
\* in its loop is on the list, or about to be told, or told, or its shutdown()
\* task was cancelled with the closer.
THEOREM NoSubscriberForgotten == Spec => []NobodyForgotten
<1>1. Init => PendingShutdown
  BY DEF Init, PendingShutdown
<1>2. IInv /\ PendingShutdown /\ [Next]_vars => PendingShutdown'
  <2> SUFFICES ASSUME IInv, PendingShutdown, [Next]_vars PROVE PendingShutdown'
    OBVIOUS
  <2> USE DEF IInv, TypeOK, Bookkeeping, PendingShutdown, Streaming
  <2>1. CASE Publish
    BY <2>1 DEF Publish
  <2>2. CASE Shutdown
    BY <2>2 DEF Shutdown
  <2>3. CASE CancelCloser
    BY <2>3 DEF CancelCloser
  <2>4. ASSUME NEW s \in Subscribers, Subscribe(s) PROVE PendingShutdown'
    BY <2>4 DEF Subscribe
  <2>5. ASSUME NEW s \in Subscribers, GetNone(s) PROVE PendingShutdown'
    BY <2>5 DEF GetNone, Leave
  <2>6. ASSUME NEW s \in Subscribers, GetFrame(s) PROVE PendingShutdown'
    BY <2>6 DEF GetFrame
  <2>7. ASSUME NEW s \in Subscribers, GetWait(s) PROVE PendingShutdown'
    BY <2>7 DEF GetWait
  <2>8. ASSUME NEW s \in Subscribers, CancelGet(s) PROVE PendingShutdown'
    BY <2>8 DEF CancelGet, Leave
  <2>9. ASSUME NEW s \in Subscribers, CancelWrite(s) PROVE PendingShutdown'
    BY <2>9 DEF CancelWrite, Leave, ShutdownSubscriber
  <2>10. ASSUME NEW s \in Subscribers, ShutdownTask(s) PROVE PendingShutdown'
    BY <2>10 DEF ShutdownTask, ShutdownSubscriber
  <2>11. CASE UNCHANGED vars
    BY <2>11 DEF vars
  <2> QED
    BY <2>1, <2>2, <2>3, <2>4, <2>5, <2>6, <2>7, <2>8, <2>9, <2>10, <2>11 DEF Next
<1>3. IInv /\ PendingShutdown => NobodyForgotten
  BY DEF IInv, TypeOK, Bookkeeping, PendingShutdown, NobodyForgotten
<1> QED BY <1>1, <1>2, <1>3, Inductive, PTL DEF Spec

\* The first of the n frames of a backlog is the frame the feed delivers next.
LEMMA OldestOfBacklog ==
    ASSUME NEW p \in Nat, NEW l \in Nat, NEW n \in Nat \ {0},
           n <= QUEUE_MAXSIZE, n <= p - l, n < p - l => n = QUEUE_MAXSIZE
    PROVE  l < p /\ (p - n) + 1 = Feed!Oldest(l, p)
  BY QueueAssumption DEF Feed!Oldest

\* The transport implements CorrectionFeed: whatever the interleaving, a
\* subscriber is handed the oldest frame of its window that it has not had.
THEOREM TransportImplementsFeed == Spec => ImplementsFeed
<1> USE DEF feedStatus
<1>1. Init => Feed!Init
  BY DEF Init, Feed!Init
<1>2. IInv /\ [Next]_vars => [Feed!Next]_Feed!feedVars
  <2> SUFFICES ASSUME IInv, [Next]_vars PROVE [Feed!Next]_Feed!feedVars
    OBVIOUS
  <2> USE QueueAssumption DEF IInv, TypeOK, States, Feed!feedVars
  <2>1. CASE Publish
    BY <2>1 DEF Publish, Feed!Next, Feed!Publish
  <2>2. CASE Shutdown
    BY <2>2 DEF Shutdown
  <2>3. CASE CancelCloser
    BY <2>3 DEF CancelCloser
  <2>4. ASSUME NEW s \in Subscribers, Subscribe(s) PROVE Feed!Join(s)
    BY <2>4 DEF Subscribe, Feed!Join
  <2>5. ASSUME NEW s \in Subscribers, GetNone(s) PROVE Feed!End(s)
    BY <2>5 DEF GetNone, Leave, Feed!End
  <2>6. ASSUME NEW s \in Subscribers, GetFrame(s) PROVE Feed!Deliver(s)
    <3>1. Streaming(s) /\ ~cancelled[s] /\ queue[s] # <<>>
      <4>1. Streaming(s) /\ queue[s] # <<>> /\ Head(queue[s]) # SENTINEL
        BY <2>6 DEF GetFrame, Streaming
      <4>2. cancelled[s] => queue[s] = <<SENTINEL>>
        BY <4>1 DEF Bookkeeping
      <4> QED BY <4>1, <4>2
    <3>2. /\ Head(queue[s]) = (published - Len(queue[s])) + 1
          /\ Len(queue[s]) \in Nat \ {0}
          /\ Len(queue[s]) <= QUEUE_MAXSIZE
          /\ Len(queue[s]) <= published - last[s]
          /\ Len(queue[s]) < published - last[s] => Len(queue[s]) = QUEUE_MAXSIZE
      BY <3>1, HeadOfBacklog
    <3>3. published \in Nat /\ last[s] \in Nat
      OBVIOUS
    <3>4. last[s] < published /\ Head(queue[s]) = Feed!Oldest(last[s], published)
      BY <3>2, <3>3, OldestOfBacklog
    <3>5. /\ feedStatus[s] = "live"
          /\ UNCHANGED <<published, feedStatus>>
      BY <2>6, <3>1 DEF GetFrame, Streaming
    <3> QED BY <2>6, <3>4, <3>5 DEF GetFrame, Feed!Deliver
  <2>7. ASSUME NEW s \in Subscribers, GetWait(s) PROVE UNCHANGED Feed!feedVars
    BY <2>7 DEF GetWait
  <2>8. ASSUME NEW s \in Subscribers, CancelGet(s) PROVE Feed!End(s)
    BY <2>8 DEF CancelGet, Leave, Feed!End
  <2>9. ASSUME NEW s \in Subscribers, CancelWrite(s) PROVE Feed!End(s)
    BY <2>9 DEF CancelWrite, Leave, Feed!End
  <2>10. ASSUME NEW s \in Subscribers, ShutdownTask(s) PROVE UNCHANGED Feed!feedVars
    BY <2>10 DEF ShutdownTask
  <2>11. CASE UNCHANGED vars
    BY <2>11 DEF vars
  <2> QED
    BY <2>1, <2>2, <2>3, <2>4, <2>5, <2>6, <2>7, <2>8, <2>9, <2>10, <2>11
    DEF Next, Feed!Next
<1> QED BY <1>1, <1>2, Inductive, PTL DEF Spec, ImplementsFeed, Feed!Spec
=============================================================================
