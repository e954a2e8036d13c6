--------------------------- MODULE CorrectionFeed ---------------------------
(***************************************************************************)
(* What a mountpoint's transport promises its subscribers, with no queue   *)
(* in sight.  Frames are numbered in the order the base station publishes  *)
(* them.  A live subscriber is handed frames one at a time; the next one   *)
(* is the oldest frame it has not had yet among the Window most recently   *)
(* published.  A slow subscriber therefore loses only frames that are at   *)
(* least Window frames old, never sees a frame twice and never goes back.  *)
(* QueueTransport is shown to implement this.                              *)
(***************************************************************************)
EXTENDS Naturals

CONSTANTS Subscribers,  \* subscriptions, each used for one subscribe()
          Window        \* how far a subscriber may lag without losing a frame

VARIABLES published,    \* number of frames published so far
          last,         \* last[s]: the newest frame s was handed
          status        \* "none", "live" or "ended"

feedVars == <<published, last, status>>

\* The oldest frame newer than from among the Window latest of pub frames.
Oldest(from, pub) == IF pub - from <= Window THEN from + 1 ELSE pub - Window + 1

Init ==
    /\ published = 0
    /\ last = [s \in Subscribers |-> 0]
    /\ status = [s \in Subscribers |-> "none"]

\* A subscriber sees only what is published after it joined.
Join(s) ==
    /\ status[s] = "none"
    /\ status' = [status EXCEPT ![s] = "live"]
    /\ last' = [last EXCEPT ![s] = published]
    /\ UNCHANGED published

Publish ==
    /\ published' = published + 1
    /\ UNCHANGED <<last, status>>

Deliver(s) ==
    /\ status[s] = "live"
    /\ last[s] < published
    /\ last' = [last EXCEPT ![s] = Oldest(last[s], published)]
    /\ UNCHANGED <<published, status>>

End(s) ==
    /\ status[s] = "live"
    /\ status' = [status EXCEPT ![s] = "ended"]
    /\ UNCHANGED <<published, last>>

Next ==
    \/ Publish
    \/ \E s \in Subscribers : Join(s) \/ Deliver(s) \/ End(s)

Spec == Init /\ [][Next]_feedVars
=============================================================================
