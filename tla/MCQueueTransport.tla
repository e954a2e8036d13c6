-------------------------- MODULE MCQueueTransport --------------------------
(***************************************************************************)
(* The instances of QueueTransport that TLC checks.  A queue of two slots  *)
(* and five frames let a queue fill, overflow twice over and be drained;   *)
(* two subscribers let one leave, or lag, while the other streams.         *)
(***************************************************************************)
EXTENDS QueueTransport

SmallQueue == 2
FewFrames  == 5
=============================================================================
