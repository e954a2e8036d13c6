------------------------- MODULE MCQualityPipeline -------------------------
(* Frames of the same shape as RTCM3's, with a header of two bytes, a       *)
(* trailer of one and at most one byte of payload: every position of a      *)
(* chunk boundary relative to preamble, length, payload and trailer occurs. *)
EXTENDS QualityPipeline

\* An ARP message at either of three places, and MSMs of two signal levels,
\* one with a payload that looks like a preamble.
SmallFrames ==
    {[kind |-> "arp", val |-> 1, payload |-> <<>>],
     [kind |-> "arp", val |-> 2, payload |-> <<0>>],
     [kind |-> "arp", val |-> 3, payload |-> <<>>],
     [kind |-> "msm", val |-> 40, payload |-> <<>>],
     [kind |-> "msm", val |-> 50, payload |-> <<PREAMBLE>>]}

=============================================================================
