------------------------- MODULE MCHere4BaseCaster -------------------------
(* Two ports and a handful of messages: enough for a reconnection while    *)
(* process_loop configures the first port, and for both queues to be full. *)
EXTENDS Here4BaseCaster

=============================================================================
