---------------------------- MODULE MCComEvents ----------------------------
(* ComEvents with a queue of one or two events and a few clients and sinks.  *)
EXTENDS ComEvents, TLC

=============================================================================
