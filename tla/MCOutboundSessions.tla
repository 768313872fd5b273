------------------------- MODULE MCOutboundSessions -------------------------
(* Instances of OutboundSessions for TLC; the .cfg files give the constants. *)
EXTENDS OutboundSessions
=============================================================================
