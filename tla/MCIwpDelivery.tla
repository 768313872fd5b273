---------------------------- MODULE MCIwpDelivery ----------------------------
(* Instances of IwpDelivery for TLC; the .cfg files give the constants. *)
EXTENDS IwpDelivery
=============================================================================
