--------------------------- MODULE MCQueueManager ---------------------------
(* Instances of QueueManager for TLC; the .cfg file gives the constants. *)
EXTENDS QueueManager
=============================================================================
