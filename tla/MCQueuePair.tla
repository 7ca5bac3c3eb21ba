---------------------------- MODULE MCQueuePair ----------------------------
(***************************************************************************)
(* Small instances of QueuePair.                                           *)
(***************************************************************************)
EXTENDS QueuePair
=============================================================================
