----------------------------- MODULE MCBringUp -----------------------------
(***************************************************************************)
(* Two drivers that take turns, on a device with two I/O queues: a driver  *)
(* asks for one, for two, or for more than there are.                      *)
(***************************************************************************)
EXTENDS BringUp
=============================================================================
