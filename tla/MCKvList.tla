------------------------------ MODULE MCKvList ------------------------------
(***************************************************************************)
(* Four keys in four slots, two to a page.                                 *)
(***************************************************************************)
EXTENDS KvList, TLC

CONSTANTS k1, k2, k3, k0
MCKey == {k0, k1, k2, k3}
=============================================================================
