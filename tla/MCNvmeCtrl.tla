----------------------------- MODULE MCNvmeCtrl -----------------------------
(***************************************************************************)
(* Small instances of NvmeCtrl.                                            *)
(***************************************************************************)
EXTENDS NvmeCtrl
=============================================================================
