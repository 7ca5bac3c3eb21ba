------------------------------- MODULE MCPrp -------------------------------
(***************************************************************************)
(* An address space of four pages of two bytes: regions of one to three    *)
(* pages, also at its end, and of single bytes, so that a buffer of four   *)
(* bytes can need more descriptors than there are.                         *)
(***************************************************************************)
EXTENDS Prp

MCRanges ==
  {r \in [addr : {0, 2, 4, 6}, size : {2, 4, 6}] : r.addr + r.size <= AddrMod}
    \union [addr : {2, 3, 4}, size : {1}]
MCPrp1 == 0 .. 6
MCPrp2 == {0, 2, 4}
MCLens == 0 .. 5
=============================================================================
