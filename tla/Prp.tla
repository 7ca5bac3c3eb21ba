-------------------------------- MODULE Prp --------------------------------
(***************************************************************************)
(* Transfers between the device and host memory (nvme_gpa_xfer of a queue  *)
(* entry, nvme_prp_xfer of a buffer that a PRP pair names, src/nvme.c),    *)
(* over a table of DMA regions that the client maps and unmaps in between. *)
(* A transfer is the address that each byte of the local buffer goes to or *)
(* comes from.                                                             *)
(***************************************************************************)
EXTENDS DmaClient, FiniteSets, SequencesExt

CONSTANTS
  ps,          \* KVSSD_PAGE_SIZE
  NVME_MAX_SG, \* descriptors of a PRP transfer
  max_sg,      \* descriptors of a contiguous one
  Prp1, Prp2, Lens

ASSUME PrpAssumption ==
  /\ ps \in Nat \ {0} /\ NVME_MAX_SG \in Nat /\ max_sg \in Nat
  /\ Prp1 \subseteq Nat /\ Prp2 \subseteq Nat /\ Lens \subseteq Nat

VARIABLE xfer  \* the transfer just made

vars == <<clientVars, xfer>>

NoXfer == [made |-> FALSE]

(* External: the pieces of a contiguous range, one for each region that it *)
(* meets, in ascending order; fails (<<>>) when an address is not mapped   *)
(* or there are more than limit pieces.                                    *)
RegionsMet(addr, len) == {g \in regions : g.start < addr + len /\ addr < g.end}
Nth(S, i) == CHOOSE g \in S : Cardinality({h \in S : h.start <= g.start}) = i
Piece(g, addr, len) ==
  LET lo == Max({g.start, addr})
      hi == Min({g.end, addr + len})
  IN [i \in 1 .. hi - lo |-> lo + i - 1]

vfu_addr_to_sgl(addr, len, limit) ==
  LET met == RegionsMet(addr, len)
  IN IF addr .. addr + len - 1 \subseteq Mapped /\ Cardinality(met) <= limit
     THEN [i \in 1 .. Cardinality(met) |-> Piece(Nth(met, i), addr, len)]
     ELSE <<>>

(* Variant: all descriptors used is one too many.                          *)
SglCopyOneLess(sgl, len) ==
  LET all == FlattenSeq(sgl)
  IN IF Len(sgl) \in 1 .. NVME_MAX_SG - 1 /\ Len(all) >= len THEN SubSeq(all, 1, len) ELSE <<>>

(* The addresses that nvme_sgl_copy copies to or from, in buffer order; it *)
(* fails unless the pieces have len bytes.                                 *)
nvme_sgl_copy(sgl, len) ==
  LET all == FlattenSeq(sgl)
  IN IF Len(sgl) \in 1 .. NVME_MAX_SG /\ Len(all) >= len THEN SubSeq(all, 1, len) ELSE <<>>

(* Variant: the first part is a whole page.                                *)
FirstIgnoresOffset(prp1, len) == Min({len, ps})

first(prp1, len) == Min({len, ps - (prp1 % ps)})

(* What nvme_prp_xfer moves; <<>> when it returns -1.                      *)
Sgl(prp1, prp2, len) ==
  LET one == vfu_addr_to_sgl(prp1, first(prp1, len), NVME_MAX_SG)
      remaining == len - first(prp1, len)
      two == vfu_addr_to_sgl(prp2, remaining, NVME_MAX_SG - Len(one))
  IN IF one = <<>> THEN <<>>
     ELSE IF remaining = 0 THEN one
     ELSE IF remaining > ps \/ two = <<>> THEN <<>>
     ELSE one \o two

(* malloc and vfu_sgl_get may fail, and then no byte is moved.             *)
Transfer(prp1, prp2, len, sgl, limit) ==
  \E gets \in BOOLEAN :
    LET moved == IF len = 0 \/ ~gets THEN <<>> ELSE nvme_sgl_copy(sgl, len)
    IN /\ xfer' = [made |-> TRUE, prp1 |-> prp1, prp2 |-> prp2, len |-> len, gets |-> gets,
                   limit |-> limit, moved |-> moved,
                   rc |-> IF len = 0 \/ moved # <<>> THEN 0 ELSE -1]
       /\ UNCHANGED clientVars

nvme_prp_xfer(prp1, prp2, len) == Transfer(prp1, prp2, len, Sgl(prp1, prp2, len), NVME_MAX_SG)

(* A queue entry: PRP2 is the page after the one of its address.           *)
nvme_gpa_xfer(gpa, len) ==
  Transfer(gpa, ps * (gpa \div ps + 1), len, vfu_addr_to_sgl(gpa, len, max_sg),
           Min({NVME_MAX_SG, max_sg}))

(* The callback is over: only then is the next message read.               *)
Return == xfer' = NoXfer /\ UNCHANGED clientVars

Init == ClientInit /\ xfer = NoXfer

Next ==
  \/ ~xfer.made /\ ClientNext /\ UNCHANGED xfer
  \/ ~xfer.made /\ \E prp1 \in Prp1, prp2 \in Prp2, len \in Lens : nvme_prp_xfer(prp1, prp2, len)
  \/ ~xfer.made /\ \E gpa \in Prp1, len \in Lens : nvme_gpa_xfer(gpa, len)
  \/ xfer.made /\ Return

Spec == Init /\ [][Next]_vars

-----------------------------------------------------------------------------
(* Properties.                                                             *)

(* Byte k of the buffer of a PRP pair: the bytes up to the end of PRP1's   *)
(* page are at PRP1, the others at PRP2.                                   *)
InFirstPage(x) == {k \in 0 .. x.len - 1 : (x.prp1 + k) \div ps = x.prp1 \div ps}
Place(x, k) ==
  IF k \in InFirstPage(x) THEN x.prp1 + k ELSE x.prp2 + (k - Cardinality(InFirstPage(x)))

(* A transfer moves every byte to its place in the buffer of the PRP pair, *)
(* or none: also when the parts lie in several regions, or share a page.   *)
AllOrNothing ==
  xfer.made =>
    xfer.moved \in {<<>>, [k \in 1 .. xfer.len |-> Place(xfer, k - 1)]}

(* A transfer fails only for want of memory, of a mapping, or of           *)
(* descriptors: the regions that its two parts meet are more than there    *)
(* are descriptors for this kind of transfer.                              *)
Part(x, first_page) ==
  {Place(x, k) : k \in {k \in 0 .. x.len - 1 : (k \in InFirstPage(x)) = first_page}}
Met(addrs) == {g \in regions : addrs \intersect (g.start .. g.end - 1) # {}}
Excused(x) ==
  \/ ~x.gets
  \/ \E k \in 0 .. x.len - 1 : Place(x, k) \notin Mapped
  \/ Cardinality(Met(Part(x, TRUE))) + Cardinality(Met(Part(x, FALSE))) > x.limit

(* A transfer that two pages can hold, from wherever in the first it       *)
(* starts, fails for no other reason: KV values, identify pages and queue  *)
(* entries always, and a LIST page up to the length that its offset        *)
(* leaves.  A longer one needs a PRP list, which the code does not have.   *)
TwoPagesWork ==
  xfer.made /\ xfer.rc # 0 /\ xfer.len - Cardinality(InFirstPage(xfer)) <= ps => Excused(xfer)
=============================================================================
