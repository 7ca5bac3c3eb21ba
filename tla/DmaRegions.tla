----------------------------- MODULE DmaRegions -----------------------------
(***************************************************************************)
(* libvfio-user's table of DMA regions with the range unmap of             *)
(* patches/0001-libvfio-user-dma-range-unmap.patch.  The library itself is *)
(* not in the repository: a MAP enters a region unless it overlaps one     *)
(* ("EINVAL overlaps with DMA region", says the patch), and an iterator    *)
(* that starts at an address yields, in ascending order, the regions that  *)
(* end after it.  The generation count, which only descriptors kept from   *)
(* one message to the next would look at, is left out: none are kept.      *)
(***************************************************************************)
EXTENDS Integers

CONSTANTS
  AddrMod, \* 2^64
  Ranges   \* what the client maps and unmaps: [addr, size]

ASSUME RangesAssumption ==
  /\ AddrMod \in Nat \ {0}
  /\ Ranges \subseteq [addr : Nat, size : Nat \ {0}]
  /\ \A r \in Ranges : r.addr + r.size <= AddrMod

VARIABLE regions \* dma->regions

Region == [start : Nat, end : Nat]
Bytes(r) == r.addr .. r.addr + r.size - 1
Mapped == UNION {g.start .. g.end - 1 : g \in regions}

DmaInit == regions = {}

Overlaps(g, r) == g.start < r.addr + r.size /\ r.addr < g.end

dma_controller_add_region(r) ==
  \/ /\ \A g \in regions : ~Overlaps(g, r)
     /\ regions' = regions \union {[start |-> r.addr, end |-> r.addr + r.size]}
  \/ /\ \E g \in regions : Overlaps(g, r)
     /\ UNCHANGED regions

(* Variants: the region that has the same address and size, as before the  *)
(* patch; no break at unmap_end.                                           *)
RemovedExact(r) == {g \in regions : g.start = r.addr /\ g.end = r.addr + r.size}
RemovedToTheEnd(r) == {g \in regions : r.addr < g.end}

(* The loop of the patch: from the first region that ends after the        *)
(* address to the first that starts at or after unmap_end.  A range that   *)
(* ends at the top of the address space has unmap_end = 0, and then the    *)
(* loop finds nothing and the UNMAP answers ENOENT.                        *)
Removed(r) ==
  LET unmap_end == (r.addr + r.size) % AddrMod
  IN {g \in regions : r.addr < g.end /\ g.start < unmap_end}

dma_controller_remove_region(r) == regions' = regions \ Removed(r)
=============================================================================
