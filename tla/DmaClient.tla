----------------------------- MODULE DmaClient -----------------------------
(***************************************************************************)
(* The table of DMA regions with what its client may expect of it, byte by *)
(* byte: the kernel's VFIO_IOMMU_UNMAP_DMA, to which the protocol refers   *)
(* (patches/0001-libvfio-user-dma-range-unmap.patch, lines 13 to 15),      *)
(* takes away what the range covers and nothing else.  The patch owns to   *)
(* one difference: a region of which the range covers a part goes whole.   *)
(***************************************************************************)
EXTENDS DmaRegions

VARIABLES
  live, \* history: mapped by the client and not unmapped since
  top,  \* history: unmapped last by a range that ends at the top of the address space
  cut   \* history: not unmapped, but in a region that an UNMAP covered in part

clientVars == <<regions, live, top, cut>>

ClientInit == DmaInit /\ live = {} /\ top = {} /\ cut = {}

(* A MAP that is refused leaves the client as it was.                      *)
Map(r) ==
  /\ dma_controller_add_region(r)
  /\ IF \E g \in regions : Overlaps(g, r) THEN UNCHANGED <<live, top, cut>>
     ELSE live' = live \union Bytes(r) /\ top' = top \ Bytes(r) /\ cut' = cut \ Bytes(r)

(* Every UNMAP counts, also one that was answered with ENOENT.             *)
Unmap(r) ==
  /\ dma_controller_remove_region(r)
  /\ live' = live \ Bytes(r)
  /\ top' = IF r.addr + r.size = AddrMod THEN top \union Bytes(r) ELSE top \ Bytes(r)
  /\ cut' = (cut \union {a \in Mapped : \E g \in regions :
                           Overlaps(g, r) /\ g.start <= a /\ a < g.end}) \ Bytes(r)

ClientNext == \E r \in Ranges : Map(r) \/ Unmap(r)

ClientSpec == ClientInit /\ [][ClientNext]_clientVars

-----------------------------------------------------------------------------
(* Properties.                                                             *)

(* "Unregister every region that overlaps with [dma_addr, dma_addr+size)"  *)
(* (the patch, line 11): nothing that the client unmapped stays mapped.    *)
NothingLeaks == Mapped \subseteq live

(* However UNMAPs cut or coalesce MAPs, what the client unmapped stays     *)
(* mapped only if the range ended at the top of the address space.  So no  *)
(* transfer reaches any other memory that was given back, and a fresh MAP  *)
(* of it never collides with a region that was left behind.                *)
LeaksAtTopOnly == Mapped \subseteq live \union top

(* And no UNMAP takes too much: what the client mapped and did not unmap   *)
(* is mapped, unless an UNMAP covered a part of its region.                *)
NothingLost == live \subseteq Mapped \union cut
=============================================================================
