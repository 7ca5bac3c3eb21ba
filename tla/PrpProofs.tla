----------------------------- MODULE PrpProofs -----------------------------
(***************************************************************************)
(* The table of DMA regions, for every address width and every sequence of *)
(* MAPs and UNMAPs: what its client may expect of it (DmaClient), and the  *)
(* transfers that are made over it (Prp).                                  *)
(***************************************************************************)
EXTENDS Prp, FiniteSetTheorems, SequenceTheorems, TLAPS

(* Regions are pairs of addresses and do not overlap.                      *)
RegionsDisjoint ==
  /\ regions \subseteq Region
  /\ \A g, h \in regions : g # h => g.end <= h.start \/ h.end <= g.start

(* The bytes of the ranges are naturals.                                   *)
LEMMA RangeType ==
  ASSUME NEW r \in Ranges
  PROVE  r.addr \in Nat /\ r.size \in Nat \ {0} /\ r.addr + r.size <= AddrMod
  BY RangesAssumption

(* The library enters a region that overlaps no other.                     *)
LEMMA AddDisjoint ==
  ASSUME RegionsDisjoint, NEW r \in Ranges, dma_controller_add_region(r)
  PROVE  RegionsDisjoint'
<1> DEFINE n == [start |-> r.addr, end |-> r.addr + r.size]
<1>1. CASE UNCHANGED regions
  BY <1>1 DEF RegionsDisjoint
<1>2. CASE /\ \A g \in regions : ~Overlaps(g, r)
           /\ regions' = regions \union {n}
  <2>1. n \in Region /\ n.start = r.addr /\ n.end = r.addr + r.size
    BY RangeType DEF Region
  <2>2. ASSUME NEW g \in regions PROVE g.end <= n.start \/ n.end <= g.start
    <3>1. g.start \in Nat /\ g.end \in Nat
      BY DEF RegionsDisjoint, Region
    <3>2. ~(g.start < r.addr + r.size /\ r.addr < g.end)
      BY <1>2 DEF Overlaps
    <3> QED BY <2>1, <3>1, <3>2, RangeType
  <2> HIDE DEF n
  <2> QED BY <1>2, <2>1, <2>2 DEF RegionsDisjoint
<1> QED BY <1>1, <1>2 DEF dma_controller_add_region

(* Removing regions makes none overlap.                                    *)
LEMMA RemoveDisjoint ==
  ASSUME RegionsDisjoint, NEW r \in Ranges, dma_controller_remove_region(r)
  PROVE  RegionsDisjoint'
  BY DEF RegionsDisjoint, dma_controller_remove_region

-----------------------------------------------------------------------------
(* What an UNMAP takes away.                                               *)

(* The end of the range, which wraps at the top of the address space only. *)
LEMMA UnmapEnd ==
  ASSUME NEW r \in Ranges
  PROVE  (r.addr + r.size) % AddrMod = IF r.addr + r.size = AddrMod THEN 0 ELSE r.addr + r.size
<1>1. r.addr \in Nat /\ r.size \in Nat \ {0} /\ r.addr + r.size <= AddrMod /\ AddrMod \in Nat \ {0}
  BY RangeType, RangesAssumption
<1>2. AddrMod % AddrMod = 0
  BY <1>1, SMTT(30)
<1>3. ASSUME NEW x \in 0 .. AddrMod - 1 PROVE x % AddrMod = x
  BY <1>1, SMTT(30)
<1>4. CASE r.addr + r.size = AddrMod
  BY <1>2, <1>4
<1>5. CASE r.addr + r.size # AddrMod
  <2>1. r.addr + r.size \in 0 .. AddrMod - 1
    BY <1>1, <1>5
  <2> QED BY <1>3, <1>5, <2>1
<1> QED BY <1>4, <1>5

(* Of the regions that a range overlaps all are removed, or none when the  *)
(* range ends at the top; no other region ever is.                         *)
LEMMA RemovedIs ==
  ASSUME RegionsDisjoint, NEW r \in Ranges
  PROVE  Removed(r) = IF r.addr + r.size = AddrMod THEN {} ELSE {g \in regions : Overlaps(g, r)}
<1>1. \A g \in regions : g.start \in Nat /\ g.end \in Nat
  BY DEF RegionsDisjoint, Region
<1>2. CASE r.addr + r.size = AddrMod
  <2>1. (r.addr + r.size) % AddrMod = 0
    BY <1>2, UnmapEnd
  <2> QED BY <1>1, <1>2, <2>1 DEF Removed
<1>3. CASE r.addr + r.size # AddrMod
  <2>1. (r.addr + r.size) % AddrMod = r.addr + r.size
    BY <1>3, UnmapEnd
  <2> QED BY <1>3, <2>1 DEF Removed, Overlaps
<1> QED BY <1>2, <1>3

(* A region and a range that share a byte overlap.                         *)
LEMMA SharedByte ==
  ASSUME RegionsDisjoint, NEW r \in Ranges, NEW g \in regions, NEW a \in g.start .. g.end - 1,
         a \in Bytes(r)
  PROVE  Overlaps(g, r)
<1>1. g.start \in Nat /\ g.end \in Nat
  BY DEF RegionsDisjoint, Region
<1> QED BY <1>1, RangeType DEF Bytes, Overlaps

ClientInv == RegionsDisjoint /\ LeaksAtTopOnly /\ NothingLost

LEMMA MapInv ==
  ASSUME ClientInv, NEW r \in Ranges, Map(r)
  PROVE  ClientInv'
<1>1. RegionsDisjoint /\ LeaksAtTopOnly /\ NothingLost
  BY DEF ClientInv
<1>2. RegionsDisjoint'
  BY <1>1, AddDisjoint DEF Map
<1>3. CASE \E g \in regions : Overlaps(g, r)
  <2>1. UNCHANGED clientVars
    BY <1>3 DEF Map, dma_controller_add_region, clientVars
  <2> QED BY <1>1, <1>2, <2>1 DEF ClientInv, clientVars, LeaksAtTopOnly, NothingLost, Mapped
<1>4. CASE ~ \E g \in regions : Overlaps(g, r)
  <2> DEFINE n == [start |-> r.addr, end |-> r.addr + r.size]
  <2>1. /\ regions' = regions \union {n}
        /\ live' = live \union Bytes(r) /\ top' = top \ Bytes(r) /\ cut' = cut \ Bytes(r)
    BY <1>4 DEF Map, dma_controller_add_region
  <2>2. n.start .. n.end - 1 = Bytes(r)
    BY RangeType DEF Bytes
  <2> HIDE DEF n
  <2>3. Mapped' = Mapped \union Bytes(r)
    BY <2>1, <2>2 DEF Mapped
  <2>4. LeaksAtTopOnly' /\ NothingLost'
    BY <1>1, <2>1, <2>3 DEF LeaksAtTopOnly, NothingLost
  <2> QED BY <1>2, <2>4 DEF ClientInv
<1> QED BY <1>3, <1>4

LEMMA UnmapInv ==
  ASSUME ClientInv, NEW r \in Ranges, Unmap(r)
  PROVE  ClientInv'
<1>1. RegionsDisjoint /\ LeaksAtTopOnly /\ NothingLost
  BY DEF ClientInv
<1>2. /\ regions' = regions \ Removed(r) /\ live' = live \ Bytes(r)
      /\ top' = IF r.addr + r.size = AddrMod THEN top \union Bytes(r) ELSE top \ Bytes(r)
      /\ cut' = (cut \union {a \in Mapped : \E g \in regions :
                               Overlaps(g, r) /\ g.start <= a /\ a < g.end}) \ Bytes(r)
  BY DEF Unmap, dma_controller_remove_region
<1>3. RegionsDisjoint'
  BY <1>1, RemoveDisjoint DEF Unmap
<1>4. ASSUME NEW a \in Mapped' PROVE a \in live' \union top'
  <2>1. PICK g \in regions : g \notin Removed(r) /\ a \in g.start .. g.end - 1
    BY <1>2, <1>4 DEF Mapped
  <2>2. a \in live \union top
    BY <1>1, <2>1 DEF LeaksAtTopOnly, Mapped
  <2>3. CASE a \in Bytes(r)
    <3>1. r.addr + r.size = AddrMod
      BY <1>1, <2>1, <2>3, SharedByte, RemovedIs
    <3> QED BY <1>2, <2>3, <3>1
  <2>4. CASE a \notin Bytes(r)
    BY <1>2, <2>2, <2>4
  <2> QED BY <2>3, <2>4
<1>5. ASSUME NEW a \in live' PROVE a \in Mapped' \union cut'
  <2>1. a \in live /\ a \notin Bytes(r)
    BY <1>2, <1>5
  <2>2. CASE a \in cut
    BY <1>2, <2>1, <2>2
  <2>3. CASE a \in Mapped
    <3>1. PICK g \in regions : a \in g.start .. g.end - 1
      BY <2>3 DEF Mapped
    <3>2. CASE g \in Removed(r)
      <4>1. Overlaps(g, r)
        BY <1>1, <3>2, RemovedIs
      <4>2. g.start <= a /\ a < g.end
        BY <1>1, <3>1 DEF RegionsDisjoint, Region
      <4> QED BY <1>2, <2>1, <2>3, <4>1, <4>2
    <3>3. CASE g \notin Removed(r)
      BY <1>2, <3>1, <3>3 DEF Mapped
    <3> QED BY <3>2, <3>3
  <2> QED BY <1>1, <2>1, <2>2, <2>3 DEF NothingLost
<1> QED BY <1>3, <1>4, <1>5 DEF ClientInv, LeaksAtTopOnly, NothingLost

LEMMA ClientInvariance == ClientSpec => []ClientInv
<1>1. ClientInit => ClientInv
  BY DEF ClientInit, DmaInit, ClientInv, RegionsDisjoint, LeaksAtTopOnly, NothingLost, Mapped
<1>2. ASSUME ClientInv, [ClientNext]_clientVars PROVE ClientInv'
  <2>1. CASE UNCHANGED clientVars
    BY <1>2, <2>1 DEF clientVars, ClientInv, RegionsDisjoint, LeaksAtTopOnly, NothingLost, Mapped
  <2>2. CASE ClientNext
    BY <1>2, <2>2, MapInv, UnmapInv DEF ClientNext
  <2> QED BY <1>2, <2>1, <2>2
<1> QED BY <1>1, <1>2, PTL DEF ClientSpec

(* Transfers leave the table and what the client knows of it alone.        *)
LEMMA IsClient == Spec => ClientSpec
<1>1. Init => ClientInit
  BY DEF Init
<1>2. [Next]_vars => [ClientNext]_clientVars
  BY DEF Next, nvme_prp_xfer, nvme_gpa_xfer, Transfer, Return, vars
<1> QED BY <1>1, <1>2, PTL DEF Spec, ClientSpec

(* Nothing that the client unmapped stays mapped, unless the range of the  *)
(* UNMAP ended at the top of the address space.                            *)
THEOREM UnmapsAreComplete == Spec => []LeaksAtTopOnly
<1>1. ClientInv => LeaksAtTopOnly
  BY DEF ClientInv
<1> QED BY <1>1, IsClient, ClientInvariance, PTL

(* An UNMAP takes nothing away but regions of which it covers a byte.      *)
THEOREM UnmapsAreNarrow == Spec => []NothingLost
<1>1. ClientInv => NothingLost
  BY DEF ClientInv
<1> QED BY <1>1, IsClient, ClientInvariance, PTL

-----------------------------------------------------------------------------
(* Transfers.  The table is finite and its regions are not empty.          *)
TableInv == RegionsDisjoint /\ IsFiniteSet(regions) /\ \A g \in regions : g.start < g.end

(* Induction over data is by the least counterexample.                     *)
LEMMA Least ==
  ASSUME NEW T \in SUBSET Nat, T # {}
  PROVE  \E n \in T : \A m \in T : n <= m
<1>1. PICK x \in T : \A y \in T : <<y, x>> \notin OpToRel(<, Nat)
  BY NatLessThanWellFounded, WFMin, Zenon
<1>2. \A y \in T : ~(y < x)
  BY <1>1, Zenon DEF OpToRel
<1>3. \A y \in T : x <= y
  BY <1>2
<1> QED BY <1>3

(* The bounds that a piece is cut to.                                      *)
LEMMA MaxMinOfTwo ==
  ASSUME NEW a \in Int, NEW b \in Int
  PROVE  /\ Max({a, b}) = IF a >= b THEN a ELSE b
         /\ Min({a, b}) = IF a <= b THEN a ELSE b
<1>1. Max({a, b}) = IF a >= b THEN a ELSE b
  BY DEF Max
<1>2. Min({a, b}) = IF a <= b THEN a ELSE b
  BY DEF Min
<1> QED BY <1>1, <1>2

-----------------------------------------------------------------------------
(* Concatenation under a name of its own: the proofs below only need that  *)
(* it is associative and joins adjacent runs.                              *)
Join(p, q) == p \o q

(* Join is associative, and nothing joined changes nothing.                *)
LEMMA JoinAssoc ==
  ASSUME NEW p \in Seq(Int), NEW q \in Seq(Int), NEW r \in Seq(Int)
  PROVE  Join(Join(p, q), r) = Join(p, Join(q, r)) /\ Join(p, <<>>) = p
<1>1. (p \o q) \o r = p \o (q \o r)
  BY ConcatAssociative, SMTT(30)
<1>2. p \o <<>> = p
  BY ConcatEmptySeq
<1> QED BY <1>1, <1>2, Zenon DEF Join

(* FlattenSeq, as nvme_sgl_copy walks its pieces: if F is the sequence of  *)
(* what the first i pieces make, the last of F is what all of them make.   *)
PrefixFlats(s, n, F) ==
  /\ n \in Nat \ {0} /\ Len(s) = n /\ F = [i \in 1 .. n |-> F[i]]
  /\ \A i \in 1 .. n : F[i] = IF i = 1 THEN s[i] ELSE Join(F[i - 1], s[i])

LEMMA FlattenIs ==
  ASSUME NEW s, NEW n, NEW F, PrefixFlats(s, n, F)
  PROVE  FlattenSeq(s) = F[n]
<1> /\ n \in Nat \ {0} /\ Len(s) = n /\ F = [i \in 1 .. n |-> F[i]]
    /\ \A i \in 1 .. n : F[i] = IF i = 1 THEN s[i] ELSE Join(F[i - 1], s[i])
  BY DEF PrefixFlats
<1> DEFINE Eq(f) == f = [i \in 1 .. n |-> IF i = 1 THEN s[i] ELSE Join(f[i - 1], s[i])]
           all == CHOOSE f : Eq(f)
<1>1. FlattenSeq(s) = all[n]
  BY DEF FlattenSeq, Join
<1>2. Eq(F)
  OBVIOUS
<1>3. Eq(all)
  <2> HIDE DEF Eq
  <2> QED BY <1>2
<1> HIDE DEF all
<1>4. \A i \in 1 .. n : all[i] = IF i = 1 THEN s[i] ELSE Join(all[i - 1], s[i])
  BY <1>3
<1> DEFINE T == {i \in 1 .. n : all[i] # F[i]}
<1>5. T = {}
  <2> SUFFICES ASSUME T # {} PROVE FALSE
    OBVIOUS
  <2>1. T \in SUBSET Nat
    OBVIOUS
  <2>2. PICK i \in T : \A m \in T : i <= m
    <3> HIDE DEF T
    <3> QED BY <2>1, Least
  <2>3. i \in 1 .. n /\ all[i] # F[i]
    OBVIOUS
  <2>4. i # 1
    BY <2>3, <1>4
  <2>5. i - 1 \in 1 .. n /\ ~(i <= i - 1)
    BY <2>3, <2>4
  <2>6. i - 1 \notin T
    <3> HIDE DEF T
    <3> QED BY <2>2, <2>5
  <2>7. all[i - 1] = F[i - 1]
    BY <2>5, <2>6
  <2>8. F[i] = Join(F[i - 1], s[i])
    BY <2>3, <2>4
  <2>9. all[i] = Join(all[i - 1], s[i])
    BY <2>3, <2>4, <1>4
  <2> QED BY <2>3, <2>7, <2>8, <2>9, Zenon
<1>6. n \in 1 .. n
  OBVIOUS
<1>7. all[n] = F[n]
  BY <1>5, <1>6
<1> QED BY <1>1, <1>7

(* The pieces of the len bytes at addr, in order and without a gap: piece  *)
(* i ends e[i] bytes after addr, where the next one starts.                *)
Run(addr, len) == [k \in 1 .. len |-> addr + k - 1]
Ends(sgl, addr, len, e) ==
  /\ Len(sgl) \in Nat \ {0} /\ sgl \in Seq(Seq(Int))
  /\ e \in [0 .. Len(sgl) -> Nat] /\ e[0] = 0 /\ e[Len(sgl)] = len
  /\ \A i \in 1 .. Len(sgl) :
       e[i - 1] <= e[i] /\ sgl[i] = Run(addr + e[i - 1], e[i] - e[i - 1])
Chain(sgl, addr, len) == \E e : Ends(sgl, addr, len, e)

(* A run is a sequence of m addresses.                                     *)
LEMMA RunType ==
  ASSUME NEW a \in Int, NEW m \in Nat
  PROVE  Run(a, m) \in Seq(Int) /\ Len(Run(a, m)) = m /\ \A k \in 1 .. m : Run(a, m)[k] = a + k - 1
  BY DEF Run

(* Adjacent runs make one run.                                             *)
LEMMA RunJoin ==
  ASSUME NEW a \in Int, NEW m \in Nat, NEW n \in Nat
  PROVE  Run(a, m) \o Run(a + m, n) = Run(a, m + n)
<1> DEFINE q == Run(a, m)  r == Run(a + m, n)  t == Run(a, m + n)
<1>1. /\ q \in Seq(Int) /\ Len(q) = m /\ \A k \in 1 .. m : q[k] = a + k - 1
      /\ r \in Seq(Int) /\ Len(r) = n /\ \A k \in 1 .. n : r[k] = (a + m) + k - 1
      /\ t \in Seq(Int) /\ Len(t) = m + n /\ \A k \in 1 .. m + n : t[k] = a + k - 1
  BY RunType
<1> HIDE DEF q, r, t
<1> DEFINE u == q \o r
<1>2. /\ u \in Seq(Int) /\ Len(u) = m + n
      /\ \A k \in 1 .. m + n : u[k] = IF k <= m THEN q[k] ELSE r[k - m]
  <2>1. /\ u \in Seq(Int) /\ Len(u) = Len(q) + Len(r)
        /\ \A k \in 1 .. Len(q) + Len(r) : u[k] = IF k <= Len(q) THEN q[k] ELSE r[k - Len(q)]
    BY <1>1, ConcatProperties, Zenon
  <2>2. Len(q) = m /\ Len(r) = n
    BY <1>1
  <2> QED BY <2>1, <2>2, Zenon
<1> HIDE DEF u
<1>3. ASSUME NEW k \in 1 .. m + n PROVE u[k] = t[k]
  <2>1. CASE k <= m
    BY <2>1, <1>1, <1>2
  <2>2. CASE k > m
    <3>1. k - m \in 1 .. n
      BY <2>2
    <3>2. u[k] = r[k - m]
      BY <2>2, <1>2
    <3> QED BY <3>1, <3>2, <1>1
  <2> QED BY <2>1, <2>2
<1>4. u = t
  BY <1>1, <1>2, <1>3, SeqEqual
<1> QED BY <1>4 DEF q, r, t, u

(* What the next piece p of a chain adds to the bytes before it.           *)
LEMMA RunStep ==
  ASSUME NEW a \in Nat, NEW b \in Nat, NEW c \in Nat, b <= c, NEW p, p = Run(a + b, c - b)
  PROVE  /\ p \in Seq(Int)
         /\ Join(Run(a, b), p) = Run(a, c)
         /\ b = 0 => p = Run(a, c)
<1> DEFINE w == c - b
<1>1. w \in Nat /\ b + w = c /\ a + b \in Int /\ a \in Int
  OBVIOUS
<1>2. p = Run(a + b, w)
  OBVIOUS
<1> HIDE DEF w
<1>3. p \in Seq(Int)
  BY <1>1, <1>2, RunType
<1>4. Run(a, b) \o Run(a + b, w) = Run(a, b + w)
  BY <1>1, RunJoin
<1>5. ASSUME b = 0 PROVE a + b = a /\ w = c
  BY <1>1, <1>5
<1>6. b = 0 => p = Run(a, c)
  BY <1>2, <1>5, Zenon
<1> QED BY <1>1, <1>2, <1>3, <1>4, <1>6, Zenon DEF Join

(* One chain makes the run of its bytes.                                   *)
LEMMA ChainFlat ==
  ASSUME NEW sgl, NEW addr \in Nat, NEW len \in Nat, Chain(sgl, addr, len)
  PROVE  FlattenSeq(sgl) = Run(addr, len)
<1> DEFINE n == Len(sgl)
<1>1. PICK e : Ends(sgl, addr, len, e)
  BY DEF Chain
<1>2. /\ n \in Nat \ {0} /\ e \in [0 .. n -> Nat] /\ e[0] = 0 /\ e[n] = len
      /\ \A i \in 1 .. n : e[i - 1] <= e[i] /\ sgl[i] = Run(addr + e[i - 1], e[i] - e[i - 1])
  BY <1>1 DEF Ends
<1> DEFINE F == [i \in 1 .. n |-> Run(addr, e[i])]
<1>3. ASSUME NEW i \in 1 .. n PROVE F[i] = IF i = 1 THEN sgl[i] ELSE Join(F[i - 1], sgl[i])
  <2>1. i - 1 \in 0 .. n /\ i \in 0 .. n
    BY <1>2
  <2>2. /\ e[i - 1] \in Nat /\ e[i] \in Nat /\ e[i - 1] <= e[i]
        /\ sgl[i] = Run(addr + e[i - 1], e[i] - e[i - 1])
    BY <1>2, <2>1
  <2>3. /\ Join(Run(addr, e[i - 1]), sgl[i]) = Run(addr, e[i])
        /\ e[i - 1] = 0 => sgl[i] = Run(addr, e[i])
    <3> DEFINE b == e[i - 1]  c == e[i]  p == sgl[i]
    <3>1. b \in Nat /\ c \in Nat /\ b <= c /\ p = Run(addr + b, c - b)
      BY <2>2
    <3> HIDE DEF b, c, p
    <3>2. Join(Run(addr, b), p) = Run(addr, c) /\ (b = 0 => p = Run(addr, c))
      BY <3>1, RunStep
    <3> QED BY <3>2 DEF b, c, p
  <2>4. CASE i = 1
    BY <1>2, <2>3, <2>4
  <2>5. CASE i # 1
    <3>1. i - 1 \in 1 .. n
      BY <2>5, <1>2
    <3>2. F[i - 1] = Run(addr, e[i - 1]) /\ F[i] = Run(addr, e[i])
      BY <3>1
    <3> QED BY <2>3, <2>5, <3>2, Zenon
  <2> QED BY <2>4, <2>5
<1>4. F = [i \in 1 .. n |-> F[i]] /\ F[n] = Run(addr, len)
  BY <1>2
<1> HIDE DEF F
<1>5. PrefixFlats(sgl, n, F)
  BY <1>2, <1>3, <1>4, Zenon DEF PrefixFlats
<1> HIDE DEF n
<1>6. FlattenSeq(sgl) = F[n]
  BY <1>5, FlattenIs
<1> QED BY <1>4, <1>6

(* Two chains make the run of the first and then that of the second.       *)
LEMMA TwoChainsFlat ==
  ASSUME NEW one, NEW two, NEW a1 \in Nat, NEW l1 \in Nat, NEW a2 \in Nat, NEW l2 \in Nat,
         Chain(one, a1, l1), Chain(two, a2, l2)
  PROVE  FlattenSeq(one \o two) = Join(Run(a1, l1), Run(a2, l2))
<1> DEFINE n == Len(one)  m == Len(two)  s == one \o two
<1>1. PICK e : Ends(one, a1, l1, e)
  BY DEF Chain
<1>2. PICK d : Ends(two, a2, l2, d)
  BY DEF Chain
<1>3. /\ n \in Nat \ {0} /\ e \in [0 .. n -> Nat] /\ e[0] = 0 /\ e[n] = l1
      /\ \A i \in 1 .. n : e[i - 1] <= e[i] /\ one[i] = Run(a1 + e[i - 1], e[i] - e[i - 1])
      /\ one \in Seq(Seq(Int))
  BY <1>1 DEF Ends
<1>4. /\ m \in Nat \ {0} /\ d \in [0 .. m -> Nat] /\ d[0] = 0 /\ d[m] = l2
      /\ \A i \in 1 .. m : d[i - 1] <= d[i] /\ two[i] = Run(a2 + d[i - 1], d[i] - d[i - 1])
      /\ two \in Seq(Seq(Int))
  BY <1>2 DEF Ends
<1>5. /\ Len(s) = n + m
      /\ \A i \in 1 .. n : s[i] = one[i]
      /\ \A i \in n + 1 .. n + m : s[i] = two[i - n]
  BY <1>3, <1>4
<1> HIDE DEF s, n, m
<1> DEFINE F == [i \in 1 .. n + m |->
                   IF i <= n THEN Run(a1, e[i]) ELSE Join(Run(a1, l1), Run(a2, d[i - n]))]
<1>6. ASSUME NEW i \in 1 .. n + m PROVE F[i] = IF i = 1 THEN s[i] ELSE Join(F[i - 1], s[i])
  <2>1. CASE i <= n
    <3>1. i \in 1 .. n /\ i - 1 \in 0 .. n /\ i \in 0 .. n
      BY <1>3, <1>4, <2>1
    <3>2. /\ e[i - 1] \in Nat /\ e[i] \in Nat /\ e[i - 1] <= e[i]
          /\ one[i] = Run(a1 + e[i - 1], e[i] - e[i - 1]) /\ s[i] = one[i]
      BY <1>3, <1>5, <3>1
    <3>3. /\ Join(Run(a1, e[i - 1]), one[i]) = Run(a1, e[i])
          /\ e[i - 1] = 0 => one[i] = Run(a1, e[i])
      <4> DEFINE b == e[i - 1]  c == e[i]  p == one[i]
      <4>1. b \in Nat /\ c \in Nat /\ b <= c /\ p = Run(a1 + b, c - b)
        BY <3>2
      <4> HIDE DEF b, c, p
      <4>2. Join(Run(a1, b), p) = Run(a1, c) /\ (b = 0 => p = Run(a1, c))
        BY <4>1, RunStep
      <4> QED BY <4>2 DEF b, c, p
    <3>4. F[i] = Run(a1, e[i])
      BY <2>1
    <3>5. CASE i = 1
      <4>1. e[i - 1] = 0
        BY <1>3, <3>5
      <4> QED BY <4>1, <3>2, <3>3, <3>4, <3>5, Zenon
    <3>6. CASE i # 1
      <4>1. i - 1 \in 1 .. n + m /\ i - 1 <= n
        BY <1>3, <1>4, <3>6, <2>1
      <4>2. F[i - 1] = Run(a1, e[i - 1])
        BY <4>1
      <4> QED BY <3>2, <3>3, <3>4, <3>6, <4>2, Zenon
    <3> QED BY <3>5, <3>6
  <2>2. CASE i > n
    <3> DEFINE j == i - n
    <3>1. /\ j \in 1 .. m /\ j - 1 \in 0 .. m /\ j \in 0 .. m /\ i \in n + 1 .. n + m
          /\ i # 1 /\ ~(i <= n)
      BY <1>3, <1>4, <2>2
    <3>2. /\ d[j - 1] \in Nat /\ d[j] \in Nat /\ d[j - 1] <= d[j]
          /\ two[j] = Run(a2 + d[j - 1], d[j] - d[j - 1]) /\ s[i] = two[j]
      BY <1>4, <1>5, <3>1
    <3>3. Run(a1, l1) \in Seq(Int) /\ Run(a2, d[j - 1]) \in Seq(Int)
      <4> DEFINE b == d[j - 1]
      <4>1. b \in Nat
        BY <3>2
      <4> HIDE DEF b
      <4>2. Run(a1, l1) \in Seq(Int) /\ Run(a2, b) \in Seq(Int)
        BY <4>1, RunType
      <4> QED BY <4>2 DEF b
    <3>4. two[j] \in Seq(Int) /\ Join(Run(a2, d[j - 1]), two[j]) = Run(a2, d[j])
      <4> DEFINE b == d[j - 1]  c == d[j]  p == two[j]
      <4>1. b \in Nat /\ c \in Nat /\ b <= c /\ p = Run(a2 + b, c - b)
        BY <3>2
      <4> HIDE DEF b, c, p
      <4>2. Join(Run(a2, b), p) = Run(a2, c)
        BY <4>1, RunStep
      <4>3. a2 + b \in Int /\ c - b \in Nat
        BY <4>1
      <4>4. p \in Seq(Int)
        BY <4>1, <4>3, RunType
      <4> QED BY <4>2, <4>4 DEF b, c, p
    <3>5. F[i - 1] = Join(Run(a1, l1), Run(a2, d[j - 1]))
      <4>1. CASE j = 1
        <5>1. i - 1 = n /\ i - 1 \in 1 .. n + m /\ d[j - 1] = 0
          BY <4>1, <1>3, <1>4
        <5>2. F[i - 1] = Run(a1, l1)
          BY <5>1, <1>3
        <5>3. Run(a2, 0) = <<>>
          BY DEF Run
        <5>4. Join(Run(a1, l1), <<>>) = Run(a1, l1)
          BY <3>3, JoinAssoc
        <5> QED BY <5>1, <5>2, <5>3, <5>4
      <4>2. CASE j # 1
        <5>1. i - 1 \in 1 .. n + m /\ ~(i - 1 <= n) /\ (i - 1) - n = j - 1
          BY <4>2, <3>1, <1>3, <1>4
        <5> HIDE DEF j
        <5> QED BY <5>1
      <4> QED BY <4>1, <4>2
    <3>6. F[i] = Join(Run(a1, l1), Run(a2, d[j]))
      BY <3>1
    <3> HIDE DEF F, j
    <3>7. Join(Join(Run(a1, l1), Run(a2, d[j - 1])), two[j])
             = Join(Run(a1, l1), Join(Run(a2, d[j - 1]), two[j]))
      BY <3>3, <3>4, JoinAssoc
    <3> QED BY <3>1, <3>2, <3>4, <3>5, <3>6, <3>7, Zenon
  <2> QED BY <2>1, <2>2, <1>3, <1>4
<1>7. /\ n + m \in Nat \ {0} /\ DOMAIN F = 1 .. n + m /\ F = [i \in 1 .. n + m |-> F[i]]
      /\ F[n + m] = Join(Run(a1, l1), Run(a2, l2))
  <2>1. n + m \in 1 .. n + m /\ ~(n + m <= n) /\ (n + m) - n = m
    BY <1>3, <1>4
  <2>2. F[n + m] = Join(Run(a1, l1), Run(a2, d[(n + m) - n]))
    BY <2>1
  <2>3. n + m \in Nat \ {0} /\ DOMAIN F = 1 .. n + m /\ F = [i \in 1 .. n + m |-> F[i]]
    BY <1>3, <1>4
  <2> QED BY <2>1, <2>2, <2>3, <1>4, Zenon
<1> HIDE DEF F
<1> DEFINE N == n + m
<1>8. PrefixFlats(s, N, F)
  BY <1>5, <1>6, <1>7, Zenon DEF PrefixFlats
<1> HIDE DEF N
<1>9. FlattenSeq(s) = F[N]
  BY <1>8, FlattenIs
<1> QED BY <1>7, <1>9 DEF s, N

-----------------------------------------------------------------------------
(* The rank of a region among those that a range meets, by which Nth finds *)
(* them in ascending order.                                                *)
Rank(S, g) == Cardinality({h \in S : h.start <= g.start})
Apart(S) ==
  /\ IsFiniteSet(S) /\ S \subseteq Region
  /\ \A g \in S : g.start < g.end
  /\ \A g, h \in S : g # h => g.end <= h.start \/ h.end <= g.start

(* Regions apart are told apart, and ordered, by where they start.         *)
LEMMA Starts ==
  ASSUME NEW S, Apart(S), NEW g \in S, NEW h \in S
  PROVE  /\ g.start \in Nat /\ g.end \in Nat /\ g.start < g.end
         /\ g.start = h.start => g = h
         /\ g.start < h.start => g.end <= h.start
<1>1. /\ g.start \in Nat /\ g.end \in Nat /\ g.start < g.end
      /\ h.start \in Nat /\ h.end \in Nat /\ h.start < h.end
      /\ g # h => g.end <= h.start \/ h.end <= g.start
  BY DEF Apart, Region
<1>2. ASSUME g # h PROVE ~(g.start = h.start) /\ (g.start < h.start => g.end <= h.start)
  BY <1>1, <1>2
<1>3. g.start < h.start => g # h
  BY <1>1
<1> QED BY <1>1, <1>2, <1>3

(* Ranks are the positions 1 .. Cardinality(S), in the order of the start. *)
LEMMA RankOrder ==
  ASSUME NEW S, Apart(S), NEW g \in S, NEW h \in S
  PROVE  /\ Rank(S, g) \in 1 .. Cardinality(S)
         /\ g.start < h.start => Rank(S, g) < Rank(S, h)
         /\ Rank(S, g) <= Rank(S, h) => g.start <= h.start
         /\ Rank(S, g) = Rank(S, h) => g = h
<1> DEFINE G == {x \in S : x.start <= g.start}  H == {x \in S : x.start <= h.start}
<1>0. IsFiniteSet(S) /\ Cardinality(S) \in Nat
  BY FS_CardinalityType DEF Apart
<1>1. /\ g.start \in Nat /\ h.start \in Nat /\ g \in G /\ h \in H /\ G \subseteq S /\ H \subseteq S
      /\ \A x \in S : x.start \in Nat
  BY Starts
<1>2. /\ IsFiniteSet(G) /\ Cardinality(G) \in Nat /\ Cardinality(G) <= Cardinality(S)
      /\ IsFiniteSet(H) /\ Cardinality(H) \in Nat
  <2> HIDE DEF G, H
  <2> QED BY <1>0, <1>1, FS_Subset, FS_CardinalityType
<1>3. Cardinality(G) # 0
  <2> HIDE DEF G
  <2> QED BY <1>1, <1>2, FS_EmptySet
<1>4. ASSUME g.start < h.start PROVE Cardinality(G) < Cardinality(H)
  <2>1. G \subseteq H /\ h \notin G
    BY <1>1, <1>4
  <2> HIDE DEF G, H
  <2>2. Cardinality(G) <= Cardinality(H) /\ (Cardinality(H) = Cardinality(G) => H = G)
    BY <1>2, <2>1, FS_Subset
  <2> QED BY <1>1, <1>2, <2>1, <2>2
<1>5. ASSUME h.start < g.start PROVE Cardinality(H) < Cardinality(G)
  <2>1. H \subseteq G /\ g \notin H
    BY <1>1, <1>5
  <2> HIDE DEF G, H
  <2>2. Cardinality(H) <= Cardinality(G) /\ (Cardinality(G) = Cardinality(H) => G = H)
    BY <1>2, <2>1, FS_Subset
  <2> QED BY <1>1, <1>2, <2>1, <2>2
<1>6. Rank(S, g) = Cardinality(G) /\ Rank(S, h) = Cardinality(H)
  BY DEF Rank
<1> HIDE DEF G, H
<1>7. g.start < h.start \/ h.start < g.start \/ g.start = h.start
  BY <1>1
<1>8. g.start = h.start => g = h
  BY Starts
<1>9. Cardinality(G) <= Cardinality(H) => g.start <= h.start
  BY <1>1, <1>2, <1>5
<1>10. Cardinality(G) = Cardinality(H) => g.start = h.start
  BY <1>1, <1>2, <1>4, <1>5
<1>11. Cardinality(G) \in 1 .. Cardinality(S)
  BY <1>0, <1>2, <1>3
<1> QED BY <1>4, <1>6, <1>8, <1>9, <1>10, <1>11

(* Every position is the rank of a region.                                 *)
LEMMA NthRank ==
  ASSUME NEW S, Apart(S), NEW i \in 1 .. Cardinality(S)
  PROVE  Nth(S, i) \in S /\ Rank(S, Nth(S, i)) = i
<1> DEFINE n == Cardinality(S)
           f == [g \in S |-> Rank(S, g)]
<1>1. IsFiniteSet(S) /\ n \in Nat
  BY FS_CardinalityType DEF Apart
<1>2. f \in [S -> 1 .. n]
  BY RankOrder
<1>3. \A g, h \in S : f[g] = f[h] => g = h
  BY RankOrder
<1>4. f \in Injection(S, 1 .. n)
  <2> HIDE DEF f, n
  <2> QED BY <1>2, <1>3 DEF Injection, IsInjective
<1>5. IsFiniteSet(1 .. n) /\ Cardinality(1 .. n) = n
  <2> HIDE DEF n
  <2>1. IsFiniteSet(1 .. n) /\ Cardinality(1 .. n) = IF 1 > n THEN 0 ELSE n - 1 + 1
    BY <1>1, FS_Interval
  <2> QED BY <1>1, <2>1
<1>6. f \in Surjection(S, 1 .. n)
  <2> DEFINE I == 1 .. n
  <2>1. f \in Injection(S, I) /\ IsFiniteSet(I) /\ Cardinality(S) = Cardinality(I)
    BY <1>4, <1>5
  <2> HIDE DEF f, I
  <2>2. f \in Surjection(S, I)
    BY <2>1, FS_Injection
  <2> QED BY <2>2 DEF I
<1>7. \E g \in S : f[g] = i
  <2> HIDE DEF f
  <2> QED BY <1>6 DEF Surjection
<1>8. \E g \in S : Rank(S, g) = i
  BY <1>7
<1> QED BY <1>8 DEF Nth, Rank

(* An interval from 1 has one upper end.                                   *)
LEMMA SameInterval ==
  ASSUME NEW a \in Nat, NEW b \in Nat, 1 .. a = 1 .. b
  PROVE  a = b
<1>1. \A k \in Nat : k \in 1 .. a <=> k \in 1 .. b
  OBVIOUS
<1>2. (a \in 1 .. a \/ a = 0) /\ (b \in 1 .. b \/ b = 0)
  OBVIOUS
<1> QED BY <1>1, <1>2

(* What vfu_addr_to_sgl returns is a chain: it starts at addr, a piece     *)
(* ends where the next begins, and the last ends after len bytes.          *)
LEMMA SglChain ==
  ASSUME TableInv, NEW addr \in Nat, NEW len \in Nat \ {0}, NEW limit,
         addr .. addr + len - 1 \subseteq Mapped,
         NEW sgl,
         sgl = [i \in 1 .. Cardinality(RegionsMet(addr, len)) |->
                  Piece(Nth(RegionsMet(addr, len), i), addr, len)]
  PROVE  Chain(sgl, addr, len) /\ Len(sgl) = Cardinality(RegionsMet(addr, len))
<1> DEFINE S == RegionsMet(addr, len)
           n == Cardinality(S)
           lo(g) == IF g.start >= addr THEN g.start ELSE addr
           hi(g) == IF g.end <= addr + len THEN g.end ELSE addr + len
           o(i) == Nth(S, i)
<1>1. Apart(S) /\ IsFiniteSet(S) /\ n \in Nat
  <2>1. S \subseteq regions
    BY DEF RegionsMet
  <2>2. IsFiniteSet(S) /\ n \in Nat
    BY <2>1, FS_Subset, FS_CardinalityType DEF TableInv
  <2> QED BY <2>1, <2>2 DEF Apart, TableInv, RegionsDisjoint
<1>2. ASSUME NEW g \in S
      PROVE  /\ g.start \in Nat /\ g.end \in Nat /\ g.start < g.end
             /\ g.start < addr + len /\ addr < g.end
             /\ Rank(S, g) \in 1 .. n
  BY <1>1, Starts, RankOrder DEF RegionsMet
<1>3. ASSUME NEW a \in addr .. addr + len - 1
      PROVE  \E g \in S : g.start <= a /\ a < g.end
  <2>1. PICK g \in regions : a \in g.start .. g.end - 1
    BY DEF Mapped
  <2>2. g.start \in Nat /\ g.end \in Nat
    BY DEF TableInv, RegionsDisjoint, Region
  <2>3. g.start <= a /\ a < g.end /\ g.start < addr + len /\ addr < g.end
    BY <2>1, <2>2
  <2> QED BY <2>3 DEF RegionsMet
<1>4. \A i \in 1 .. n : o(i) \in S /\ Rank(S, o(i)) = i
  BY <1>1, NthRank
<1> HIDE DEF S, n, o
<1>5. n # 0
  <2>1. PICK g \in S : TRUE
    BY <1>3
  <2> QED BY <1>1, <1>2, <2>1
<1>6. o(1).start <= addr /\ o(1) \in S
  <2>1. PICK g \in S : g.start <= addr /\ addr < g.end
    BY <1>3
  <2>2. 1 \in 1 .. n
    BY <1>1, <1>5
  <2>3. o(1) \in S /\ Rank(S, o(1)) = 1
    BY <1>4, <2>2
  <2>4. Rank(S, o(1)) <= Rank(S, g)
    BY <1>1, <1>2, <2>1, <2>3
  <2>5. o(1).start <= g.start
    BY <1>1, <2>1, <2>3, <2>4, RankOrder
  <2> QED BY <1>2, <2>1, <2>3, <2>5
<1>7. o(n).end >= addr + len /\ o(n) \in S
  <2>1. PICK g \in S : g.start <= addr + len - 1 /\ addr + len - 1 < g.end
    BY <1>3
  <2>2. n \in 1 .. n
    BY <1>1, <1>5
  <2>3. o(n) \in S /\ Rank(S, o(n)) = n
    BY <1>4, <2>2
  <2>4. Rank(S, g) <= Rank(S, o(n))
    BY <1>1, <1>2, <2>1, <2>3
  <2>5. g.start <= o(n).start
    BY <1>1, <2>1, <2>3, <2>4, RankOrder
  <2>6. g.start < o(n).start => g.end <= o(n).start
    BY <1>1, <2>3, Starts
  <2>7. g.start = o(n).start => g = o(n)
    BY <1>1, <2>3, Starts
  <2>8. /\ g.start \in Nat /\ g.end \in Nat /\ o(n).start \in Nat /\ o(n).end \in Nat
        /\ o(n).start < addr + len
    BY <1>2, <2>3
  <2> QED BY <2>1, <2>3, <2>5, <2>6, <2>7, <2>8
<1>8. ASSUME NEW i \in 1 .. n, i # 1
      PROVE  /\ o(i - 1) \in S /\ o(i) \in S
             /\ o(i - 1).end = o(i).start /\ addr < o(i).start /\ o(i).start < addr + len
  <2> DEFINE g == o(i - 1)  h == o(i)
  <2>1. i - 1 \in 1 .. n
    BY <1>1, <1>8
  <2>2. g \in S /\ h \in S /\ Rank(S, g) = i - 1 /\ Rank(S, h) = i
    BY <1>4, <2>1
  <2> HIDE DEF g, h
  <2>3. /\ g.start \in Nat /\ g.end \in Nat /\ g.start < g.end /\ addr < g.end
        /\ h.start \in Nat /\ h.end \in Nat /\ h.start < h.end /\ h.start < addr + len
    BY <1>2, <2>2
  <2>4. g.start <= h.start /\ g # h
    <3>1. Rank(S, g) <= Rank(S, h) /\ Rank(S, g) # Rank(S, h)
      BY <1>1, <2>2
    <3> QED BY <1>1, <2>2, <3>1, RankOrder
  <2>5. g.end <= h.start
    <3>1. g.start # h.start
      BY <1>1, <2>2, <2>4, Starts
    <3>2. g.start < h.start
      BY <2>3, <2>4, <3>1
    <3> QED BY <1>1, <2>2, <3>2, Starts
  <2>6. PICK x \in S : x.start <= g.end /\ g.end < x.end
    <3>1. g.end \in addr .. addr + len - 1
      BY <2>3, <2>5
    <3> QED BY <1>3, <3>1
  <2>7. x.start \in Nat /\ x.end \in Nat /\ Rank(S, x) \in 1 .. n
    BY <1>2
  <2>8. g.start < x.start
    <3>1. x.start < g.start => x.end <= g.start
      BY <1>1, <2>2, Starts
    <3>2. x.start = g.start => x = g
      BY <1>1, <2>2, Starts
    <3> QED BY <2>3, <2>6, <2>7, <3>1, <3>2
  <2>9. Rank(S, g) < Rank(S, x)
    BY <1>1, <2>2, <2>8, RankOrder
  <2>10. Rank(S, h) <= Rank(S, x)
    BY <1>1, <2>2, <2>7, <2>9
  <2>11. h.start <= x.start
    BY <1>1, <2>2, <2>10, RankOrder
  <2>12. g.end = h.start
    BY <2>3, <2>5, <2>6, <2>7, <2>11
  <2> QED BY <2>2, <2>3, <2>12 DEF g, h
<1>9. sgl = [i \in 1 .. n |-> Piece(o(i), addr, len)]
  BY DEF n, o, S
<1>10. ASSUME NEW g \in S
       PROVE  /\ Piece(g, addr, len) = Run(lo(g), hi(g) - lo(g))
              /\ lo(g) \in Nat /\ hi(g) \in Nat /\ lo(g) < hi(g) /\ addr <= lo(g)
              /\ Piece(g, addr, len) \in Seq(Int)
  <2> DEFINE l == lo(g)  u == hi(g)
  <2>1. /\ g.start \in Int /\ g.end \in Int /\ addr \in Int /\ addr + len \in Int
        /\ l \in Nat /\ u \in Nat /\ l < u /\ addr <= l
    BY <1>2
  <2>2. Max({g.start, addr}) = l /\ Min({g.end, addr + len}) = u
    BY <2>1, MaxMinOfTwo
  <2>3. Piece(g, addr, len) = [i \in 1 .. Min({g.end, addr + len}) - Max({g.start, addr})
                                 |-> Max({g.start, addr}) + i - 1]
    BY DEF Piece
  <2> HIDE DEF l, u
  <2>4. Piece(g, addr, len) = Run(l, u - l)
    BY <2>2, <2>3 DEF Run
  <2>5. l \in Int /\ u - l \in Nat
    BY <2>1
  <2>6. Run(l, u - l) \in Seq(Int)
    BY <2>5, RunType
  <2> QED BY <2>1, <2>4, <2>6 DEF l, u
<1> DEFINE e == [i \in 0 .. n |-> IF i = 0 THEN 0 ELSE hi(o(i)) - addr]
<1>11. ASSUME NEW i \in 1 .. n
       PROVE  /\ i \in 0 .. n /\ i - 1 \in 0 .. n
              /\ e[i] = hi(o(i)) - addr /\ e[i - 1] = lo(o(i)) - addr
  <2>1. i \in 0 .. n /\ i - 1 \in 0 .. n /\ i # 0
    BY <1>1
  <2>2. e[i] = hi(o(i)) - addr
    BY <2>1
  <2>3. CASE i = 1
    <3>1. lo(o(1)) = addr
      BY <1>2, <1>6
    <3> QED BY <2>1, <2>2, <2>3, <3>1
  <2>4. CASE i # 1
    <3>1. e[i - 1] = hi(o(i - 1)) - addr
      BY <2>1, <2>4
    <3>2. /\ o(i - 1).end = o(i).start /\ addr < o(i).start /\ o(i).start < addr + len
          /\ o(i).start \in Nat
      BY <1>2, <1>8, <2>4
    <3>3. hi(o(i - 1)) = o(i).start /\ lo(o(i)) = o(i).start
      BY <3>2
    <3> QED BY <2>1, <2>2, <3>1, <3>3
  <2> QED BY <2>3, <2>4
<1>12. Len(sgl) = n /\ sgl \in Seq(Seq(Int))
  <2> DEFINE T == Seq(Int)
  <2>1. \A i \in 1 .. n : Piece(o(i), addr, len) \in T
    BY <1>4, <1>10
  <2> HIDE DEF T
  <2>2. sgl \in [1 .. n -> T]
    BY <1>9, <2>1
  <2>3. sgl \in Seq(T)
    BY <1>1, <2>2, SeqDef
  <2>4. Len(sgl) \in Nat /\ DOMAIN sgl = 1 .. Len(sgl)
    BY <2>3, LenProperties
  <2>5. 1 .. Len(sgl) = 1 .. n
    BY <2>2, <2>4
  <2>6. Len(sgl) = n
    <3> DEFINE m == Len(sgl)
    <3>1. m \in Nat /\ 1 .. m = 1 .. n
      BY <2>4, <2>5
    <3> HIDE DEF m
    <3>2. m = n
      BY <1>1, <3>1, SameInterval
    <3> QED BY <3>2 DEF m
  <2> QED BY <2>3, <2>6 DEF T
<1> HIDE DEF lo, hi
<1>13. e \in [0 .. n -> Nat] /\ e[0] = 0
  <2>1. ASSUME NEW i \in 0 .. n PROVE e[i] \in Nat
    <3>1. CASE i = 0
      BY <3>1
    <3>2. CASE i # 0
      <4>1. i \in 1 .. n /\ o(i) \in S
        BY <1>1, <1>4, <3>2
      <4>2. e[i] = hi(o(i)) - addr
        BY <1>11, <4>1
      <4> HIDE DEF e
      <4> QED BY <1>10, <4>1, <4>2
    <3> QED BY <3>1, <3>2
  <2>2. 0 \in 0 .. n
    BY <1>1
  <2> QED BY <2>1, <2>2
<1>14. e[n] = len
  <2>1. n \in 1 .. n
    BY <1>1, <1>5
  <2>2. e[n] = hi(o(n)) - addr
    BY <1>11, <2>1
  <2>3. hi(o(n)) = addr + len
    BY <1>2, <1>7 DEF hi
  <2> HIDE DEF e
  <2> QED BY <2>2, <2>3
<1> HIDE DEF e
<1>15. ASSUME NEW i \in 1 .. n
       PROVE  e[i - 1] <= e[i] /\ sgl[i] = Run(addr + e[i - 1], e[i] - e[i - 1])
  <2> DEFINE l == lo(o(i))  u == hi(o(i))
  <2>1. /\ sgl[i] = Run(l, u - l) /\ l \in Nat /\ u \in Nat /\ l < u
    BY <1>4, <1>9, <1>10
  <2>2. e[i] = u - addr /\ e[i - 1] = l - addr
    BY <1>11
  <2> HIDE DEF l, u
  <2>3. e[i - 1] <= e[i] /\ addr + e[i - 1] = l /\ e[i] - e[i - 1] = u - l
    BY <2>1, <2>2
  <2> QED BY <2>1, <2>3
<1>16. Ends(sgl, addr, len, e)
  BY <1>1, <1>5, <1>12, <1>13, <1>14, <1>15 DEF Ends
<1> QED BY <1>12, <1>16 DEF Chain, n, S

-----------------------------------------------------------------------------
(* Pages: quotient and remainder.                                          *)
LEMMA DivMod ==
  ASSUME NEW a \in Nat, NEW d \in Nat \ {0}
  PROVE  a \div d \in Nat /\ a % d \in 0 .. d - 1 /\ a = d * (a \div d) + (a % d)
  BY SMTT(30)

(* There is one quotient.                                                  *)
LEMMA DivUnique ==
  ASSUME NEW a \in Nat, NEW d \in Nat \ {0}, NEW q \in Nat, NEW r \in 0 .. d - 1, a = d * q + r
  PROVE  a \div d = q
<1> DEFINE u == a \div d
           v == a % d
<1>1. u \in Nat /\ v \in 0 .. d - 1 /\ a = d * u + v
  BY DivMod
<1> HIDE DEF u, v
<1>2. ASSUME NEW x \in Nat, NEW y \in Nat, x < y PROVE d * x + d <= d * y
  <2>1. d * (y - x) >= d
    BY <1>2, SMTT(30)
  <2>2. d * (y - x) = d * y - d * x
    BY <1>2, SMTT(30)
  <2>3. d * x \in Int /\ d * y \in Int
    OBVIOUS
  <2> QED BY <2>1, <2>2, <2>3
<1>3. d * u \in Nat /\ d * q \in Nat
  BY <1>1
<1>4. ~(u < q)
  BY <1>1, <1>2, <1>3
<1>5. ~(q < u)
  BY <1>1, <1>2, <1>3
<1>6. u = q
  BY <1>1, <1>4, <1>5
<1> QED BY <1>6 DEF u

(* first is the part of the buffer in the page of PRP1.                    *)
LEMMA FirstType ==
  ASSUME NEW p1 \in Nat, NEW len \in Nat
  PROVE  /\ first(p1, len) \in Nat /\ first(p1, len) <= len
         /\ first(p1, len) = IF len <= ps - (p1 % ps) THEN len ELSE ps - (p1 % ps)
         /\ ps - (p1 % ps) \in 1 .. ps /\ p1 % ps \in Nat
         /\ len # 0 => first(p1, len) # 0
<1>1. ps \in Nat \ {0} /\ p1 % ps \in 0 .. ps - 1
  BY PrpAssumption, DivMod
<1> DEFINE w == ps - (p1 % ps)
<1>2. w \in 1 .. ps /\ p1 % ps \in Nat
  BY <1>1
<1>3. first(p1, len) = Min({len, w})
  BY DEF first
<1> HIDE DEF w
<1>4. Min({len, w}) = IF len <= w THEN len ELSE w
  BY <1>1, <1>2, MaxMinOfTwo
<1>5. /\ first(p1, len) = IF len <= w THEN len ELSE w
      /\ first(p1, len) \in Nat /\ first(p1, len) <= len
      /\ len # 0 => first(p1, len) # 0
  BY <1>1, <1>2, <1>3, <1>4
<1> QED BY <1>2, <1>5 DEF w

(* InFirstPage, stated by page numbers, is the first part that first cuts. *)
LEMMA FirstPage ==
  ASSUME NEW p1 \in Nat, NEW len \in Nat, NEW x, x.prp1 = p1, x.len = len
  PROVE  /\ InFirstPage(x) = 0 .. first(p1, len) - 1
         /\ Cardinality(InFirstPage(x)) = first(p1, len)
<1> DEFINE f == first(p1, len)
           q == p1 \div ps
           r == p1 % ps
<1>1. /\ ps \in Nat \ {0} /\ f \in Nat /\ f <= len /\ q \in Nat /\ r \in 0 .. ps - 1
      /\ p1 = ps * q + r /\ f = IF len <= ps - r THEN len ELSE ps - r
  BY PrpAssumption, FirstType, DivMod
<1>2. InFirstPage(x) = {k \in 0 .. len - 1 : (p1 + k) \div ps = q}
  BY DEF InFirstPage
<1> HIDE DEF f, q, r
<1>3. ASSUME NEW k \in 0 .. len - 1 PROVE (p1 + k) \div ps = q <=> k < f
  <2>0. k \in Nat /\ p1 + k \in Nat /\ ps * q \in Nat
    BY <1>1
  <2>1. CASE k < f
    <3>1. r + k \in 0 .. ps - 1 /\ p1 + k = ps * q + (r + k)
      BY <1>1, <2>0, <2>1
    <3>2. (p1 + k) \div ps = q
      BY <1>1, <2>0, <3>1, DivUnique
    <3> QED BY <2>1, <3>2
  <2>2. CASE ~(k < f)
    <3>1. r + k >= ps
      BY <1>1, <2>2
    <3>2. ASSUME (p1 + k) \div ps = q PROVE FALSE
      <4> DEFINE v == (p1 + k) % ps
      <4>1. v \in 0 .. ps - 1 /\ p1 + k = ps * q + v
        BY <1>1, <2>0, <3>2, DivMod
      <4> HIDE DEF v
      <4> QED BY <1>1, <2>0, <3>1, <4>1
    <3> QED BY <2>2, <3>2
  <2> QED BY <2>1, <2>2
<1>4. InFirstPage(x) = 0 .. f - 1
  BY <1>1, <1>2, <1>3
<1>5. Cardinality(0 .. f - 1) = f
  <2>1. 0 \in Int /\ f - 1 \in Int
    BY <1>1
  <2>2. Cardinality(0 .. f - 1) = IF 0 > f - 1 THEN 0 ELSE (f - 1) - 0 + 1
    BY <2>1, FS_Interval
  <2> QED BY <1>1, <2>2
<1> QED BY <1>4, <1>5 DEF f

(* The addresses of a buffer, in buffer order, and its two parts.          *)
Whole(p1, p2, len) == Join(Run(p1, first(p1, len)), Run(p2, len - first(p1, len)))
Span(a, n) == a .. a + n - 1
Layout(x, w, A, B) ==
  /\ w = [k \in 1 .. x.len |-> Place(x, k - 1)] /\ w \in Seq(Int) /\ Len(w) = x.len
  /\ Part(x, TRUE) = A /\ Part(x, FALSE) = B
  /\ {Place(x, k) : k \in 0 .. x.len - 1} = A \union B

(* The two runs of a buffer put every byte in its place.                   *)
LEMMA WholeIs ==
  ASSUME NEW p1 \in Nat, NEW p2 \in Nat, NEW len \in Nat,
         NEW x, x.prp1 = p1, x.prp2 = p2, x.len = len
  PROVE  Layout(x, Whole(p1, p2, len), Span(p1, first(p1, len)), Span(p2, len - first(p1, len)))
<1> DEFINE f == first(p1, len)
<1>1. f \in Nat /\ f <= len /\ len - f \in Nat
  <2>1. f \in Nat /\ f <= len
    BY FirstType
  <2> HIDE DEF f
  <2> QED BY <2>1
<1>2. InFirstPage(x) = 0 .. f - 1 /\ Cardinality(InFirstPage(x)) = f
  BY FirstPage
<1> HIDE DEF f
<1>3. ASSUME NEW k \in 0 .. len - 1
      PROVE  Place(x, k) = IF k < f THEN p1 + k ELSE p2 + (k - f)
  <2>1. k \in 0 .. f - 1 <=> k < f
    BY <1>1
  <2> QED BY <1>2, <2>1 DEF Place
<1> DEFINE a == Run(p1, f)  b == Run(p2, len - f)
           w == [k \in 1 .. len |-> Place(x, k - 1)]
<1>4. /\ a \in Seq(Int) /\ Len(a) = f /\ \A k \in 1 .. f : a[k] = p1 + k - 1
      /\ b \in Seq(Int) /\ Len(b) = len - f /\ \A k \in 1 .. len - f : b[k] = p2 + k - 1
  <2>1. p1 \in Int /\ p2 \in Int
    OBVIOUS
  <2> DEFINE m == len - f
  <2>2. m \in Nat
    BY <1>1
  <2> HIDE DEF m
  <2>3. b = Run(p2, m)
    BY DEF m
  <2> HIDE DEF b
  <2>4. b \in Seq(Int) /\ Len(b) = m /\ \A k \in 1 .. m : b[k] = p2 + k - 1
    BY <2>1, <2>2, <2>3, RunType
  <2>5. a \in Seq(Int) /\ Len(a) = f /\ \A k \in 1 .. f : a[k] = p1 + k - 1
    BY <1>1, <2>1, RunType
  <2> QED BY <2>4, <2>5 DEF m
<1> HIDE DEF a, b
<1>5. /\ Join(a, b) \in Seq(Int) /\ Len(Join(a, b)) = len
      /\ \A k \in 1 .. len : Join(a, b)[k] = IF k <= f THEN a[k] ELSE b[k - f]
  <2>1. a \in Seq(Int) /\ b \in Seq(Int)
    BY <1>4
  <2>2. /\ Join(a, b) \in Seq(Int) /\ Len(Join(a, b)) = Len(a) + Len(b)
        /\ \A k \in 1 .. Len(a) + Len(b) :
             Join(a, b)[k] = IF k <= Len(a) THEN a[k] ELSE b[k - Len(a)]
    BY <2>1, ConcatProperties, Zenon DEF Join
  <2>3. Len(a) = f /\ Len(a) + Len(b) = len
    BY <1>1, <1>4
  <2> QED BY <2>2, <2>3, Zenon
<1>6. w \in Seq(Int) /\ Len(w) = len
  <2>1. ASSUME NEW k \in 1 .. len PROVE Place(x, k - 1) \in Int
    <3>1. k - 1 \in 0 .. len - 1
      OBVIOUS
    <3> QED BY <1>1, <1>3, <3>1
  <2>2. w \in [1 .. len -> Int]
    BY <2>1
  <2> HIDE DEF w
  <2> QED BY <2>2
<1>7. ASSUME NEW k \in 1 .. len PROVE Join(a, b)[k] = w[k]
  <2>1. w[k] = Place(x, k - 1) /\ k - 1 \in 0 .. len - 1
    OBVIOUS
  <2>2. Place(x, k - 1) = IF k - 1 < f THEN p1 + (k - 1) ELSE p2 + ((k - 1) - f)
    BY <1>3, <2>1
  <2> HIDE DEF w
  <2>3. CASE k <= f
    <3>1. Join(a, b)[k] = a[k] /\ a[k] = p1 + k - 1
      BY <1>1, <1>4, <1>5, <2>3
    <3> QED BY <1>1, <2>1, <2>2, <2>3, <3>1
  <2>4. CASE ~(k <= f)
    <3>1. k - f \in 1 .. len - f /\ Join(a, b)[k] = b[k - f]
      BY <1>1, <1>5, <2>4
    <3>2. b[k - f] = p2 + (k - f) - 1
      BY <1>4, <3>1
    <3> QED BY <1>1, <2>1, <2>2, <2>4, <3>1, <3>2
  <2> QED BY <2>3, <2>4
<1>8. Join(a, b) = w
  <2> DEFINE j == Join(a, b)
  <2>1. j \in Seq(Int) /\ Len(j) = Len(w) /\ \A k \in 1 .. Len(j) : j[k] = w[k]
    BY <1>5, <1>6, <1>7
  <2> HIDE DEF j, w
  <2>2. j = w
    BY <1>6, <2>1, SeqEqual
  <2> QED BY <2>2 DEF j
<1>9. Whole(p1, p2, len) = Join(a, b)
  BY DEF Whole, a, b, f
<1>10. Part(x, TRUE) = Span(p1, f)
  <2>1. ASSUME NEW y \in Part(x, TRUE) PROVE y \in Span(p1, f)
    <3>1. PICK k \in 0 .. len - 1 : k \in InFirstPage(x) /\ y = Place(x, k)
      BY <2>1 DEF Part
    <3> QED BY <1>1, <1>2, <1>3, <3>1 DEF Span
  <2>2. ASSUME NEW y \in Span(p1, f) PROVE y \in Part(x, TRUE)
    <3> DEFINE k == y - p1
    <3>1. k \in 0 .. len - 1 /\ k \in 0 .. f - 1 /\ k < f /\ y = p1 + k
      BY <1>1, <2>2 DEF Span
    <3> HIDE DEF k
    <3>2. y = Place(x, k) /\ k \in InFirstPage(x)
      BY <1>2, <1>3, <3>1
    <3> QED BY <3>1, <3>2 DEF Part
  <2> QED BY <2>1, <2>2
<1>11. Part(x, FALSE) = Span(p2, len - f)
  <2>1. ASSUME NEW y \in Part(x, FALSE) PROVE y \in Span(p2, len - f)
    <3>1. PICK k \in 0 .. len - 1 : k \notin InFirstPage(x) /\ y = Place(x, k)
      BY <2>1 DEF Part
    <3>2. ~(k < f)
      BY <1>1, <1>2, <3>1
    <3>3. y = p2 + (k - f)
      BY <1>3, <3>1, <3>2
    <3> QED BY <1>1, <3>1, <3>2, <3>3 DEF Span
  <2>2. ASSUME NEW y \in Span(p2, len - f) PROVE y \in Part(x, FALSE)
    <3> DEFINE k == (y - p2) + f
    <3>1. k \in 0 .. len - 1 /\ k \notin 0 .. f - 1 /\ ~(k < f) /\ y = p2 + (k - f)
      BY <1>1, <2>2 DEF Span
    <3> HIDE DEF k
    <3>2. y = Place(x, k) /\ k \notin InFirstPage(x)
      BY <1>2, <1>3, <3>1
    <3> QED BY <3>1, <3>2 DEF Part
  <2> QED BY <2>1, <2>2
<1>12. {Place(x, k) : k \in 0 .. len - 1} = Part(x, TRUE) \union Part(x, FALSE)
  BY DEF Part
<1>13. w = [k \in 1 .. x.len |-> Place(x, k - 1)]
  OBVIOUS
<1> HIDE DEF w
<1> QED BY <1>5, <1>8, <1>9, <1>10, <1>11, <1>12, <1>13 DEF f, Layout

-----------------------------------------------------------------------------
(* The regions that a part of a buffer meets are those that its            *)
(* translation takes a piece of.                                           *)
LEMMA MetSpan ==
  ASSUME TableInv, NEW a \in Nat, NEW n \in Nat
  PROVE  /\ n # 0 => Met(Span(a, n)) = RegionsMet(a, n)
         /\ n = 0 => Met(Span(a, n)) = {}
         /\ IsFiniteSet(Met(Span(a, n))) /\ Cardinality(Met(Span(a, n))) \in Nat
<1>1. \A g \in regions : g.start \in Nat /\ g.end \in Nat /\ g.start < g.end
  BY DEF TableInv, RegionsDisjoint, Region
<1>2. ASSUME n # 0, NEW g \in regions
      PROVE  Span(a, n) \intersect (g.start .. g.end - 1) # {} <=> g.start < a + n /\ a < g.end
  <2> USE <1>1
  <2>1. ASSUME NEW y \in Span(a, n) \intersect (g.start .. g.end - 1)
        PROVE  g.start < a + n /\ a < g.end
    BY DEF Span
  <2>2. ASSUME g.start < a + n, a < g.end
        PROVE  \E y : y \in Span(a, n) \intersect (g.start .. g.end - 1)
    <3>1. CASE a <= g.start
      <4>1. g.start \in Span(a, n) \intersect (g.start .. g.end - 1)
        BY <2>2, <3>1 DEF Span
      <4> QED BY <4>1
    <3>2. CASE g.start < a
      <4>1. a \in Span(a, n) \intersect (g.start .. g.end - 1)
        BY <1>2, <2>2, <3>2 DEF Span
      <4> QED BY <4>1
    <3> QED BY <3>1, <3>2
  <2> QED BY <2>1, <2>2
<1>3. n # 0 => Met(Span(a, n)) = RegionsMet(a, n)
  BY <1>2 DEF Met, RegionsMet
<1>4. n = 0 => Met(Span(a, n)) = {}
  BY DEF Met, Span
<1>5. Met(Span(a, n)) \subseteq regions
  BY DEF Met
<1>6. IsFiniteSet(Met(Span(a, n))) /\ Cardinality(Met(Span(a, n))) \in Nat
  BY <1>5, FS_Subset, FS_CardinalityType DEF TableInv
<1> QED BY <1>3, <1>4, <1>6

(* vfu_addr_to_sgl fails, or translates the whole range.                   *)
LEMMA AddrToSgl ==
  ASSUME TableInv, NEW a \in Nat, NEW n \in Nat \ {0}, NEW limit,
         NEW sgl, sgl = vfu_addr_to_sgl(a, n, limit)
  PROVE  /\ sgl # <<>> => Chain(sgl, a, n) /\ Span(a, n) \subseteq Mapped
         /\ Span(a, n) \subseteq Mapped /\ Cardinality(RegionsMet(a, n)) <= limit =>
              Chain(sgl, a, n) /\ Len(sgl) = Cardinality(RegionsMet(a, n))
<1>1. CASE Span(a, n) \subseteq Mapped /\ Cardinality(RegionsMet(a, n)) <= limit
  <2>1. a .. a + n - 1 \subseteq Mapped
    BY <1>1 DEF Span
  <2>2. sgl = [i \in 1 .. Cardinality(RegionsMet(a, n)) |-> Piece(Nth(RegionsMet(a, n), i), a, n)]
    BY <1>1, <2>1 DEF vfu_addr_to_sgl
  <2>3. Chain(sgl, a, n) /\ Len(sgl) = Cardinality(RegionsMet(a, n))
    BY <2>1, <2>2, SglChain
  <2> QED BY <1>1, <2>3
<1>2. CASE ~(Span(a, n) \subseteq Mapped /\ Cardinality(RegionsMet(a, n)) <= limit)
  <2>1. sgl = <<>>
    BY <1>2 DEF vfu_addr_to_sgl, Span
  <2> QED BY <1>2, <2>1
<1> QED BY <1>1, <1>2

(* A chain is not empty, and is a sequence.                                *)
LEMMA ChainLen ==
  ASSUME NEW sgl, NEW a, NEW n, Chain(sgl, a, n)
  PROVE  Len(sgl) \in Nat \ {0} /\ sgl \in Seq(Seq(Int)) /\ sgl # <<>>
<1>1. Len(sgl) \in Nat \ {0} /\ sgl \in Seq(Seq(Int))
  BY DEF Chain, Ends
<1> QED BY <1>1

(* What the translation of a buffer must give for the transfer to be       *)
(* right: the addresses of the buffer, or nothing; and not nothing for a   *)
(* buffer in two pages that is mapped in few enough regions.               *)
Right(p1, p2, len, sgl) ==
  sgl # <<>> =>
    /\ FlattenSeq(sgl) = Whole(p1, p2, len)
    /\ Span(p1, first(p1, len)) \union Span(p2, len - first(p1, len)) \subseteq Mapped
Works(p1, p2, len, sgl, limit) ==
  /\ len - first(p1, len) <= ps
  /\ Span(p1, first(p1, len)) \union Span(p2, len - first(p1, len)) \subseteq Mapped
  /\ Cardinality(Met(Span(p1, first(p1, len))))
       + Cardinality(Met(Span(p2, len - first(p1, len)))) <= limit
  => sgl # <<>> /\ Len(sgl) \in 1 .. NVME_MAX_SG

(* What is within both limits is within each.                              *)
LEMMA LimitType ==
  /\ NVME_MAX_SG \in Nat /\ max_sg \in Nat /\ Min({NVME_MAX_SG, max_sg}) \in Nat
  /\ \A c \in Nat : c <= Min({NVME_MAX_SG, max_sg}) => c <= NVME_MAX_SG /\ c <= max_sg
<1>1. NVME_MAX_SG \in Nat /\ max_sg \in Nat
  BY PrpAssumption
<1>2. Min({NVME_MAX_SG, max_sg}) = IF NVME_MAX_SG <= max_sg THEN NVME_MAX_SG ELSE max_sg
  BY <1>1, MaxMinOfTwo
<1> QED BY <1>1, <1>2

(* A buffer within one page has no second run.                             *)
LEMMA EmptyRun ==
  ASSUME NEW a \in Nat, NEW n \in Nat, NEW b
  PROVE  Join(Run(a, n), Run(b, 0)) = Run(a, n)
<1>1. Run(b, 0) = <<>>
  BY DEF Run
<1>2. Run(a, n) \in Seq(Int)
  BY RunType
<1> QED BY <1>1, <1>2, JoinAssoc

(* The translation of nvme_prp_xfer.                                       *)
LEMMA PrpSgl ==
  ASSUME TableInv, NEW p1 \in Nat, NEW p2 \in Nat, NEW len \in Nat \ {0}
  PROVE  Right(p1, p2, len, Sgl(p1, p2, len)) /\ Works(p1, p2, len, Sgl(p1, p2, len), NVME_MAX_SG)
<1> DEFINE f == first(p1, len)
           rem == len - f
           one == vfu_addr_to_sgl(p1, f, NVME_MAX_SG)
           lim == NVME_MAX_SG - Len(one)
           two == vfu_addr_to_sgl(p2, rem, lim)
           sgl == Sgl(p1, p2, len)
           c1 == Cardinality(Met(Span(p1, f)))
           c2 == Cardinality(Met(Span(p2, rem)))
<1>1. f \in Nat \ {0} /\ f <= len
  BY FirstType
<1>2. sgl = IF one = <<>> THEN <<>>
            ELSE IF rem = 0 THEN one
            ELSE IF rem > ps \/ two = <<>> THEN <<>>
            ELSE one \o two
  BY DEF Sgl
<1>3. /\ one # <<>> => Chain(one, p1, f) /\ Span(p1, f) \subseteq Mapped
      /\ Span(p1, f) \subseteq Mapped /\ Cardinality(RegionsMet(p1, f)) <= NVME_MAX_SG =>
           Chain(one, p1, f) /\ Len(one) = Cardinality(RegionsMet(p1, f))
  <2> HIDE DEF f
  <2> QED BY <1>1, AddrToSgl
<1> HIDE DEF f
<1>4. rem \in Nat
  BY <1>1
<1> HIDE DEF rem, one
<1>5. rem # 0 =>
        /\ two # <<>> => Chain(two, p2, rem) /\ Span(p2, rem) \subseteq Mapped
        /\ Span(p2, rem) \subseteq Mapped /\ Cardinality(RegionsMet(p2, rem)) <= lim =>
             Chain(two, p2, rem) /\ Len(two) = Cardinality(RegionsMet(p2, rem))
  <2> HIDE DEF lim
  <2> QED BY <1>4, AddrToSgl
<1> HIDE DEF two, sgl
<1>6. Whole(p1, p2, len) = Join(Run(p1, f), Run(p2, rem))
  BY DEF Whole, f, rem
<1>7. Right(p1, p2, len, sgl)
  <2>1. SUFFICES ASSUME sgl # <<>>
                 PROVE  /\ FlattenSeq(sgl) = Whole(p1, p2, len)
                        /\ Span(p1, f) \union Span(p2, rem) \subseteq Mapped
    BY DEF Right, f, rem
  <2>2. one # <<>>
    BY <1>2, <2>1
  <2>3. Chain(one, p1, f) /\ Span(p1, f) \subseteq Mapped
    BY <1>3, <2>2
  <2>4. CASE rem = 0
    <3>1. sgl = one
      BY <1>2, <2>2, <2>4
    <3>2. FlattenSeq(one) = Run(p1, f)
      BY <1>1, <2>3, ChainFlat
    <3>3. Join(Run(p1, f), Run(p2, rem)) = Run(p1, f)
      BY <1>1, <2>4, EmptyRun
    <3>4. Span(p2, rem) = {}
      BY <2>4 DEF Span
    <3> QED BY <1>6, <2>3, <3>1, <3>2, <3>3, <3>4
  <2>5. CASE rem # 0
    <3>1. sgl = one \o two /\ two # <<>>
      BY <1>2, <2>1, <2>2, <2>5
    <3>2. Chain(two, p2, rem) /\ Span(p2, rem) \subseteq Mapped
      BY <1>5, <2>5, <3>1
    <3>3. FlattenSeq(one \o two) = Join(Run(p1, f), Run(p2, rem))
      BY <1>1, <1>4, <2>3, <3>2, TwoChainsFlat
    <3> QED BY <1>6, <2>3, <3>1, <3>2, <3>3
  <2> QED BY <2>4, <2>5
<1>8. Works(p1, p2, len, sgl, NVME_MAX_SG)
  <2>1. SUFFICES ASSUME rem <= ps, Span(p1, f) \union Span(p2, rem) \subseteq Mapped,
                        c1 + c2 <= NVME_MAX_SG
                 PROVE  sgl # <<>> /\ Len(sgl) \in 1 .. NVME_MAX_SG
    BY DEF Works, f, rem
  <2>2. c1 \in Nat /\ c2 \in Nat /\ c1 = Cardinality(RegionsMet(p1, f))
    BY <1>1, <1>4, MetSpan
  <2>3. c1 + c2 <= NVME_MAX_SG /\ NVME_MAX_SG \in Nat
    BY <2>1, LimitType
  <2>4. rem # 0 => c2 = Cardinality(RegionsMet(p2, rem))
    BY <1>4, MetSpan
  <2> HIDE DEF c1, c2
  <2>5. Chain(one, p1, f) /\ Len(one) = c1
    BY <1>3, <2>1, <2>2, <2>3
  <2>6. one # <<>> /\ one \in Seq(Seq(Int)) /\ c1 # 0
    BY <2>5, ChainLen
  <2>7. CASE rem = 0
    <3>1. sgl = one
      BY <1>2, <2>6, <2>7
    <3>2. Len(sgl) = c1
      BY <2>5, <3>1, Zenon
    <3> QED BY <2>2, <2>3, <2>6, <3>1, <3>2
  <2>8. CASE rem # 0
    <3>1. Cardinality(RegionsMet(p2, rem)) <= lim
      BY <2>2, <2>3, <2>4, <2>5, <2>8
    <3>2. Chain(two, p2, rem) /\ Len(two) = c2
      BY <1>5, <2>1, <2>4, <2>8, <3>1
    <3>3. two # <<>> /\ two \in Seq(Seq(Int)) /\ c2 # 0
      BY <3>2, ChainLen
    <3>4. ~(rem > ps)
      BY <1>4, <2>1, PrpAssumption
    <3>5. sgl = one \o two
      BY <1>2, <2>6, <2>8, <3>3, <3>4
    <3>6. Len(one \o two) = Len(one) + Len(two)
      BY <2>6, <3>3, ConcatProperties
    <3>7. Len(sgl) = c1 + c2
      BY <2>5, <3>2, <3>5, <3>6, Zenon
    <3>8. Len(sgl) \in 1 .. NVME_MAX_SG /\ Len(sgl) # 0
      <4> HIDE DEF sgl
      <4> QED BY <2>2, <2>3, <2>6, <3>7
    <3>9. sgl # <<>>
      BY <3>8
    <3> QED BY <3>8, <3>9
  <2> QED BY <2>7, <2>8
<1> QED BY <1>7, <1>8 DEF sgl

(* The page after that of an address starts where its part of the page     *)
(* ends.                                                                   *)
LEMMA NextPage ==
  ASSUME NEW gpa \in Nat
  PROVE  ps * (gpa \div ps + 1) \in Nat /\ ps * (gpa \div ps + 1) = gpa + (ps - (gpa % ps))
<1> DEFINE q == gpa \div ps
           r == gpa % ps
<1>1. ps \in Nat /\ q \in Nat /\ r \in 0 .. ps - 1 /\ gpa = ps * q + r
  BY PrpAssumption, DivMod
<1> HIDE DEF q, r
<1>2. ps * (q + 1) = ps * q + ps /\ ps * q \in Nat
  BY <1>1
<1>3. ps * (q + 1) \in Nat /\ ps * (q + 1) = gpa + (ps - r)
  BY <1>1, <1>2
<1> QED BY <1>3 DEF q, r

(* The translation of nvme_gpa_xfer: a contiguous buffer is that of a PRP  *)
(* pair whose second page follows the first.                               *)
LEMMA GpaSgl ==
  ASSUME TableInv, NEW gpa \in Nat, NEW len \in Nat \ {0}, NEW p2, p2 = ps * (gpa \div ps + 1),
         NEW sgl, sgl = vfu_addr_to_sgl(gpa, len, max_sg)
  PROVE  Right(gpa, p2, len, sgl) /\ Works(gpa, p2, len, sgl, Min({NVME_MAX_SG, max_sg}))
<1> DEFINE f == first(gpa, len)
           rem == len - f
           A == Span(gpa, f)
           B == Span(p2, rem)
<1>1. f \in Nat \ {0} /\ f <= len /\ f = IF len <= ps - (gpa % ps) THEN len ELSE ps - (gpa % ps)
  BY FirstType
<1>2. p2 \in Nat /\ p2 = gpa + (ps - (gpa % ps))
  BY NextPage
<1> HIDE DEF f
<1>3. rem \in Nat /\ f + rem = len
  BY <1>1
<1>4. rem # 0 => p2 = gpa + f
  BY <1>1, <1>2
<1> HIDE DEF rem
<1>5. Join(Run(gpa, f), Run(p2, rem)) = Run(gpa, len)
  <2>1. CASE rem = 0
    <3>1. Join(Run(gpa, f), Run(p2, 0)) = Run(gpa, f) /\ f = len
      BY <1>1, <1>3, <2>1, EmptyRun
    <3> QED BY <2>1, <3>1
  <2>2. CASE rem # 0
    <3>1. gpa \in Int
      OBVIOUS
    <3>2. Run(gpa, f) \o Run(gpa + f, rem) = Run(gpa, f + rem)
      BY <1>1, <1>3, <3>1, RunJoin
    <3> QED BY <1>3, <1>4, <2>2, <3>2, Zenon DEF Join
  <2> QED BY <2>1, <2>2
<1>6. A \union B = Span(gpa, len)
  <2>1. CASE rem = 0
    <3>1. B = {} /\ f = len
      BY <1>1, <1>2, <1>3, <2>1 DEF Span
    <3> QED BY <3>1
  <2>2. CASE rem # 0
    <3>1. p2 = gpa + f
      BY <1>4, <2>2
    <3> QED BY <1>1, <1>3, <3>1 DEF Span
  <2> QED BY <2>1, <2>2
<1>7. /\ sgl # <<>> => Chain(sgl, gpa, len) /\ Span(gpa, len) \subseteq Mapped
      /\ Span(gpa, len) \subseteq Mapped /\ Cardinality(RegionsMet(gpa, len)) <= max_sg =>
           Chain(sgl, gpa, len) /\ Len(sgl) = Cardinality(RegionsMet(gpa, len))
  BY AddrToSgl
<1> HIDE DEF A, B
<1>8. Right(gpa, p2, len, sgl)
  <2>1. SUFFICES ASSUME sgl # <<>>
                 PROVE  FlattenSeq(sgl) = Whole(gpa, p2, len) /\ A \union B \subseteq Mapped
    BY DEF Right, A, B, f, rem
  <2>2. FlattenSeq(sgl) = Run(gpa, len)
    BY <1>7, <2>1, ChainFlat
  <2>3. Whole(gpa, p2, len) = Run(gpa, len)
    BY <1>5 DEF Whole, f, rem
  <2> QED BY <1>6, <1>7, <2>1, <2>2, <2>3
<1>9. Works(gpa, p2, len, sgl, Min({NVME_MAX_SG, max_sg}))
  <2> DEFINE c1 == Cardinality(Met(A))  c2 == Cardinality(Met(B))
             c == Cardinality(RegionsMet(gpa, len))
  <2>1. SUFFICES ASSUME A \union B \subseteq Mapped, c1 + c2 <= Min({NVME_MAX_SG, max_sg})
                 PROVE  sgl # <<>> /\ Len(sgl) \in 1 .. NVME_MAX_SG
    BY DEF Works, A, B, f, rem
  <2>2. /\ IsFiniteSet(Met(A)) /\ c1 \in Nat /\ IsFiniteSet(Met(B)) /\ c2 \in Nat
    BY <1>1, <1>2, <1>3, MetSpan DEF A, B
  <2>3. RegionsMet(gpa, len) = Met(Span(gpa, len)) /\ c \in Nat
    BY MetSpan
  <2>4. Met(Span(gpa, len)) = Met(A) \union Met(B)
    BY <1>6 DEF Met
  <2>5. c <= c1 + c2
    <3> DEFINE X == Met(A)  Y == Met(B)  d == Cardinality(X \intersect Y)
    <3>1. IsFiniteSet(X) /\ IsFiniteSet(Y) /\ c = Cardinality(X \union Y)
      BY <2>2, <2>3, <2>4
    <3> HIDE DEF X, Y
    <3>2. Cardinality(X \union Y) = Cardinality(X) + Cardinality(Y) - Cardinality(X \intersect Y)
      BY <3>1, FS_Union
    <3>3. IsFiniteSet(X \intersect Y)
      BY <3>1, FS_Subset
    <3>4. d \in Nat
      BY <3>3, FS_CardinalityType
    <3>5. c1 = Cardinality(X) /\ c2 = Cardinality(Y)
      BY DEF X, Y
    <3> HIDE DEF c, c1, c2, d
    <3>6. c = c1 + c2 - d
      BY <3>1, <3>2, <3>5 DEF d
    <3> QED BY <2>2, <3>4, <3>6
  <2> HIDE DEF c1, c2, c
  <2>6. c <= Min({NVME_MAX_SG, max_sg})
    <3> DEFINE m == Min({NVME_MAX_SG, max_sg})
    <3>1. m \in Nat
      BY LimitType
    <3> HIDE DEF m
    <3>2. c1 + c2 <= m
      BY <2>1 DEF m
    <3>3. c <= m
      BY <2>2, <2>3, <2>5, <3>1, <3>2
    <3> QED BY <3>3 DEF m
  <2>7. c <= NVME_MAX_SG /\ c <= max_sg
    BY <2>3, <2>6, LimitType
  <2>8. Chain(sgl, gpa, len) /\ Len(sgl) = c
    BY <1>6, <1>7, <2>1, <2>7 DEF c
  <2>9. sgl # <<>> /\ c # 0
    BY <2>8, ChainLen
  <2> QED BY <2>3, <2>7, <2>8, <2>9, LimitType
<1> QED BY <1>8, <1>9

-----------------------------------------------------------------------------
(* What is true of the transfer just made.                                 *)
XferInv == AllOrNothing /\ TwoPagesWork

(* A transfer over a right translation is right.                           *)
LEMMA TransferStep ==
  ASSUME TableInv, NEW p1 \in Nat, NEW p2 \in Nat, NEW len \in Nat, NEW sgl, NEW limit \in Nat,
         len # 0 => Right(p1, p2, len, sgl) /\ Works(p1, p2, len, sgl, limit),
         Transfer(p1, p2, len, sgl, limit)
  PROVE  XferInv'
<1>1. PICK gets \in BOOLEAN :
        LET moved == IF len = 0 \/ ~gets THEN <<>> ELSE nvme_sgl_copy(sgl, len)
        IN /\ xfer' = [made |-> TRUE, prp1 |-> p1, prp2 |-> p2, len |-> len, gets |-> gets,
                       limit |-> limit, moved |-> moved,
                       rc |-> IF len = 0 \/ moved # <<>> THEN 0 ELSE -1]
           /\ UNCHANGED regions
  BY DEF Transfer, clientVars
<1> DEFINE moved == IF len = 0 \/ ~gets THEN <<>> ELSE nvme_sgl_copy(sgl, len)
           w == Whole(p1, p2, len)
           A == Span(p1, first(p1, len))
           B == Span(p2, len - first(p1, len))
<1>2. regions' = regions
  BY <1>1
<1>3. PICK x : x = xfer'
  OBVIOUS
<1> HIDE DEF moved
<1>4. /\ x.prp1 = p1 /\ x.prp2 = p2 /\ x.len = len /\ x.gets = gets /\ x.moved = moved
      /\ x.limit = limit
      /\ x.rc = IF len = 0 \/ moved # <<>> THEN 0 ELSE -1
  BY <1>1, <1>3 DEF moved
<1>5. /\ w = [k \in 1 .. x.len |-> Place(x, k - 1)] /\ w \in Seq(Int) /\ Len(w) = len
      /\ Part(x, TRUE) = A /\ Part(x, FALSE) = B
      /\ {Place(x, k) : k \in 0 .. len - 1} = A \union B
  <2>1. Layout(x, w, A, B)
    BY <1>4, WholeIs
  <2> HIDE DEF w, A, B
  <2> QED BY <1>4, <2>1, Zenon DEF Layout
<1> HIDE DEF w, A, B
<1>6. ASSUME len # 0, gets, sgl # <<>>, Len(sgl) \in 1 .. NVME_MAX_SG
      PROVE  moved = w /\ w # <<>> /\ A \union B \subseteq Mapped
  <2>1. FlattenSeq(sgl) = w /\ A \union B \subseteq Mapped
    BY <1>6 DEF Right, w, A, B
  <2>2. moved = SubSeq(w, 1, len)
    <3>1. Len(w) = len
      BY <1>5, Zenon
    <3>2. len >= len
      OBVIOUS
    <3> QED BY <1>6, <2>1, <3>1, <3>2, Zenon DEF moved, nvme_sgl_copy
  <2>3. SubSeq(w, 1, Len(w)) = w
    BY <1>5, SubSeqFull
  <2>4. w # <<>>
    <3>1. Len(w) # 0
      BY <1>5, <1>6
    <3> QED BY <3>1
  <2> QED BY <1>5, <2>1, <2>2, <2>3, <2>4, Zenon
<1>7. ASSUME ~(len # 0 /\ gets /\ sgl # <<>> /\ Len(sgl) \in 1 .. NVME_MAX_SG)
      PROVE  moved = <<>>
  <2>1. CASE len = 0 \/ ~gets
    BY <2>1 DEF moved
  <2>2. CASE sgl = <<>>
    <3>1. Len(sgl) = 0
      BY <2>2
    <3>2. ~(Len(sgl) \in 1 .. NVME_MAX_SG)
      BY <3>1, LimitType
    <3> QED BY <3>2, Zenon DEF moved, nvme_sgl_copy
  <2>3. CASE ~(Len(sgl) \in 1 .. NVME_MAX_SG)
    BY <2>3, Zenon DEF moved, nvme_sgl_copy
  <2> QED BY <1>7, <2>1, <2>2, <2>3
<1>8. moved = <<>> \/ (moved = w /\ A \union B \subseteq Mapped)
  BY <1>6, <1>7
<1>9. AllOrNothing'
  <2>1. x.moved \in {<<>>, [k \in 1 .. x.len |-> Place(x, k - 1)]}
    BY <1>4, <1>5, <1>8
  <2> QED BY <1>3, <2>1 DEF AllOrNothing, Place, InFirstPage
<1>10. Cardinality(InFirstPage(x)) = first(p1, len)
  BY <1>4, FirstPage
<1>11. x.rc # 0 /\ x.len - Cardinality(InFirstPage(x)) <= ps => Excused(x)
  <2> SUFFICES ASSUME x.rc # 0, len - first(p1, len) <= ps, ~Excused(x) PROVE FALSE
    BY <1>4, <1>10
  <2>1. len # 0 /\ moved = <<>>
    BY <1>4
  <2>2. gets
    BY <1>4 DEF Excused
  <2>3. A \union B \subseteq Mapped
    <3>1. \A k \in 0 .. len - 1 : Place(x, k) \in Mapped
      BY <1>4 DEF Excused
    <3> QED BY <1>5, <3>1
  <2>4. Cardinality(Met(A)) + Cardinality(Met(B)) <= limit
    <3> DEFINE c == Cardinality(Met(A)) + Cardinality(Met(B))
    <3>1. ~(c > limit)
      BY <1>4, <1>5 DEF Excused
    <3>2. Cardinality(Met(A)) \in Nat /\ Cardinality(Met(B)) \in Nat
      <4> DEFINE f == first(p1, len)
      <4>1. f \in Nat /\ f <= len
        BY FirstType
      <4> HIDE DEF f
      <4> DEFINE r == len - f
      <4>2. r \in Nat
        BY <4>1
      <4> HIDE DEF r
      <4>3. A = Span(p1, f) /\ B = Span(p2, r)
        BY DEF A, B, f, r
      <4> QED BY <4>1, <4>2, <4>3, MetSpan
    <3>3. c \in Nat
      BY <3>2
    <3> HIDE DEF c
    <3>4. c <= limit
      BY <3>1, <3>3
    <3> QED BY <3>4 DEF c
  <2>5. sgl # <<>> /\ Len(sgl) \in 1 .. NVME_MAX_SG
    BY <2>1, <2>3, <2>4 DEF Works, A, B
  <2> QED BY <1>6, <2>1, <2>2, <2>5
<1>12. TwoPagesWork'
  <2>1. xfer'.rc # 0 /\ xfer'.len - Cardinality(InFirstPage(xfer')) <= ps => Excused(xfer')
    BY <1>3, <1>11
  <2>2. Excused(xfer') => Excused(xfer)'
    BY <1>2 DEF Excused, Met, Mapped, Part, Place, InFirstPage
  <2> QED BY <2>1, <2>2 DEF TwoPagesWork, InFirstPage
<1> QED BY <1>9, <1>12 DEF XferInv

(* The invariant of the table with its transfers.                          *)
FullInv == TableInv /\ XferInv

(* MAP and UNMAP keep the table finite and its regions nonempty.           *)
LEMMA TableStep ==
  ASSUME TableInv, ClientNext
  PROVE  TableInv'
<1>1. PICK r \in Ranges : dma_controller_add_region(r) \/ dma_controller_remove_region(r)
  BY DEF ClientNext, Map, Unmap
<1>2. RegionsDisjoint'
  BY <1>1, AddDisjoint, RemoveDisjoint DEF TableInv
<1> DEFINE n == [start |-> r.addr, end |-> r.addr + r.size]
<1>3. n.start < n.end
  BY RangeType
<1> HIDE DEF n
<1>4. regions' \subseteq regions \union {n}
  BY <1>1 DEF dma_controller_add_region, dma_controller_remove_region, n
<1>5. IsFiniteSet(regions')
  <2>1. IsFiniteSet(regions \union {n})
    BY FS_AddElement DEF TableInv
  <2> QED BY <1>4, <2>1, FS_Subset
<1>6. \A g \in regions' : g.start < g.end
  BY <1>3, <1>4 DEF TableInv
<1> QED BY <1>2, <1>5, <1>6 DEF TableInv

(* Nothing else changes the table.                                         *)
LEMMA TableStays ==
  ASSUME TableInv, UNCHANGED regions
  PROVE  TableInv'
  BY DEF TableInv, RegionsDisjoint

(* Between transfers there is nothing to show.                             *)
LEMMA NoXferInv ==
  ASSUME xfer.made = FALSE
  PROVE  XferInv
  BY DEF XferInv, AllOrNothing, TwoPagesWork

(* The table and its transfers are right in every run.                     *)
LEMMA FullInvariance == Spec => []FullInv
<1>1. Init => FullInv
  <2> SUFFICES ASSUME Init PROVE FullInv
    OBVIOUS
  <2>1. TableInv
    BY FS_EmptySet DEF Init, ClientInit, DmaInit, TableInv, RegionsDisjoint
  <2>2. xfer.made = FALSE
    BY DEF Init, NoXfer
  <2> QED BY <2>1, <2>2, NoXferInv DEF FullInv
<1>2. FullInv /\ [Next]_vars => FullInv'
  <2> SUFFICES ASSUME FullInv, [Next]_vars PROVE FullInv'
    OBVIOUS
  <2>0. TableInv /\ XferInv
    BY DEF FullInv
  <2>1. CASE ~xfer.made /\ ClientNext /\ UNCHANGED xfer
    <3>1. ~xfer'.made
      BY <2>1
    <3>2. XferInv'
      BY <3>1 DEF XferInv, AllOrNothing, TwoPagesWork
    <3> QED BY <2>0, <2>1, <3>2, TableStep DEF FullInv
  <2>2. ASSUME NEW prp1 \in Prp1, NEW prp2 \in Prp2, NEW len \in Lens,
               nvme_prp_xfer(prp1, prp2, len)
        PROVE  FullInv'
    <3>1. prp1 \in Nat /\ prp2 \in Nat /\ len \in Nat
      BY PrpAssumption
    <3> DEFINE sgl == Sgl(prp1, prp2, len)
    <3>2. len # 0 => Right(prp1, prp2, len, sgl) /\ Works(prp1, prp2, len, sgl, NVME_MAX_SG)
      BY <2>0, <3>1, PrpSgl
    <3>3. Transfer(prp1, prp2, len, sgl, NVME_MAX_SG)
      BY <2>2 DEF nvme_prp_xfer
    <3>4. UNCHANGED regions
      BY <3>3 DEF Transfer, clientVars
    <3> HIDE DEF sgl
    <3>5. XferInv'
      BY <2>0, <3>1, <3>2, <3>3, TransferStep, LimitType
    <3> QED BY <2>0, <3>4, <3>5, TableStays DEF FullInv
  <2>3. ASSUME NEW gpa \in Prp1, NEW len \in Lens, nvme_gpa_xfer(gpa, len)
        PROVE  FullInv'
    <3>1. gpa \in Nat /\ len \in Nat
      BY PrpAssumption
    <3> DEFINE sgl == vfu_addr_to_sgl(gpa, len, max_sg)
               p2 == ps * (gpa \div ps + 1)
               m == Min({NVME_MAX_SG, max_sg})
    <3>2. p2 \in Nat /\ m \in Nat
      BY <3>1, NextPage, LimitType
    <3>3. len # 0 => Right(gpa, p2, len, sgl) /\ Works(gpa, p2, len, sgl, m)
      BY <2>0, <3>1, GpaSgl
    <3>4. Transfer(gpa, p2, len, sgl, m)
      BY <2>3 DEF nvme_gpa_xfer
    <3>5. UNCHANGED regions
      BY <3>4 DEF Transfer, clientVars
    <3> HIDE DEF sgl, p2, m
    <3>6. XferInv'
      BY <2>0, <3>1, <3>2, <3>3, <3>4, TransferStep
    <3> QED BY <2>0, <3>5, <3>6, TableStays DEF FullInv
  <2>4. CASE Return
    <3>1. ~xfer'.made
      BY <2>4 DEF Return, NoXfer
    <3>2. XferInv'
      BY <3>1 DEF XferInv, AllOrNothing, TwoPagesWork
    <3> QED BY <2>0, <2>4, <3>2, TableStays DEF FullInv, Return, clientVars
  <2>5. CASE UNCHANGED vars
    <3>1. regions' = regions /\ xfer' = xfer
      BY <2>5 DEF vars, clientVars
    <3>2. AllOrNothing'
      BY <2>0, <3>1 DEF XferInv, AllOrNothing, Place, InFirstPage
    <3>3. Excused(xfer') => Excused(xfer)'
      BY <3>1 DEF Excused, Met, Mapped, Part, Place, InFirstPage
    <3>4. TwoPagesWork'
      BY <2>0, <3>1, <3>3 DEF XferInv, TwoPagesWork, InFirstPage
    <3>5. XferInv'
      BY <3>2, <3>4 DEF XferInv
    <3> QED BY <2>0, <3>1, <3>5, TableStays DEF FullInv
  <2> QED BY <2>1, <2>2, <2>3, <2>4, <2>5 DEF Next
<1> QED BY <1>1, <1>2, PTL DEF Spec

(* A transfer moves every byte of the buffer to its place or none, in      *)
(* however many regions the two parts lie and wherever these are cut.      *)
THEOREM TransfersAreWhole == Spec => []AllOrNothing
<1>1. FullInv => AllOrNothing
  BY DEF FullInv, XferInv
<1> QED BY <1>1, FullInvariance, PTL

(* A transfer that fits into two pages from where it starts fails only for *)
(* want of memory, of a mapping or of descriptors.                         *)
THEOREM TwoPagesSucceed == Spec => []TwoPagesWork
<1>1. FullInv => TwoPagesWork
  BY DEF FullInv, XferInv
<1> QED BY <1>1, FullInvariance, PTL
=============================================================================
