-------------------------- MODULE QueuePairProofs --------------------------
(***************************************************************************)
(* Theorems about QueuePair, for rings of every size.                      *)
(***************************************************************************)
EXTENDS QueuePair, FiniteSets, FiniteSetTheorems, TLAPS

-----------------------------------------------------------------------------
(* Rings.                                                                  *)

(* The next index, without the modulus.                                    *)
LEMMA NextIndexIs ==
  ASSUME NEW n \in Nat \ {0}, NEW i \in 0 .. n - 1
  PROVE  NextIndex(i, n) = IF i + 1 = n THEN 0 ELSE i + 1
<1>1. CASE i + 1 = n
  BY <1>1, SMTT(30) DEF NextIndex
<1>2. CASE i + 1 # n
  BY <1>2, SMTT(30) DEF NextIndex
<1> QED BY <1>1, <1>2

(* Writing the entry after the last one appends to what the ring holds.    *)
LEMMA RingAppend ==
  ASSUME NEW n \in Nat \ {0}, NEW f \in [0 .. n - 1 -> Cmd], NEW h \in 0 .. n - 1,
         NEW k \in 0 .. n - 1, NEW c \in Cmd
  PROVE  Ring([f EXCEPT ![Slot(h, k + 1, n)] = c], h, k + 1, n) = Append(Ring(f, h, k, n), c)
<1> DEFINE g == [f EXCEPT ![Slot(h, k + 1, n)] = c]
           r == Ring(f, h, k, n)
<1>1. \A j \in 1 .. k + 1 : Slot(h, j, n) \in 0 .. n - 1
  BY DEF Slot
<1>2. \A j \in 1 .. k : Slot(h, j, n) # Slot(h, k + 1, n)
  BY DEF Slot
<1>3. \A j \in 1 .. k : g[Slot(h, j, n)] = f[Slot(h, j, n)]
  BY <1>1, <1>2
<1>4. g[Slot(h, k + 1, n)] = c
  BY <1>1
<1>5. r \in Seq(Cmd) /\ Len(r) = k
  <2>1. \A j \in 1 .. k : f[Slot(h, j, n)] \in Cmd
    BY <1>1
  <2>2. r \in [1 .. k -> Cmd]
    BY <2>1 DEF Ring
  <2> QED BY <2>2
<1>6. \A j \in 1 .. k : r[j] = f[Slot(h, j, n)]
  BY DEF Ring
<1> HIDE DEF g, r
<1>7. Append(r, c) = [j \in 1 .. k + 1 |-> IF j = k + 1 THEN c ELSE r[j]]
  BY <1>5
<1>8. [j \in 1 .. k + 1 |-> g[Slot(h, j, n)]] = [j \in 1 .. k + 1 |-> IF j = k + 1 THEN c ELSE r[j]]
  BY <1>3, <1>4, <1>6
<1>9. Ring(g, h, k + 1, n) = Append(r, c)
  BY <1>7, <1>8 DEF Ring
<1> QED BY <1>9 DEF g, r

(* Moving the start of the ring up by one drops its first entry.           *)
LEMMA RingTail ==
  ASSUME NEW n \in Nat \ {0}, NEW f \in [0 .. n - 1 -> Cmd], NEW h \in 0 .. n - 1,
         NEW k \in 1 .. n
  PROVE  /\ Ring(f, h, k, n) # << >>
         /\ Head(Ring(f, h, k, n)) = f[h]
         /\ Tail(Ring(f, h, k, n)) = Ring(f, NextIndex(h, n), k - 1, n)
<1> DEFINE r == Ring(f, h, k, n)
           m == NextIndex(h, n)
<1>1. \A j \in 1 .. k : Slot(h, j, n) \in 0 .. n - 1
  BY DEF Slot
<1>2. r \in Seq(Cmd) /\ Len(r) = k
  BY <1>1 DEF Ring
<1>3. \A j \in 1 .. k : r[j] = f[Slot(h, j, n)]
  BY DEF Ring
<1>4. Slot(h, 1, n) = h
  BY DEF Slot
<1>5. m = IF h + 1 = n THEN 0 ELSE h + 1
  BY NextIndexIs
<1> HIDE DEF m
<1>6. \A j \in 1 .. k - 1 : Slot(m, j, n) = Slot(h, j + 1, n)
  BY <1>5 DEF Slot
<1> HIDE DEF r
<1>7. Tail(r) = [j \in 1 .. k - 1 |-> r[j + 1]]
  BY <1>2
<1>8. [j \in 1 .. k - 1 |-> f[Slot(m, j, n)]] = [j \in 1 .. k - 1 |-> r[j + 1]]
  BY <1>3, <1>6
<1>9. Tail(r) = Ring(f, m, k - 1, n)
  BY <1>7, <1>8 DEF Ring
<1>10. r # << >> /\ Head(r) = f[h]
  BY <1>2, <1>3, <1>4
<1> QED BY <1>9, <1>10 DEF m, r

(* Distances in a ring.                                                    *)
LEMMA DistType ==
  ASSUME NEW n \in Nat \ {0}, NEW a \in 0 .. n - 1, NEW b \in 0 .. n - 1
  PROVE  /\ Dist(a, b, n) \in Nat /\ Dist(a, b, n) <= n - 1
         /\ NextIndex(a, n) \in 0 .. n - 1
BY NextIndexIs DEF Dist

(* The end of a stretch that is not the whole ring moves up.               *)
LEMMA DistGrows ==
  ASSUME NEW n \in Nat \ {0}, NEW a \in 0 .. n - 1, NEW b \in 0 .. n - 1,
         Dist(a, b, n) < n - 1
  PROVE  Dist(a, NextIndex(b, n), n) = Dist(a, b, n) + 1
BY NextIndexIs DEF Dist

(* A ring is full when the next index is its start.                        *)
LEMMA DistFull ==
  ASSUME NEW n \in Nat \ {0}, NEW a \in 0 .. n - 1, NEW b \in 0 .. n - 1,
         NextIndex(b, n) # a
  PROVE  Dist(a, b, n) < n - 1
BY NextIndexIs DEF Dist

(* The start of a stretch that is not empty moves up.                      *)
LEMMA DistShrinks ==
  ASSUME NEW n \in Nat \ {0}, NEW a \in 0 .. n - 1, NEW b \in 0 .. n - 1, a # b
  PROVE  Dist(NextIndex(a, n), b, n) = Dist(a, b, n) - 1
BY NextIndexIs DEF Dist

(* Only an index itself is at distance 0 from it; distances tell entries   *)
(* apart.                                                                  *)
LEMMA DistApart ==
  ASSUME NEW n \in Nat \ {0}, NEW a \in 0 .. n - 1, NEW b \in 0 .. n - 1, NEW c \in 0 .. n - 1
  PROVE  /\ Dist(a, a, n) = 0
         /\ b # c => Dist(a, b, n) # Dist(a, c, n)
BY DEF Dist

-----------------------------------------------------------------------------
(* The inductive invariant.                                                *)

(* The tail the device has and the doorbell in flight are between the      *)
(* device's head and the host's tail, in this order.                       *)
Doorbells ==
  /\ Dist(sq.head, sq.tail, SqSize) <= Unfetched
  /\ bell # NoBell => /\ Dist(sq.head, sq.tail, SqSize) <= Dist(sq.head, bell, SqSize)
                      /\ Dist(sq.head, bell, SqSize) <= Unfetched

(* The phases say which of the two completion indices is ahead, and what   *)
(* is in the rings is among what the host counts.                          *)
Counts ==
  /\ cq.phase = hPhase => hHead <= cq.tail
  /\ cq.phase # hPhase => cq.tail <= hHead
  /\ visible <= Posted
  /\ intact => visible = Posted
  /\ ~intact /\ cq.enabled => visible < Posted
  /\ ~lost => intact
  /\ Unfetched + Posted <= outstanding /\ outstanding <= Window

(* The tag the host will expect at an entry, and the entries that have it. *)
Tag(i) == IF hHead <= i THEN hPhase ELSE 1 - hPhase
Ahead(i) == Dist(hHead, i, CqSize)
Tags ==
  \A i \in 0 .. CqSize - 1 :
    /\ Ahead(i) < visible => cqMem[i].phase = Tag(i)
    /\ Ahead(i) = visible \/ Posted <= Ahead(i) => cqMem[i].phase # Tag(i)

(* The heads reported move towards the device's head.                      *)
Back(h) == Dist(h, hTail, SqSize)
Heads ==
  /\ Unfetched <= Back(hSqHead)
  /\ \A i \in 0 .. CqSize - 1 : Ahead(i) < visible =>
       Unfetched <= Back(cqMem[i].sq_head) /\ Back(cqMem[i].sq_head) <= Back(hSqHead)
  /\ \A i, j \in 0 .. CqSize - 1 : Ahead(i) < Ahead(j) /\ Ahead(j) < visible =>
       Back(cqMem[j].sq_head) <= Back(cqMem[i].sq_head)

IInv == TypeOK /\ Doorbells /\ Counts /\ Tags /\ Heads

(* What TypeOK says of the indices, one by one.                            *)
LEMMA Indices ==
  ASSUME TypeOK
  PROVE  /\ hTail \in 0 .. SqSize - 1 /\ hSqHead \in 0 .. SqSize - 1 /\ hHead \in 0 .. CqSize - 1
         /\ hPhase \in {0, 1} /\ cq.phase \in {0, 1} /\ cq.tail \in 0 .. CqSize - 1
         /\ sq.head \in 0 .. SqSize - 1 /\ sq.tail \in 0 .. SqSize - 1
         /\ bell \in 0 .. SqSize /\ outstanding \in Nat /\ visible \in Nat
         /\ SqSize \in Nat \ {0} /\ CqSize \in Nat \ {0} /\ Window \in Nat
         /\ \A i \in 0 .. CqSize - 1 : cqMem[i].sq_head \in 0 .. SqSize - 1
         /\ \A i \in 0 .. CqSize - 1 : cqMem[i].phase \in {0, 1}
<1> USE WindowAssumption DEF TypeOK
<1>1. \A i \in 0 .. CqSize - 1 : cqMem[i] \in Cqe
  OBVIOUS
<1> QED BY <1>1 DEF Cqe

(* The distances the invariant speaks of are numbers.                      *)
LEMMA Distances ==
  ASSUME TypeOK
  PROVE  /\ Unfetched \in 0 .. SqSize - 1 /\ Posted \in Int
         /\ \A h \in 0 .. SqSize - 1 : Back(h) \in 0 .. SqSize - 1
         /\ \A i \in 0 .. CqSize - 1 : Ahead(i) \in 0 .. CqSize - 1
<1>1. Unfetched \in 0 .. SqSize - 1
  <2>1. Dist(sq.head, hTail, SqSize) \in Nat /\ Dist(sq.head, hTail, SqSize) <= SqSize - 1
    BY Indices, DistType
  <2> QED BY <2>1, Indices DEF Unfetched
<1>2. Posted \in Int
  BY Indices DEF Posted
<1>3. \A h \in 0 .. SqSize - 1 : Back(h) \in 0 .. SqSize - 1
  BY Indices, DistType DEF Back
<1>4. \A i \in 0 .. CqSize - 1 : Ahead(i) \in 0 .. CqSize - 1
  BY Indices, DistType DEF Ahead
<1> QED BY <1>1, <1>2, <1>3, <1>4

(* The queues start with it.                                               *)
LEMMA InitInv == Init => IInv
<1> SUFFICES ASSUME Init PROVE IInv
  OBVIOUS
<1> USE WindowAssumption
<1>1. TypeOK
  <2>1. ZeroCqe \in Cqe /\ 0 \in 0 .. SqSize - 1 /\ 0 \in 0 .. CqSize - 1
    BY DEF ZeroCqe, Cqe
  <2>2. sqMem \in [0 .. SqSize - 1 -> Cmd] /\ cqMem \in [0 .. CqSize - 1 -> Cqe]
    BY <2>1 DEF Init
  <2>3. /\ sq \in [head : 0 .. SqSize - 1, tail : 0 .. SqSize - 1, enabled : BOOLEAN]
        /\ cq \in [tail : 0 .. CqSize - 1, phase : {0, 1}, enabled : BOOLEAN]
    BY <2>1 DEF Init, NewSq, NewCq
  <2>4. /\ hTail \in 0 .. SqSize - 1 /\ hSqHead \in 0 .. SqSize - 1 /\ hHead \in 0 .. CqSize - 1
        /\ hPhase \in {0, 1} /\ outstanding \in Nat /\ aers \in Nat /\ visible \in Nat
    BY <2>1 DEF Init
  <2>5. bell \in 0 .. SqSize
    BY DEF Init, NoBell
  <2>6. busy \in BOOLEAN /\ intact \in BOOLEAN /\ lost \in BOOLEAN
    BY DEF Init
  <2> QED BY <2>2, <2>3, <2>4, <2>5, <2>6 DEF TypeOK
<1>2. /\ hTail = 0 /\ hSqHead = 0 /\ hHead = 0 /\ hPhase = 1 /\ outstanding = 0
      /\ bell = NoBell /\ intact /\ visible = 0
      /\ sq.head = 0 /\ sq.tail = 0 /\ cq.tail = 0 /\ cq.phase = 1
      /\ \A i \in 0 .. CqSize - 1 : cqMem[i].phase = 0
  BY DEF Init, NewSq, NewCq, ZeroCqe
<1>3. Doorbells /\ Counts
  BY <1>2 DEF Doorbells, Counts, Posted, Unfetched, Dist
<1>4. Tags /\ Heads
  BY <1>2 DEF Tags, Tag, Heads, Back, Ahead, Posted, Unfetched, Dist
<1> QED BY <1>1, <1>3, <1>4 DEF IInv

(* The host fills an entry that neither side counts as used.               *)
LEMMA SubmitInv ==
  ASSUME IInv, NEW c \in Cmd, Submit(c)
  PROVE  IInv'
<1>1. TypeOK /\ Doorbells /\ Counts /\ Tags /\ Heads
  BY DEF IInv
<1>2. /\ hTail' = NextIndex(hTail, SqSize) /\ NextIndex(hTail, SqSize) # hSqHead
      /\ outstanding < Window /\ outstanding' = outstanding + 1
      /\ UNCHANGED <<cqMem, hSqHead, hHead, hPhase, bell, sq, cq, busy, intact, lost, visible>>
  BY DEF Submit
<1>3. Back(hSqHead) < SqSize - 1
  BY <1>1, <1>2, Indices, DistFull DEF Back
<1>4. ASSUME NEW h \in 0 .. SqSize - 1, Back(h) <= Back(hSqHead)
      PROVE  Dist(h, hTail', SqSize) = Back(h) + 1
  <2>1. Dist(h, hTail, SqSize) < SqSize - 1
    BY <1>1, <1>3, <1>4, Indices, Distances DEF Back
  <2> QED BY <1>1, <1>2, <2>1, Indices, DistGrows DEF Back
<1>5. Unfetched' = Unfetched + 1
  BY <1>1, <1>2, <1>4, Indices DEF Unfetched, Back, Heads
<1>6. TypeOK'
  <2>1. NextIndex(hTail, SqSize) \in 0 .. SqSize - 1
    BY <1>1, Indices, DistType
  <2> QED BY <1>1, <2>1 DEF Submit, TypeOK
<1>7. Doorbells'
  <2>1. ASSUME bell # NoBell PROVE Dist(sq.head, bell, SqSize) \in Nat
    <3>1. bell \in 0 .. SqSize - 1
      BY <1>1, <2>1, Indices DEF NoBell
    <3> QED BY <1>1, <3>1, Indices, DistType
  <2>2. Dist(sq.head, sq.tail, SqSize) \in Nat
    BY <1>1, Indices, DistType
  <2> QED BY <1>1, <1>2, <1>5, <2>1, <2>2, Distances DEF Doorbells, NoBell
<1>8. Counts'
  BY <1>1, <1>2, <1>5, Distances, Indices DEF Counts, Posted
<1>9. Tags'
  BY <1>1, <1>2 DEF Tags, Tag, Ahead, Posted
<1>10. Heads'
  <2>1. Back(hSqHead)' = Back(hSqHead) + 1
    BY <1>1, <1>2, <1>4, Indices, Distances DEF Back
  <2>2. ASSUME NEW i \in 0 .. CqSize - 1, Ahead(i) < visible
        PROVE  Back(cqMem[i].sq_head)' = Back(cqMem[i].sq_head) + 1
    BY <1>1, <1>2, <1>4, <2>2, Indices DEF Heads, Back
  <2>3. \A i \in 0 .. CqSize - 1 : Ahead(i)' = Ahead(i) /\ Ahead(i) \in Nat
    BY <1>1, <1>2, Distances DEF Ahead
  <2>4. \A i \in 0 .. CqSize - 1 : Back(cqMem[i].sq_head) \in Nat
    BY <1>1, Indices, Distances
  <2>5. (Unfetched <= Back(hSqHead))'
    BY <1>1, <1>2, <1>5, <2>1, Indices, Distances DEF Heads
  <2>6. ASSUME NEW i \in 0 .. CqSize - 1, (Ahead(i) < visible)'
        PROVE  (Unfetched <= Back(cqMem[i].sq_head) /\ Back(cqMem[i].sq_head) <= Back(hSqHead))'
    <3>1. Ahead(i) < visible
      BY <1>2, <2>3, <2>6
    <3> QED BY <1>1, <1>2, <1>5, <2>1, <2>2, <2>4, <3>1, Indices, Distances DEF Heads
  <2>7. ASSUME NEW i \in 0 .. CqSize - 1, NEW j \in 0 .. CqSize - 1,
               (Ahead(i) < Ahead(j) /\ Ahead(j) < visible)'
        PROVE  (Back(cqMem[j].sq_head) <= Back(cqMem[i].sq_head))'
    <3>1. Ahead(i) < Ahead(j) /\ Ahead(j) < visible /\ Ahead(i) < visible
      BY <1>1, <1>2, <2>3, <2>7, Indices
    <3> QED BY <1>1, <1>2, <2>2, <2>4, <3>1 DEF Heads
  <2> QED BY <2>5, <2>6, <2>7 DEF Heads
<1> QED BY <1>6, <1>7, <1>8, <1>9, <1>10 DEF IInv

(* A step that leaves all indices and rings alone.                         *)
LEMMA SameIndicesInv ==
  ASSUME IInv, TypeOK', sq.head' = sq.head, sq.tail' = sq.tail, cq.tail' = cq.tail,
         cq.phase' = cq.phase, cq.enabled' => cq.enabled, bell' = bell,
         UNCHANGED <<cqMem, hTail, hSqHead, hHead, hPhase, outstanding, intact, lost, visible>>
  PROVE  IInv'
<1>1. Unfetched' = Unfetched /\ Posted' = Posted
  BY DEF Unfetched, Posted
<1>2. Doorbells' /\ Tags' /\ Heads'
  BY <1>1 DEF IInv, Doorbells, Tags, Tag, Heads, Back, Ahead
<1>3. Counts'
  BY <1>1 DEF IInv, Counts
<1> QED BY <1>2, <1>3 DEF IInv

(* The steps in which at most flags change.                                *)
LEMMA FlagsInv ==
  ASSUME IInv, LoopEnds \/ FetchFails \/ DeleteCq \/ nvme_queues_down
  PROVE  IInv'
<1>1. TypeOK'
  <2>1. CASE LoopEnds \/ FetchFails
    BY <2>1 DEF IInv, TypeOK, LoopEnds, FetchFails, host
  <2>2. CASE DeleteCq \/ nvme_queues_down
    BY <2>2 DEF IInv, TypeOK, DeleteCq, nvme_queues_down, host
  <2> QED BY <2>1, <2>2
<1>2. /\ sq.head' = sq.head /\ sq.tail' = sq.tail /\ cq.tail' = cq.tail
      /\ cq.phase' = cq.phase /\ (cq.enabled' => cq.enabled) /\ bell' = bell
      /\ UNCHANGED <<cqMem, hTail, hSqHead, hHead, hPhase, outstanding, intact, lost, visible>>
  <2>1. CASE LoopEnds \/ FetchFails
    BY <2>1 DEF LoopEnds, FetchFails, host
  <2>2. CASE DeleteCq \/ nvme_queues_down
    BY <2>2 DEF IInv, TypeOK, DeleteCq, nvme_queues_down, host
  <2> QED BY <2>1, <2>2
<1> QED BY <1>1, <1>2, SameIndicesInv

(* A doorbell goes out, and comes in.                                      *)
LEMMA DoorbellInv ==
  ASSUME IInv, RingDoorbell \/ TakeDoorbell
  PROVE  IInv'
<1>1. TypeOK /\ Doorbells /\ Counts /\ Tags /\ Heads
  BY DEF IInv
<1>2. /\ UNCHANGED <<cqMem, hTail, hSqHead, hHead, hPhase, outstanding, cq, intact, lost, visible>>
      /\ sq.head' = sq.head
  BY <1>1 DEF RingDoorbell, TakeDoorbell, host, TypeOK
<1>3. Unfetched' = Unfetched /\ Posted' = Posted
  BY <1>2 DEF Unfetched, Posted
<1>4. Tags' /\ Heads' /\ Counts'
  BY <1>1, <1>2, <1>3 DEF Tags, Tag, Heads, Back, Ahead, Counts
<1>5. TypeOK' /\ Doorbells'
  <2>1. CASE RingDoorbell
    <3>1. bell' = hTail /\ sq' = sq /\ UNCHANGED <<sqMem, aers, busy>>
      BY <2>1 DEF RingDoorbell, host
    <3>2. TypeOK'
      BY <1>1, <1>2, <3>1, Indices DEF TypeOK
    <3>3. Doorbells'
      BY <1>1, <1>2, <1>3, <3>1, Distances DEF Doorbells, Unfetched
    <3> QED BY <3>2, <3>3
  <2>2. CASE TakeDoorbell
    <3>1. /\ sq' = [sq EXCEPT !.tail = bell] /\ bell' = NoBell /\ bell \in 0 .. SqSize - 1
          /\ busy' = sq.enabled /\ UNCHANGED <<sqMem, aers>> /\ bell # NoBell
      BY <1>1, <2>2, Indices DEF TakeDoorbell, host, NoBell
    <3>2. sq'.tail = bell
      BY <1>1, <3>1 DEF TypeOK
    <3>3. NoBell \in 0 .. SqSize
      BY WindowAssumption DEF NoBell
    <3>4. TypeOK'
      BY <1>1, <1>2, <3>1, <3>3 DEF TypeOK
    <3>5. Doorbells'
      BY <1>1, <1>2, <1>3, <3>1, <3>2 DEF Doorbells
    <3> QED BY <3>4, <3>5
  <2> QED BY <2>1, <2>2
<1> QED BY <1>4, <1>5 DEF IInv

(* The queues are created again.                                           *)
LEMMA RestartInv ==
  ASSUME IInv, Restart
  PROVE  IInv'
<1>1. busy' = FALSE
  BY DEF Restart, IInv, TypeOK
<1>2. Init'
  BY <1>1 DEF Restart, Init
<1> QED BY <1>2, InitInv, PTL

(* The completion queue is created again, under the commands submitted.    *)
LEMMA CreateCqInv ==
  ASSUME IInv, nvme_admin_create_cq
  PROVE  IInv'
<1>1. TypeOK /\ Doorbells /\ Counts /\ Heads
  BY DEF IInv
<1>2. /\ cqMem' = [i \in 0 .. CqSize - 1 |-> ZeroCqe] /\ hHead' = 0 /\ hPhase' = 1
      /\ cq' = NewCq /\ intact' = TRUE /\ visible' = 0 /\ lost' = (lost \/ visible > 0)
      /\ UNCHANGED <<sqMem, hTail, hSqHead, outstanding, aers, bell, sq, busy>>
  BY DEF nvme_admin_create_cq
<1>3. cq'.tail = 0 /\ cq'.phase = 1 /\ \A i \in 0 .. CqSize - 1 : cqMem'[i].phase = 0
  BY <1>2 DEF NewCq, ZeroCqe
<1>4. TypeOK'
  <2>1. ZeroCqe \in Cqe /\ 0 \in 0 .. CqSize - 1
    BY WindowAssumption DEF ZeroCqe, Cqe
  <2>2. cqMem' \in [0 .. CqSize - 1 -> Cqe]
    BY <1>2, <2>1
  <2>3. cq' \in [tail : 0 .. CqSize - 1, phase : {0, 1}, enabled : BOOLEAN]
    BY <1>2, <2>1 DEF NewCq
  <2>4. lost' \in BOOLEAN
    BY <1>2
  <2> QED BY <1>1, <1>2, <2>1, <2>2, <2>3, <2>4 DEF TypeOK
<1>5. Unfetched' = Unfetched /\ Posted' = 0
  BY <1>2, <1>3 DEF Unfetched, Posted
<1>6. Doorbells'
  BY <1>1, <1>2, <1>5 DEF Doorbells
<1>7. Counts'
  BY <1>1, <1>2, <1>3, <1>5, Indices, Distances DEF Counts
<1>8. \A i \in 0 .. CqSize - 1 : Ahead(i)' \in Nat /\ Tag(i)' = 1
  BY <1>2, Indices DEF Ahead, Tag, Dist
<1>9. Tags'
  BY <1>2, <1>3, <1>8 DEF Tags
<1>10. Heads'
  BY <1>1, <1>2, <1>5, <1>8 DEF Heads, Back
<1> QED BY <1>4, <1>6, <1>7, <1>9, <1>10 DEF IInv

(* The tag is the expected one exactly where something is to be read.      *)
LEMMA TagTells ==
  ASSUME IInv
  PROVE  cqMem[hHead].phase = hPhase <=> visible > 0
<1>1. Ahead(hHead) = 0 /\ Tag(hHead) = hPhase
  BY Indices, DistApart DEF IInv, Ahead, Tag
<1>2. visible \in Nat /\ hHead \in 0 .. CqSize - 1
  BY Indices DEF IInv
<1>3. CASE visible > 0
  BY <1>1, <1>2, <1>3 DEF IInv, Tags
<1>4. CASE ~(visible > 0)
  <2>1. Ahead(hHead) = visible
    BY <1>1, <1>2, <1>4
  <2> QED BY <1>1, <1>2, <1>4, <2>1 DEF IInv, Tags
<1> QED BY <1>3, <1>4

(* The host takes the first completion: every other one comes nearer, and  *)
(* the entry becomes the last, where the tag will differ.                  *)
LEMMA ReadInv ==
  ASSUME IInv, Read
  PROVE  IInv'
<1>1. TypeOK /\ Doorbells /\ Counts /\ Tags /\ Heads
  BY DEF IInv
<1>2. /\ cqMem[hHead].phase = hPhase /\ hSqHead' = cqMem[hHead].sq_head
      /\ hHead' = IF hHead + 1 = CqSize THEN 0 ELSE hHead + 1
      /\ hPhase' = IF hHead' = 0 THEN 1 - hPhase ELSE hPhase
      /\ outstanding' = outstanding - 1 /\ visible' = visible - 1
      /\ UNCHANGED <<sqMem, cqMem, hTail, aers, bell, sq, cq, busy, intact, lost>>
  BY <1>1, Indices, NextIndexIs DEF Read
<1>3. visible > 0
  BY <1>2, TagTells
<1>4. Posted >= 1 /\ Posted <= CqSize
  BY <1>1, <1>3, Indices DEF Counts, Posted
<1>5. Posted' = Posted - 1 /\ Unfetched' = Unfetched
      /\ (cq.phase = hPhase => hHead <= cq.tail)' /\ (cq.phase # hPhase => cq.tail <= hHead)'
  BY <1>1, <1>2, <1>4, Indices DEF Counts, Posted, Unfetched
<1>6. ASSUME NEW i \in 0 .. CqSize - 1, i # hHead
      PROVE  Ahead(i)' = Ahead(i) - 1 /\ Tag(i)' = Tag(i)
  BY <1>1, <1>2, <1>6, Indices DEF Ahead, Tag, Dist
<1>7. Ahead(hHead) = 0 /\ Dist(hHead', hHead, CqSize) = CqSize - 1
      /\ (IF hHead' <= hHead THEN hPhase' ELSE 1 - hPhase') = 1 - hPhase
  BY <1>1, <1>2, Indices DEF Ahead, Dist
<1>8. outstanding > 0
  BY <1>1, <1>4, Indices, Distances DEF Counts
<1>9. visible' <= CqSize - 1 /\ visible' \in Int
  BY <1>1, <1>2, <1>4, Indices, Distances DEF Counts
<1>10. ASSUME NEW i \in 0 .. CqSize - 1, i = hHead
       PROVE  Ahead(i)' = CqSize - 1 /\ ~(Ahead(i)' < visible')
  <2>1. Ahead(i)' = CqSize - 1
    BY <1>7, <1>10 DEF Ahead
  <2> QED BY <2>1, <1>9, <1>1, Indices
<1>11. TypeOK'
  <2>1. hHead' \in 0 .. CqSize - 1 /\ hPhase' \in {0, 1} /\ outstanding' \in Nat /\ visible' \in Nat
    BY <1>1, <1>2, <1>3, <1>8, Indices
  <2>2. hSqHead' \in 0 .. SqSize - 1
    BY <1>1, <1>2, Indices
  <2> QED BY <1>1, <1>2, <2>1, <2>2 DEF TypeOK
<1>12. Doorbells'
  BY <1>1, <1>2, <1>5 DEF Doorbells
<1>13. Counts'
  BY <1>1, <1>2, <1>3, <1>5, Indices, Distances DEF Counts
<1>14. Tags'
  <2>1. ASSUME NEW i \in 0 .. CqSize - 1, i # hHead
        PROVE  /\ Ahead(i)' < visible' => cqMem'[i].phase = Tag(i)'
               /\ Ahead(i)' = visible' \/ Posted' <= Ahead(i)' => cqMem'[i].phase # Tag(i)'
    BY <1>1, <1>2, <1>5, <1>6, <2>1, Indices, Distances DEF Tags
  <2>2. hPhase # 1 - hPhase
    BY <1>1, Indices
  <2>3. ASSUME NEW i \in 0 .. CqSize - 1, i = hHead
        PROVE  /\ Ahead(i)' < visible' => cqMem'[i].phase = Tag(i)'
               /\ Ahead(i)' = visible' \/ Posted' <= Ahead(i)' => cqMem'[i].phase # Tag(i)'
    <3>1. cqMem'[i].phase = hPhase /\ Tag(i)' = 1 - hPhase
      BY <1>2, <1>7, <2>3 DEF Tag
    <3> QED BY <1>10, <2>2, <2>3, <3>1
  <2> QED BY <2>1, <2>3 DEF Tags
<1>15. Heads'
  <2>2. (Unfetched <= Back(hSqHead))'
    BY <1>1, <1>2, <1>3, <1>5, <1>7, Indices DEF Heads, Back
  <2>3. ASSUME NEW i \in 0 .. CqSize - 1, (Ahead(i) < visible)'
        PROVE  (Unfetched <= Back(cqMem[i].sq_head) /\ Back(cqMem[i].sq_head) <= Back(hSqHead))'
    <3>1. i # hHead
      BY <1>10, <2>3
    <3>2. Ahead(i) < visible /\ Ahead(hHead) < Ahead(i)
      BY <1>1, <1>2, <1>6, <1>7, <2>3, <3>1, Indices, Distances, DistApart DEF Ahead
    <3> QED BY <1>1, <1>2, <1>5, <3>2, Indices DEF Heads, Back
  <2>4. ASSUME NEW i \in 0 .. CqSize - 1, NEW j \in 0 .. CqSize - 1,
               (Ahead(i) < Ahead(j) /\ Ahead(j) < visible)'
        PROVE  (Back(cqMem[j].sq_head) <= Back(cqMem[i].sq_head))'
    <3>1. j # hHead
      BY <1>10, <2>4
    <3>3. Ahead(j)' = Ahead(j) - 1 /\ Ahead(j) \in 0 .. CqSize - 1
      BY <1>1, <1>6, <3>1, Distances
    <3>4. i # hHead
      BY <1>10, <2>4, <3>3, <1>1, Indices
    <3>2. Ahead(i) < Ahead(j) /\ Ahead(j) < visible
      BY <1>1, <1>2, <1>6, <2>4, <3>1, <3>4, Indices, Distances
    <3> QED BY <1>1, <1>2, <3>2 DEF Heads, Back
  <2> QED BY <2>2, <2>3, <2>4 DEF Heads
<1> QED BY <1>11, <1>12, <1>13, <1>14, <1>15 DEF IInv

(* A command is fetched: what the doorbells say stays true, and one entry  *)
(* less is to be fetched.                                                  *)
LEMMA FetchIndices ==
  ASSUME IInv, sq.head # sq.tail, UNCHANGED <<hTail, bell>>,
         sq' = [sq EXCEPT !.head = NextIndex(sq.head, SqSize)]
  PROVE  /\ sq'.head = NextIndex(sq.head, SqSize) /\ sq'.head \in 0 .. SqSize - 1
         /\ sq' \in [head : 0 .. SqSize - 1, tail : 0 .. SqSize - 1, enabled : BOOLEAN]
         /\ Unfetched >= 1 /\ Unfetched' = Unfetched - 1
         /\ Doorbells'
<1>1. TypeOK /\ Doorbells
  BY DEF IInv
<1>2. NextIndex(sq.head, SqSize) \in 0 .. SqSize - 1
  BY <1>1, Indices, DistType
<1>3. /\ sq'.head = NextIndex(sq.head, SqSize) /\ sq'.tail = sq.tail
      /\ sq' \in [head : 0 .. SqSize - 1, tail : 0 .. SqSize - 1, enabled : BOOLEAN]
  BY <1>1, <1>2 DEF TypeOK
<1>4. Dist(sq.head, sq.tail, SqSize) \in Nat /\ Dist(sq.head, sq.tail, SqSize) # 0
  BY <1>1, Indices, DistApart, DistType
<1>5. Unfetched >= 1 /\ sq.head # hTail
  <2>1. Unfetched >= 1
    BY <1>1, <1>4, Distances DEF Doorbells
  <2> QED BY <1>1, <2>1, Indices, DistApart DEF Unfetched
<1>6. Unfetched' = Unfetched - 1
  BY <1>1, <1>3, <1>5, Indices, DistShrinks DEF Unfetched
<1>7. Dist(sq'.head, sq.tail, SqSize) = Dist(sq.head, sq.tail, SqSize) - 1
  BY <1>1, <1>3, Indices, DistShrinks
<1>8. ASSUME bell # NoBell
      PROVE  /\ Dist(sq'.head, bell, SqSize) = Dist(sq.head, bell, SqSize) - 1
             /\ Dist(sq.head, bell, SqSize) \in Nat
  <2>1. bell \in 0 .. SqSize - 1
    BY <1>1, <1>8, Indices DEF NoBell
  <2>2. sq.head # bell
    BY <1>1, <1>4, <1>8, <2>1, Indices, DistApart DEF Doorbells
  <2> QED BY <1>1, <1>3, <2>1, <2>2, Indices, DistShrinks, DistType
<1>9. Doorbells'
  <2>1. (Dist(sq.head, sq.tail, SqSize) <= Unfetched)'
    BY <1>1, <1>3, <1>4, <1>6, <1>7, Distances DEF Doorbells
  <2>2. ASSUME bell' # NoBell
        PROVE  (Dist(sq.head, sq.tail, SqSize) <= Dist(sq.head, bell, SqSize)
                /\ Dist(sq.head, bell, SqSize) <= Unfetched)'
    BY <1>1, <1>3, <1>4, <1>6, <1>7, <1>8, <2>2, Distances DEF Doorbells
  <2> QED BY <2>1, <2>2 DEF Doorbells, NoBell
<1> QED BY <1>2, <1>3, <1>5, <1>6, <1>9

(* The 16-bit tail does not overflow.                                      *)
LEMMA TailFits ==
  ASSUME TypeOK
  PROVE  (cq.tail + 1) % TailMod = cq.tail + 1
<1>1. cq.tail + 1 \in 0 .. TailMod - 1 /\ TailMod \in Nat \ {0}
  BY Indices, WindowAssumption
<1>2. ASSUME NEW x \in 0 .. TailMod - 1 PROVE x % TailMod = x
  BY <1>1, SMTT(30)
<1> QED BY <1>1, <1>2

(* The entry at the device's tail is the one after the last posted.        *)
LEMMA PostIndices ==
  ASSUME IInv, Unfetched >= 1
  PROVE  /\ Posted \in 0 .. CqSize - 1
         /\ Ahead(cq.tail) = Posted /\ Tag(cq.tail) = cq.phase
         /\ Advanced.tail \in 0 .. CqSize - 1 /\ Advanced.phase \in {0, 1}
         /\ Advanced \in [tail : 0 .. CqSize - 1, phase : {0, 1}, enabled : BOOLEAN]
         /\ Advanced.enabled = cq.enabled
         /\ Advanced.phase = hPhase => hHead <= Advanced.tail
         /\ Advanced.phase # hPhase => Advanced.tail <= hHead
         /\ (IF Advanced.phase = hPhase THEN Advanced.tail - hHead
             ELSE Advanced.tail - hHead + CqSize) = Posted + 1
<1>1. TypeOK /\ Counts
  BY DEF IInv
<1>2. Posted \in 0 .. CqSize - 1
  BY <1>1, Indices, Distances, WindowAssumption DEF Counts, Posted
<1>3. Ahead(cq.tail) = Posted /\ Tag(cq.tail) = cq.phase
  BY <1>1, <1>2, Indices DEF Counts, Posted, Ahead, Tag, Dist
<1>4. CASE cq.tail + 1 = CqSize
  <2>1. Advanced.tail = 0 /\ Advanced.phase = 1 - cq.phase /\ Advanced.enabled = cq.enabled
    BY <1>1, <1>4, TailFits DEF Advanced, TypeOK
  <2>2. Advanced \in [tail : 0 .. CqSize - 1, phase : {0, 1}, enabled : BOOLEAN]
    <3>1. 0 \in 0 .. CqSize - 1 /\ 1 - cq.phase \in {0, 1}
      BY <1>1, Indices
    <3> QED BY <1>1, <1>4, <3>1, TailFits DEF Advanced, TypeOK
  <2>3. /\ Advanced.phase = hPhase => hHead <= Advanced.tail
        /\ Advanced.phase # hPhase => Advanced.tail <= hHead
        /\ (IF Advanced.phase = hPhase THEN Advanced.tail - hHead
            ELSE Advanced.tail - hHead + CqSize) = Posted + 1
    BY <1>1, <1>2, <1>4, <2>1, Indices DEF Counts, Posted
  <2> QED BY <1>1, <1>2, <1>3, <2>1, <2>2, <2>3, Indices
<1>5. CASE cq.tail + 1 # CqSize
  <2>1. Advanced.tail = cq.tail + 1 /\ Advanced.phase = cq.phase /\ Advanced.enabled = cq.enabled
    BY <1>1, <1>5, TailFits DEF Advanced, TypeOK
  <2>2. Advanced \in [tail : 0 .. CqSize - 1, phase : {0, 1}, enabled : BOOLEAN]
    <3>1. cq.tail + 1 \in 0 .. CqSize - 1
      BY <1>1, <1>5, Indices
    <3> QED BY <1>1, <1>5, <3>1, TailFits DEF Advanced, TypeOK
  <2>3. /\ Advanced.phase = hPhase => hHead <= Advanced.tail
        /\ Advanced.phase # hPhase => Advanced.tail <= hHead
        /\ (IF Advanced.phase = hPhase THEN Advanced.tail - hHead
            ELSE Advanced.tail - hHead + CqSize) = Posted + 1
    BY <1>1, <1>2, <1>5, <2>1, Indices DEF Counts, Posted
  <2>4. Advanced.tail \in 0 .. CqSize - 1
    BY <1>1, <1>5, <2>1, Indices
  <2> QED BY <1>1, <1>2, <1>3, <2>1, <2>2, <2>3, <2>4, Indices
<1> QED BY <1>4, <1>5

(* A command whose completion, if any, does not reach the ring: an event   *)
(* request, a queue that is gone, a write that failed.                     *)
LEMMA UnansweredInv ==
  ASSUME IInv, Execute, UNCHANGED <<cqMem, visible>>,
         \/ UNCHANGED <<cq, intact, lost>>
         \/ intact' = FALSE /\ lost' = TRUE /\ cq' = cq /\ ~cq.enabled
         \/ intact' = FALSE /\ lost' = TRUE /\ cq' = Advanced
  PROVE  IInv'
<1>1. TypeOK /\ Doorbells /\ Counts /\ Tags /\ Heads
  BY DEF IInv
<1>2. /\ sq' = [sq EXCEPT !.head = NextIndex(sq.head, SqSize)] /\ sq.head # sq.tail
      /\ UNCHANGED <<sqMem, hTail, hSqHead, hHead, hPhase, outstanding, aers, bell, busy>>
  BY DEF Execute, host
<1>3. /\ sq'.head = NextIndex(sq.head, SqSize) /\ sq'.head \in 0 .. SqSize - 1
      /\ sq' \in [head : 0 .. SqSize - 1, tail : 0 .. SqSize - 1, enabled : BOOLEAN]
      /\ Unfetched >= 1 /\ Unfetched' = Unfetched - 1 /\ Doorbells'
  BY <1>2, FetchIndices
<1>4. /\ cq' \in [tail : 0 .. CqSize - 1, phase : {0, 1}, enabled : BOOLEAN]
      /\ intact' \in BOOLEAN /\ lost' \in BOOLEAN /\ (~lost' => intact')
      /\ Posted' = Posted \/ Posted' = Posted + 1
      /\ (cq.phase = hPhase => hHead <= cq.tail)' /\ (cq.phase # hPhase => cq.tail <= hHead)'
      /\ intact' => intact /\ Posted' = Posted
      /\ ~intact' /\ cq'.enabled => visible < Posted'
  <2>1. CASE UNCHANGED <<cq, intact, lost>>
    BY <1>1, <1>2, <2>1 DEF Counts, Posted, TypeOK
  <2>2. CASE intact' = FALSE /\ lost' = TRUE /\ cq' = cq /\ ~cq.enabled
    BY <1>1, <1>2, <2>2 DEF Counts, Posted, TypeOK
  <2>3. CASE intact' = FALSE /\ lost' = TRUE /\ cq' = Advanced
    <3>1. Posted' = Posted + 1
      BY <1>2, <1>3, <2>3, PostIndices DEF Posted
    <3>2. visible < Posted'
      BY <1>1, <3>1, Indices, Distances DEF Counts
    <3> QED BY <1>1, <1>2, <1>3, <2>3, <3>1, <3>2, PostIndices
  <2> QED BY <2>1, <2>2, <2>3
<1>5. TypeOK'
  BY <1>1, <1>2, <1>3, <1>4 DEF TypeOK
<1>6. Counts'
  BY <1>1, <1>2, <1>3, <1>4, Indices, Distances DEF Counts
<1>7. Tags'
  <2>1. \A i \in 0 .. CqSize - 1 : Ahead(i)' = Ahead(i) /\ Tag(i)' = Tag(i)
    BY <1>2 DEF Ahead, Tag
  <2>2. \A i \in 0 .. CqSize - 1 : Posted' <= Ahead(i) => Posted <= Ahead(i)
    BY <1>1, <1>4, Distances
  <2> QED BY <1>1, <1>2, <2>1, <2>2 DEF Tags
<1>8. Heads'
  <2>1. \A h \in 0 .. SqSize - 1 : Back(h)' = Back(h)
    BY <1>2 DEF Back
  <2>2. \A i \in 0 .. CqSize - 1 : Ahead(i)' = Ahead(i)
    BY <1>2 DEF Ahead
  <2>3. (Unfetched <= Back(hSqHead))'
    BY <1>1, <1>2, <1>3, Indices, Distances DEF Heads, Back
  <2>4. ASSUME NEW i \in 0 .. CqSize - 1, (Ahead(i) < visible)'
        PROVE  (Unfetched <= Back(cqMem[i].sq_head) /\ Back(cqMem[i].sq_head) <= Back(hSqHead))'
    BY <1>1, <1>2, <1>3, <2>2, <2>4, Indices, Distances DEF Heads, Back
  <2>5. \A i, j \in 0 .. CqSize - 1 : (Ahead(i) < Ahead(j) /\ Ahead(j) < visible)' =>
          (Back(cqMem[j].sq_head) <= Back(cqMem[i].sq_head))'
    BY <1>1, <1>2, <2>2 DEF Heads, Back
  <2> QED BY <2>3, <2>4, <2>5 DEF Heads
<1> QED BY <1>3, <1>5, <1>6, <1>7, <1>8 DEF IInv

(* A command whose completion is written.                                  *)
LEMMA AnsweredInv ==
  ASSUME IInv, Execute, NEW c \in Cmd, cq.enabled, cq' = Advanced, UNCHANGED <<intact, lost>>,
         visible' = (IF intact THEN visible + 1 ELSE visible),
         cqMem' = [cqMem EXCEPT ![cq.tail] =
           [cmd |-> c, sq_head |-> NextIndex(sq.head, SqSize), phase |-> cq.phase]]
  PROVE  IInv'
<1>1. TypeOK /\ Doorbells /\ Counts /\ Tags /\ Heads
  BY DEF IInv
<1>2. /\ sq' = [sq EXCEPT !.head = NextIndex(sq.head, SqSize)] /\ sq.head # sq.tail
      /\ UNCHANGED <<sqMem, hTail, hSqHead, hHead, hPhase, outstanding, aers, bell, busy>>
  BY DEF Execute, host
<1>3. /\ sq'.head = NextIndex(sq.head, SqSize) /\ sq'.head \in 0 .. SqSize - 1
      /\ sq' \in [head : 0 .. SqSize - 1, tail : 0 .. SqSize - 1, enabled : BOOLEAN]
      /\ Unfetched >= 1 /\ Unfetched' = Unfetched - 1 /\ Doorbells'
  BY <1>2, FetchIndices
<1>4. /\ Posted \in 0 .. CqSize - 1 /\ Posted' = Posted + 1
      /\ Ahead(cq.tail) = Posted /\ Tag(cq.tail) = cq.phase
      /\ cq' \in [tail : 0 .. CqSize - 1, phase : {0, 1}, enabled : BOOLEAN]
      /\ cq'.enabled = cq.enabled
      /\ (cq.phase = hPhase => hHead <= cq.tail)' /\ (cq.phase # hPhase => cq.tail <= hHead)'
  BY <1>2, <1>3, PostIndices DEF Posted
<1> DEFINE e == [cmd |-> c, sq_head |-> NextIndex(sq.head, SqSize), phase |-> cq.phase]
<1>5. e \in Cqe /\ e.phase = cq.phase /\ e.sq_head = sq'.head
  BY <1>1, <1>3, Indices DEF Cqe
<1>6. cqMem' \in [0 .. CqSize - 1 -> Cqe]
  BY <1>1, <1>5 DEF TypeOK
<1>7. \A i \in 0 .. CqSize - 1 : cqMem'[i] = IF i = cq.tail THEN e ELSE cqMem[i]
  BY <1>1 DEF TypeOK
<1> HIDE DEF e
<1>8. \A i \in 0 .. CqSize - 1 : Ahead(i)' = Ahead(i) /\ Tag(i)' = Tag(i) /\ Ahead(i) \in Nat
  BY <1>1, <1>2, Distances DEF Ahead, Tag
<1>9. \A i \in 0 .. CqSize - 1 : i # cq.tail => Ahead(i) # Posted
  BY <1>1, <1>4, Indices, DistApart DEF Ahead
<1>10. /\ visible' \in Nat /\ visible' <= Posted'
       /\ intact => visible = Posted /\ visible' = Posted'
       /\ ~intact => visible' = visible /\ visible < Posted
  BY <1>1, <1>4, Indices, Distances DEF Counts
<1>11. TypeOK'
  BY <1>1, <1>2, <1>3, <1>4, <1>6, <1>10 DEF TypeOK
<1>12. Counts'
  BY <1>1, <1>2, <1>3, <1>4, <1>10, Indices, Distances DEF Counts
<1>13. ASSUME NEW i \in 0 .. CqSize - 1, i # cq.tail, Ahead(i) < visible'
       PROVE  Ahead(i) < visible /\ Ahead(i) < Posted
  BY <1>1, <1>4, <1>8, <1>9, <1>10, <1>13, Indices DEF Counts
<1>14. Tags'
  <2>1. ASSUME NEW i \in 0 .. CqSize - 1, i = cq.tail
        PROVE  /\ (Ahead(i) < visible)' => (cqMem[i].phase = Tag(i))'
               /\ ~(Ahead(i) = visible \/ Posted <= Ahead(i))'
    <3>1. cqMem'[i].phase = Tag(i)'
      BY <1>4, <1>5, <1>7, <1>8, <2>1
    <3>2. ~(Ahead(i) = visible \/ Posted <= Ahead(i))'
      BY <1>1, <1>4, <1>8, <1>10, <2>1, Indices
    <3> QED BY <3>1, <3>2
  <2>2. ASSUME NEW i \in 0 .. CqSize - 1, i # cq.tail
        PROVE  /\ (Ahead(i) < visible)' => (cqMem[i].phase = Tag(i))'
               /\ (Ahead(i) = visible \/ Posted <= Ahead(i))' => (cqMem[i].phase # Tag(i))'
    <3>1. cqMem'[i] = cqMem[i]
      BY <1>7, <2>2
    <3>2. (Ahead(i) = visible \/ Posted <= Ahead(i))' => Ahead(i) = visible \/ Posted <= Ahead(i)
      BY <1>1, <1>4, <1>8, <1>10, <2>2, Indices
    <3> QED BY <1>1, <1>8, <1>13, <2>2, <3>1, <3>2 DEF Tags
  <2> QED BY <2>1, <2>2 DEF Tags
<1>15. Heads'
  <2>1. \A i \in 0 .. CqSize - 1 : i # cq.tail => Back(cqMem[i].sq_head)' = Back(cqMem[i].sq_head)
    BY <1>2, <1>7 DEF Back
  <2>2. ASSUME NEW i \in 0 .. CqSize - 1, i = cq.tail PROVE Back(cqMem[i].sq_head)' = Unfetched'
    BY <1>5, <1>7, <2>2 DEF Back, Unfetched
  <2>3. Back(hSqHead)' = Back(hSqHead)
    BY <1>2 DEF Back
  <2>4. \A i \in 0 .. CqSize - 1 : Back(cqMem[i].sq_head) \in Nat
    BY <1>1, Indices, Distances
  <2>5. (Unfetched <= Back(hSqHead))'
    BY <1>1, <1>3, <2>3, Indices, Distances DEF Heads
  <2>6. ASSUME NEW i \in 0 .. CqSize - 1, (Ahead(i) < visible)'
        PROVE  (Unfetched <= Back(cqMem[i].sq_head) /\ Back(cqMem[i].sq_head) <= Back(hSqHead))'
    <3>1. CASE i = cq.tail
      BY <1>1, <1>3, <2>2, <2>5, <3>1, Distances
    <3>2. CASE i # cq.tail
      BY <1>1, <1>3, <1>8, <1>13, <2>1, <2>3, <2>4, <2>6, <3>2, Indices, Distances DEF Heads
    <3> QED BY <3>1, <3>2
  <2>7. ASSUME NEW i \in 0 .. CqSize - 1, NEW j \in 0 .. CqSize - 1,
               (Ahead(i) < Ahead(j) /\ Ahead(j) < visible)'
        PROVE  (Back(cqMem[j].sq_head) <= Back(cqMem[i].sq_head))'
    <3>1. i # cq.tail
      BY <1>1, <1>4, <1>8, <1>9, <1>10, <2>7, Indices
    <3>2. Ahead(i) < visible
      BY <1>8, <1>10, <1>13, <2>7, <3>1
    <3>3. CASE j = cq.tail
      BY <1>1, <1>3, <2>1, <2>2, <2>4, <3>1, <3>2, <3>3, Distances DEF Heads
    <3>4. CASE j # cq.tail
      <4>1. Ahead(i) < Ahead(j) /\ Ahead(j) < visible
        BY <1>8, <1>13, <2>7, <3>4
      <4> QED BY <1>1, <2>1, <3>1, <3>4, <4>1 DEF Heads
    <3> QED BY <3>3, <3>4
  <2> QED BY <2>5, <2>6, <2>7 DEF Heads
<1> QED BY <1>3, <1>11, <1>12, <1>14, <1>15 DEF IInv

(* The loop executes a command.                                            *)
LEMMA ExecuteInv ==
  ASSUME IInv, Execute
  PROVE  IInv'
<1> DEFINE c == sqMem[sq.head]
           head == NextIndex(sq.head, SqSize)
<1>1. c \in Cmd
  BY Indices DEF IInv, TypeOK
<1>2. CASE c \in Aer
  BY <1>2, UnansweredInv DEF Execute
<1>3. CASE c \notin Aer
  <2>1. nvme_post_cqe(c, head)
    BY <1>3 DEF Execute
  <2>2. CASE ~cq.enabled
    BY <2>1, <2>2, UnansweredInv DEF nvme_post_cqe
  <2>3. CASE cq.enabled
    <3>1. CASE /\ intact' = FALSE /\ lost' = TRUE /\ cq' = Advanced
               /\ UNCHANGED <<cqMem, visible>>
      BY <3>1, UnansweredInv
    <3>2. CASE /\ cq' = Advanced /\ UNCHANGED <<intact, lost>>
               /\ cqMem' = [cqMem EXCEPT ![cq.tail] =
                              [cmd |-> c, sq_head |-> head, phase |-> cq.phase]]
               /\ visible' = IF intact THEN visible + 1 ELSE visible
      <4> HIDE DEF c
      <4> QED BY <1>1, <2>3, <3>2, AnsweredInv
    <3> QED BY <2>1, <2>3, <3>1, <3>2 DEF nvme_post_cqe
  <2> QED BY <2>2, <2>3
<1> QED BY <1>2, <1>3

(* No step leaves it.                                                      *)
LEMMA NextInv == IInv /\ [Next]_vars => IInv'
<1> SUFFICES ASSUME IInv, [Next]_vars PROVE IInv'
  OBVIOUS
<1>1. ASSUME NEW c \in Cmd, Submit(c) PROVE IInv'
  BY <1>1, SubmitInv
<1>2. CASE RingDoorbell \/ TakeDoorbell
  BY <1>2, DoorbellInv
<1>3. CASE Read
  BY <1>3, ReadInv
<1>4. CASE Restart
  BY <1>4, RestartInv
<1>5. CASE Execute
  BY <1>5, ExecuteInv
<1>6. CASE LoopEnds \/ FetchFails \/ DeleteCq \/ nvme_queues_down
  BY <1>6, FlagsInv
<1>7. CASE UNCHANGED vars
  <2>1. TypeOK'
    BY <1>7 DEF vars, host, TypeOK, IInv
  <2> QED BY <1>7, <2>1, SameIndicesInv DEF vars, host
<1>8. CASE nvme_admin_create_cq
  BY <1>8, CreateCqInv
<1> QED BY <1>1, <1>2, <1>3, <1>4, <1>5, <1>6, <1>7, <1>8 DEF Next, Device

(* The invariant holds throughout.                                         *)
LEMMA Invariance == Spec => []IInv
BY InitInv, NextInv, PTL DEF Spec

-----------------------------------------------------------------------------
(* Every variable keeps its type and every index its ring, for every size  *)
(* of the rings and with every fault.                                      *)
THEOREM TypeCorrect == Spec => []TypeOK
<1>1. IInv => TypeOK
  BY DEF IInv
<1> QED BY <1>1, Invariance, PTL

(* nvme_post_cqe never writes over a completion the host has not read, and *)
(* the phase tag is right, as long as the host keeps its window.           *)
THEOREM NeverOverrun == Spec => []NoOverrun
<1>1. ASSUME IInv PROVE NoOverrun
  <2>1. Posted \in 0 .. Window
    BY <1>1, Indices, Distances DEF IInv, Counts
  <2>2. ASSUME sq.head # sq.tail PROVE Posted < CqSize
    <3>1. Dist(sq.head, sq.tail, SqSize) \in Nat /\ Dist(sq.head, sq.tail, SqSize) # 0
      BY <1>1, <2>2, Indices, DistApart, DistType DEF IInv
    <3>2. Unfetched >= 1
      BY <1>1, <3>1, Distances DEF IInv, Doorbells
    <3> QED BY <1>1, <3>2, PostIndices, Indices DEF IInv
  <2> QED BY <1>1, <2>1, <2>2, TagTells DEF NoOverrun
<1> QED BY <1>1, Invariance, PTL

(* A host that reuses submission entries up to the reported head never     *)
(* writes over one the device has yet to fetch.                            *)
THEOREM ReportedHeadSafe == Spec => []ReportedHeadIsPast
<1>1. IInv => ReportedHeadIsPast
  BY DEF IInv, Heads, ReportedHeadIsPast, Back, Ahead
<1> QED BY <1>1, Invariance, PTL

-----------------------------------------------------------------------------
(* The refinement.                                                         *)

(* The k-th entry from an index is k - 1 away from it, and conversely.     *)
LEMMA SlotDist ==
  ASSUME NEW n \in Nat \ {0}, NEW a \in 0 .. n - 1, NEW b \in 0 .. n - 1, NEW k \in 1 .. n
  PROVE  /\ Slot(a, Dist(a, b, n) + 1, n) = b
         /\ Slot(a, k, n) \in 0 .. n - 1
         /\ Dist(a, Slot(a, k, n), n) = k - 1
BY DEF Slot, Dist

(* An empty stretch of a ring is the empty sequence.                       *)
LEMMA RingEmpty ==
  ASSUME NEW f, NEW h, NEW n
  PROVE  Ring(f, h, 0, n) = << >>
BY DEF Ring

Cmds == [i \in 0 .. CqSize - 1 |-> cqMem[i].cmd]

(* The answers' ring as a ring of commands.                                *)
LEMMA CmdsType ==
  ASSUME TypeOK
  PROVE  Cmds \in [0 .. CqSize - 1 -> Cmd] /\ Answers = Ring(Cmds, hHead, visible, CqSize)
<1>1. \A i \in 0 .. CqSize - 1 : cqMem[i].cmd \in Cmd
  BY DEF TypeOK, Cqe
<1> QED BY <1>1 DEF Cmds, Answers

(* Steps that the host and the abstract queue do not see.                  *)
LEMMA Invisible ==
  ASSUME sq.head' = sq.head, UNCHANGED <<sqMem, cqMem, hTail, hHead, intact, lost, visible>>
  PROVE  UNCHANGED <<Todo, Answers, intact>>
<1>1. Unfetched' = Unfetched
  BY DEF Unfetched
<1> QED BY <1>1 DEF Todo, Answers, Ring

(* A submission is appended to the commands.                               *)
LEMMA SubmitRefines ==
  ASSUME IInv, NEW c \in Cmd, Submit(c)
  PROVE  Fifo!Submit(c)
<1>1. TypeOK /\ Heads
  BY DEF IInv
<1>2. /\ sqMem' = [sqMem EXCEPT ![hTail] = c] /\ hTail' = NextIndex(hTail, SqSize)
      /\ NextIndex(hTail, SqSize) # hSqHead
      /\ UNCHANGED <<cqMem, hHead, sq, intact, lost, visible>>
  BY DEF Submit
<1>3. Dist(sq.head, hTail, SqSize) < SqSize - 1
  <2>1. Back(hSqHead) < SqSize - 1
    BY <1>1, <1>2, Indices, DistFull DEF Back
  <2>2. Unfetched < SqSize - 1
    BY <1>1, <2>1, Indices, Distances DEF Heads
  <2> QED BY <2>2 DEF Unfetched
<1>4. Unfetched' = Unfetched + 1 /\ Unfetched \in 0 .. SqSize - 1
  <2>1. Unfetched' = Unfetched + 1
    BY <1>1, <1>2, <1>3, Indices, DistGrows DEF Unfetched
  <2> QED BY <1>1, <2>1, Distances
<1>5. Slot(sq.head, Unfetched + 1, SqSize) = hTail
  BY <1>1, Indices, SlotDist DEF Unfetched
<1>6. sqMem \in [0 .. SqSize - 1 -> Cmd]
  BY <1>1 DEF TypeOK
<1>7. Ring([sqMem EXCEPT ![hTail] = c], sq.head, Unfetched + 1, SqSize)
        = Append(Ring(sqMem, sq.head, Unfetched, SqSize), c)
  BY <1>1, <1>4, <1>5, <1>6, Indices, RingAppend
<1>8. Todo' = Append(Todo, c)
  BY <1>2, <1>4, <1>7 DEF Todo
<1>9. Answers' = Answers
  BY <1>2 DEF Answers, Ring
<1> QED BY <1>2, <1>8, <1>9 DEF Fifo!Submit

(* Reading a completion takes the first answer.                            *)
LEMMA ReadRefines ==
  ASSUME IInv, Read
  PROVE  Fifo!Read
<1>1. TypeOK /\ Counts
  BY DEF IInv
<1>2. /\ cqMem[hHead].phase = hPhase /\ hHead' = NextIndex(hHead, CqSize)
      /\ visible' = visible - 1 /\ UNCHANGED <<sqMem, cqMem, hTail, sq, intact>>
  BY DEF Read
<1>3. visible \in 1 .. CqSize
  BY <1>1, <1>2, TagTells, Indices, Distances, WindowAssumption DEF Counts
<1>4. /\ Answers # << >>
      /\ Tail(Answers) = Ring(Cmds, NextIndex(hHead, CqSize), visible - 1, CqSize)
  <2>1. Cmds \in [0 .. CqSize - 1 -> Cmd] /\ Answers = Ring(Cmds, hHead, visible, CqSize)
    BY <1>1, CmdsType
  <2>2. hHead \in 0 .. CqSize - 1 /\ CqSize \in Nat \ {0}
    BY <1>1, Indices
  <2> QED BY <1>3, <2>1, <2>2, RingTail
<1>5. Answers' = Ring(Cmds, NextIndex(hHead, CqSize), visible - 1, CqSize)
  BY <1>2 DEF Answers, Cmds
<1>6. Todo' = Todo
  BY <1>2 DEF Todo, Ring, Unfetched
<1> QED BY <1>2, <1>4, <1>5, <1>6 DEF Fifo!Read

(* Executing a command takes it from the commands and appends its answer,  *)
(* unless it is an event request or the answer is lost.                    *)
LEMMA ExecuteRefines ==
  ASSUME IInv, Execute
  PROVE  Fifo!Execute
<1> DEFINE c == sqMem[sq.head]
           head == NextIndex(sq.head, SqSize)
<1>1. TypeOK /\ Counts
  BY DEF IInv
<1>2. /\ sq' = [sq EXCEPT !.head = head] /\ sq.head # sq.tail
      /\ UNCHANGED <<sqMem, hTail, hSqHead, hHead, hPhase, outstanding, aers, bell, busy>>
  BY DEF Execute, host
<1>3. sq'.head = head /\ Unfetched >= 1 /\ Unfetched' = Unfetched - 1
  BY <1>2, FetchIndices
<1>4. sqMem \in [0 .. SqSize - 1 -> Cmd] /\ Unfetched \in 1 .. SqSize /\ c \in Cmd
  <2>1. Unfetched \in 1 .. SqSize
    BY <1>1, <1>3, Indices, Distances
  <2> QED BY <1>1, <2>1, Indices DEF TypeOK
<1>5. Todo # << >> /\ Head(Todo) = c /\ Tail(Todo) = Ring(sqMem, head, Unfetched - 1, SqSize)
  BY <1>1, <1>4, Indices, RingTail DEF Todo
<1>6. Todo' = Tail(Todo)
  BY <1>2, <1>3, <1>5 DEF Todo
<1>7. Fifo!Answer(c)
  <2>1. CASE c \in Aer
    <3>1. UNCHANGED <<cqMem, intact, lost, visible>>
      BY <2>1 DEF Execute
    <3>2. Answers' = Answers
      BY <1>2, <3>1 DEF Answers, Ring
    <3> QED BY <2>1, <3>1, <3>2 DEF Fifo!Answer
  <2>2. CASE c \notin Aer /\ intact' = FALSE /\ UNCHANGED <<cqMem, visible>>
    <3>1. Answers' = Answers
      BY <1>2, <2>2 DEF Answers, Ring
    <3> QED BY <2>2, <3>1 DEF Fifo!Answer
  <2>3. CASE /\ c \notin Aer /\ cq.enabled /\ UNCHANGED <<intact, lost>>
             /\ cqMem' = [cqMem EXCEPT ![cq.tail] =
                            [cmd |-> c, sq_head |-> head, phase |-> cq.phase]]
             /\ visible' = IF intact THEN visible + 1 ELSE visible
    <3>1. Posted \in 0 .. CqSize - 1 /\ Dist(hHead, cq.tail, CqSize) = Posted
      BY <1>3, PostIndices DEF Ahead
    <3>2. cq.tail \in 0 .. CqSize - 1 /\ hHead \in 0 .. CqSize - 1 /\ CqSize \in Nat \ {0}
      BY <1>1, Indices
    <3>3. Cmds' = [Cmds EXCEPT ![cq.tail] = c]
      <4>1. \A i \in 0 .. CqSize - 1 : cqMem'[i].cmd = IF i = cq.tail THEN c ELSE cqMem[i].cmd
        BY <1>1, <2>3 DEF TypeOK
      <4> HIDE DEF c
      <4> QED BY <3>2, <4>1 DEF Cmds
    <3>4. Answers' = Ring(Cmds', hHead, visible', CqSize)
      BY <1>2 DEF Answers, Cmds
    <3>5. Cmds \in [0 .. CqSize - 1 -> Cmd] /\ Answers = Ring(Cmds, hHead, visible, CqSize)
      BY <1>1, CmdsType
    <3>6. CASE intact
      <4>1. visible = Posted /\ visible' = visible + 1 /\ visible \in 0 .. CqSize - 1
        BY <1>1, <2>3, <3>1, <3>6 DEF Counts
      <4>2. Slot(hHead, visible + 1, CqSize) = cq.tail
        BY <3>1, <3>2, <4>1, SlotDist
      <4> HIDE DEF c
      <4>3. Ring([Cmds EXCEPT ![cq.tail] = c], hHead, visible + 1, CqSize)
              = Append(Ring(Cmds, hHead, visible, CqSize), c)
        <5>1. c \in Cmd
          BY <1>4
        <5>2. Ring([Cmds EXCEPT ![Slot(hHead, visible + 1, CqSize)] = c], hHead, visible + 1, CqSize)
                = Append(Ring(Cmds, hHead, visible, CqSize), c)
          BY <3>2, <3>5, <4>1, <5>1, RingAppend
        <5> QED BY <4>2, <5>2
      <4>4. Answers' = Append(Answers, c)
        BY <3>3, <3>4, <3>5, <4>1, <4>3
      <4> QED BY <2>3, <3>6, <4>4 DEF Fifo!Answer
    <3>7. CASE ~intact
      <4>1. visible < Posted /\ visible' = visible /\ visible \in Nat
        BY <1>1, <2>3, <3>7, Indices DEF Counts
      <4>2. \A k \in 1 .. visible : Slot(hHead, k, CqSize) \in 0 .. CqSize - 1
                                     /\ Slot(hHead, k, CqSize) # cq.tail
        <5> SUFFICES ASSUME NEW k \in 1 .. visible
                     PROVE  Slot(hHead, k, CqSize) \in 0 .. CqSize - 1 /\ Slot(hHead, k, CqSize) # cq.tail
          OBVIOUS
        <5>1. k \in 1 .. CqSize /\ k - 1 # Posted
          BY <3>1, <3>2, <4>1
        <5>2. /\ Slot(hHead, k, CqSize) \in 0 .. CqSize - 1
              /\ Dist(hHead, Slot(hHead, k, CqSize), CqSize) = k - 1
          BY <3>2, <5>1, SlotDist
        <5> QED BY <3>1, <5>1, <5>2
      <4> HIDE DEF c
      <4>3. \A k \in 1 .. visible : Cmds'[Slot(hHead, k, CqSize)] = Cmds[Slot(hHead, k, CqSize)]
        BY <3>3, <3>5, <4>2
      <4>4. Answers' = Answers
        BY <3>4, <3>5, <4>1, <4>3 DEF Ring
      <4>5. intact' = FALSE
        BY <1>1, <2>3, <3>7 DEF TypeOK
      <4> QED BY <2>3, <4>4, <4>5 DEF Fifo!Answer
    <3> QED BY <3>6, <3>7
  <2> QED BY <2>1, <2>2, <2>3 DEF Execute, nvme_post_cqe
<1> QED BY <1>5, <1>6, <1>7 DEF Fifo!Execute

(* Creating the queues again empties both.                                 *)
LEMMA RestartRefines ==
  ASSUME Restart
  PROVE  Fifo!Restart
<1>1. sq'.head = 0 /\ hTail' = 0 /\ visible' = 0 /\ intact' = TRUE
  BY DEF Restart, NewSq
<1>2. Unfetched' = 0
  BY <1>1 DEF Unfetched, Dist
<1>3. Todo' = << >> /\ Answers' = << >>
  BY <1>1, <1>2, RingEmpty DEF Todo, Answers
<1> QED BY <1>1, <1>3 DEF Fifo!Restart

(* Creating the completion queue again drops the answers in it.            *)
LEMMA CreateCqRefines ==
  ASSUME nvme_admin_create_cq
  PROVE  Fifo!Renew
<1>1. visible' = 0 /\ intact' = TRUE /\ UNCHANGED <<sqMem, sq, hTail>>
  BY DEF nvme_admin_create_cq
<1>2. Todo' = Todo
  BY <1>1 DEF Todo, Ring, Unfetched
<1>3. Answers' = << >>
  BY <1>1, RingEmpty DEF Answers
<1> QED BY <1>1, <1>2, <1>3 DEF Fifo!Renew

(* The rings, indices, doorbells and tags implement CommandFifo: whatever  *)
(* the sizes and the faults, commands are executed once each and in order, *)
(* and the host reads their answers once each and in order.                *)
THEOREM ImplementsFifo == Spec => FifoSpec
<1>1. ASSUME Init PROVE Fifo!Empty
  <2>1. sq.head = 0 /\ hTail = 0 /\ visible = 0 /\ intact = TRUE
    BY <1>1 DEF Init, NewSq
  <2>2. Unfetched = 0
    BY <2>1 DEF Unfetched, Dist
  <2> QED BY <2>1, <2>2, RingEmpty DEF Fifo!Empty, Todo, Answers
<1>2. ASSUME IInv, [Next]_vars PROVE [Fifo!Next]_(Fifo!vars)
  <2>1. ASSUME NEW c \in Cmd, Submit(c) PROVE Fifo!Next
    BY <1>2, <2>1, SubmitRefines DEF Fifo!Next
  <2>2. CASE Read
    BY <1>2, <2>2, ReadRefines DEF Fifo!Next
  <2>3. CASE Restart
    BY <2>3, RestartRefines DEF Fifo!Next
  <2>4. CASE Execute
    BY <1>2, <2>4, ExecuteRefines DEF Fifo!Next
  <2>5. CASE RingDoorbell \/ LoopEnds \/ FetchFails \/ DeleteCq \/ UNCHANGED vars
    BY <2>5, Invisible DEF RingDoorbell, LoopEnds, FetchFails, DeleteCq, vars, host, Fifo!vars
  <2>6. CASE TakeDoorbell \/ nvme_queues_down
    <3>1. sq'.head = sq.head
      BY <1>2, <2>6 DEF IInv, TypeOK, TakeDoorbell, nvme_queues_down
    <3> QED BY <2>6, <3>1, Invisible DEF TakeDoorbell, nvme_queues_down, host, Fifo!vars
  <2>7. CASE nvme_admin_create_cq
    BY <2>7, CreateCqRefines DEF Fifo!Next
  <2> QED BY <1>2, <2>1, <2>2, <2>3, <2>4, <2>5, <2>6, <2>7 DEF Next, Device
<1> QED BY <1>1, <1>2, Invariance, PTL DEF Spec, FifoSpec, Fifo!Spec
-----------------------------------------------------------------------------
(* Event requests, which are never answered.                               *)

(* The entries that the host counts as used and that hold event requests.  *)
Used(i) == 1 <= Back(i) /\ Back(i) <= Back(hSqHead)
AerEntries == {i \in 0 .. SqSize - 1 : Used(i) /\ sqMem[i] \in Aer}

(* They are among the event requests that the host has counted.            *)
EventsCounted == Cardinality(AerEntries) <= aers

(* An entry that the device has fetched, and that no completion on its way *)
(* will free, holds an event request.                                      *)
Unfreed(i) ==
  /\ Unfetched < Back(i) /\ Back(i) <= Back(hSqHead)
  /\ \A j \in 0 .. CqSize - 1 : Ahead(j) < visible => Back(i) <= Back(cqMem[j].sq_head)
HeldByEvents == ~lost => \A i \in 0 .. SqSize - 1 : Unfreed(i) => sqMem[i] \in Aer

Events == EventsCounted /\ HeldByEvents

(* Two entries at the same distance are the same.                          *)
LEMMA DistBackApart ==
  ASSUME NEW n \in Nat \ {0}, NEW a \in 0 .. n - 1, NEW b \in 0 .. n - 1, NEW c \in 0 .. n - 1,
         Dist(b, a, n) = Dist(c, a, n)
  PROVE  b = c
BY DEF Dist

LEMMA AerEntriesFinite == IsFiniteSet(AerEntries) /\ Cardinality(AerEntries) \in Nat
<1>1. IsFiniteSet(0 .. SqSize - 1)
  BY FS_Interval, WindowAssumption
<1>2. AerEntries \in SUBSET (0 .. SqSize - 1)
  BY DEF AerEntries
<1>3. IsFiniteSet(AerEntries)
  BY <1>1, <1>2, FS_Subset
<1> QED BY <1>3, FS_CardinalityType

(* Fewer entries, and no fewer requests.                                   *)
LEMMA CountedStays ==
  ASSUME EventsCounted, TypeOK, aers' \in Nat, aers' >= aers, AerEntries' \subseteq AerEntries
  PROVE  EventsCounted'
<1>1. IsFiniteSet(AerEntries) /\ Cardinality(AerEntries) \in Nat
  BY AerEntriesFinite
<1>2. IsFiniteSet(AerEntries') /\ Cardinality(AerEntries') <= Cardinality(AerEntries)
  BY <1>1, FS_Subset
<1>3. Cardinality(AerEntries') \in Nat
  BY <1>2, FS_CardinalityType
<1>4. aers \in Nat /\ Cardinality(AerEntries) <= aers
  BY DEF TypeOK, EventsCounted
<1>5. Cardinality(AerEntries') <= aers'
  BY <1>1, <1>2, <1>3, <1>4
<1> QED BY <1>5 DEF EventsCounted

LEMMA EventsInit == ASSUME Init PROVE Events
<1>1. TypeOK
  BY InitInv DEF IInv
<1>2. hTail = 0 /\ hSqHead = 0 /\ Back(hSqHead) = 0 /\ aers = 0
  BY DEF Init, Back, Dist
<1>3. \A i \in 0 .. SqSize - 1 : Back(i) \in Nat
  BY <1>1, Distances
<1>4. AerEntries = {}
  BY <1>2, <1>3 DEF AerEntries, Used
<1>5. EventsCounted
  BY <1>2, <1>4, FS_EmptySet DEF EventsCounted
<1>6. HeldByEvents
  <2>1. Unfetched \in Nat
    BY <1>1, Distances
  <2> QED BY <1>2, <1>3, <2>1 DEF HeldByEvents, Unfreed
<1> QED BY <1>5, <1>6 DEF Events

(* The host fills the entry at its tail, and all others move back by one.  *)
LEMMA EventsSubmit ==
  ASSUME IInv, Events, NEW c \in Cmd, Submit(c)
  PROVE  Events'
<1>1. TypeOK /\ Heads /\ EventsCounted /\ HeldByEvents
  BY DEF IInv, Events
<1>2. /\ hTail' = NextIndex(hTail, SqSize) /\ NextIndex(hTail, SqSize) # hSqHead
      /\ sqMem' = [sqMem EXCEPT ![hTail] = c] /\ aers' = IF c \in Aer THEN aers + 1 ELSE aers
      /\ UNCHANGED <<cqMem, hSqHead, hHead, hPhase, bell, sq, cq, busy, intact, lost, visible>>
  BY DEF Submit
<1>3. Back(hSqHead) < SqSize - 1
  BY <1>1, <1>2, Indices, DistFull DEF Back
<1>4. ASSUME NEW i \in 0 .. SqSize - 1
      PROVE  \/ Back(i) < SqSize - 1 /\ Back(i)' = Back(i) + 1
             \/ Back(i) = SqSize - 1 /\ Back(i)' = 0
  <2>1. hTail' = IF hTail + 1 = SqSize THEN 0 ELSE hTail + 1
    BY <1>1, <1>2, Indices, NextIndexIs
  <2> QED BY <1>1, <2>1, Indices DEF Back, Dist
<1>5. Back(hSqHead)' = Back(hSqHead) + 1
  BY <1>1, <1>2, <1>3, <1>4, Indices
<1>6. Unfetched' = Unfetched + 1
  <2>1. Unfetched = Back(sq.head) /\ Unfetched' = Dist(sq.head, hTail', SqSize)
    BY <1>2 DEF Unfetched, Back
  <2>2. Back(sq.head) <= Back(hSqHead) /\ Back(sq.head) \in Nat /\ Back(hSqHead) \in Nat
    BY <1>1, <2>1, Indices, Distances DEF Heads
  <2>3. Dist(sq.head, hTail', SqSize) = Back(sq.head) + 1
    BY <1>1, <1>3, <1>4, <2>2, Indices DEF Back
  <2> QED BY <2>1, <2>3
<1>7. ASSUME NEW i \in 0 .. SqSize - 1
      PROVE  Back(i) \in Nat /\ (Back(i) = 0 <=> i = hTail)
  BY <1>1, Indices DEF Back, Dist
<1>8. Unfetched \in Nat /\ Back(hSqHead) \in Nat /\ SqSize \in Nat
  BY <1>1, Indices, Distances
<1>9. sqMem \in [0 .. SqSize - 1 -> Cmd]
  BY <1>1 DEF TypeOK
<1>10. ASSUME NEW h \in 0 .. SqSize - 1, Back(h) <= Back(hSqHead)
       PROVE  Dist(h, hTail', SqSize) = Back(h) + 1
  <2>1. Dist(h, hTail, SqSize) < SqSize - 1
    BY <1>3, <1>7, <1>8, <1>10 DEF Back
  <2> QED BY <1>1, <1>2, <2>1, Indices, DistGrows DEF Back
<1>11. EventsCounted'
  <2>1. AerEntries' \subseteq AerEntries \union (IF c \in Aer THEN {hTail} ELSE {})
    <3> SUFFICES ASSUME NEW i \in 0 .. SqSize - 1, Used(i)', sqMem'[i] \in Aer, i \notin AerEntries
                 PROVE  c \in Aer /\ i = hTail
      BY DEF AerEntries
    <3>1. 1 <= Back(i)' /\ Back(i)' <= Back(hSqHead) + 1
      BY <1>5 DEF Used
    <3>2. Back(i)' = Back(i) + 1 /\ Back(i) <= Back(hSqHead)
      BY <1>4, <1>7, <1>8, <3>1
    <3>3. CASE i = hTail
      BY <1>2, <1>9, <3>3
    <3>4. CASE i # hTail
      <4>1. Used(i)
        BY <1>7, <3>2, <3>4 DEF Used
      <4>2. sqMem'[i] = sqMem[i]
        BY <1>2, <1>9, <3>4
      <4> QED BY <4>1, <4>2 DEF AerEntries
    <3> QED BY <3>3, <3>4
  <2>2. aers \in Nat
    BY <1>1 DEF TypeOK
  <2>3. CASE c \notin Aer
    BY <1>1, <1>2, <2>1, <2>2, <2>3, CountedStays
  <2>4. CASE c \in Aer
    <3> DEFINE more == AerEntries \union {hTail}
    <3>1. IsFiniteSet(AerEntries) /\ Cardinality(AerEntries) \in Nat
      BY AerEntriesFinite
    <3>2. IsFiniteSet(more) /\ Cardinality(more) <= Cardinality(AerEntries) + 1
      <4>1. /\ IsFiniteSet(AerEntries \union {hTail})
            /\ Cardinality(AerEntries \union {hTail})
                 = IF hTail \in AerEntries THEN Cardinality(AerEntries) ELSE Cardinality(AerEntries) + 1
        BY <3>1, FS_AddElement
      <4> QED BY <3>1, <4>1
    <3>3. AerEntries' \in SUBSET more
      BY <2>1, <2>4
    <3> HIDE DEF more
    <3>4. IsFiniteSet(AerEntries') /\ Cardinality(AerEntries') <= Cardinality(more)
      BY <3>2, <3>3, FS_Subset
    <3>5. Cardinality(AerEntries') \in Nat /\ Cardinality(more) \in Nat
      BY <3>2, <3>4, FS_CardinalityType
    <3>6. Cardinality(AerEntries) <= aers /\ aers' = aers + 1
      BY <1>1, <1>2, <2>4 DEF EventsCounted
    <3>7. Cardinality(AerEntries') <= aers'
      BY <2>2, <3>1, <3>2, <3>4, <3>5, <3>6
    <3> QED BY <3>7 DEF EventsCounted
  <2> QED BY <2>3, <2>4
<1>12. HeldByEvents'
  <2> SUFFICES ASSUME ~lost, NEW i \in 0 .. SqSize - 1, Unfreed(i)'
               PROVE  sqMem'[i] \in Aer
    BY <1>2 DEF HeldByEvents
  <2>1. Unfetched + 1 < Back(i)' /\ Back(i)' <= Back(hSqHead) + 1
    BY <1>5, <1>6 DEF Unfreed
  <2>2. Back(i)' = Back(i) + 1
    BY <1>4, <1>8, <2>1
  <2>3. Unfetched < Back(i) /\ Back(i) <= Back(hSqHead) /\ i # hTail
    BY <1>7, <1>8, <2>1, <2>2
  <2>4. ASSUME NEW j \in 0 .. CqSize - 1, Ahead(j) < visible
        PROVE  Back(i) <= Back(cqMem[j].sq_head)
    <3>1. Back(i)' <= Back(cqMem[j].sq_head)'
      BY <1>2, <2>4 DEF Unfreed, Ahead
    <3>2. cqMem[j].sq_head \in 0 .. SqSize - 1 /\ cqMem'[j].sq_head = cqMem[j].sq_head
      BY <1>1, <1>2, Indices
    <3>3. Back(cqMem[j].sq_head)' = Dist(cqMem[j].sq_head, hTail', SqSize)
      BY <3>2 DEF Back
    <3>4. Back(cqMem[j].sq_head) <= Back(hSqHead)
      BY <1>1, <2>4 DEF Heads
    <3>5. Dist(cqMem[j].sq_head, hTail', SqSize) = Back(cqMem[j].sq_head) + 1
      BY <1>10, <3>2, <3>4
    <3> QED BY <1>7, <2>2, <3>1, <3>2, <3>3, <3>5
  <2>5. sqMem[i] \in Aer
    BY <1>1, <2>3, <2>4 DEF HeldByEvents, Unfreed
  <2> QED BY <1>2, <1>9, <2>3, <2>5
<1> QED BY <1>11, <1>12 DEF Events

(* The host takes a completion: the entries before its head are free.      *)
LEMMA EventsRead ==
  ASSUME IInv, Events, Read
  PROVE  Events'
<1>1. TypeOK /\ Heads /\ EventsCounted /\ HeldByEvents
  BY DEF IInv, Events
<1>2. /\ hSqHead' = cqMem[hHead].sq_head /\ visible' = visible - 1
      /\ hHead' = IF hHead + 1 = CqSize THEN 0 ELSE hHead + 1
      /\ UNCHANGED <<sqMem, cqMem, hTail, aers, bell, sq, cq, busy, intact, lost>>
  BY <1>1, Indices, NextIndexIs DEF Read
<1>3. visible > 0
  BY TagTells DEF Read
<1>4. Ahead(hHead) = 0 /\ hHead \in 0 .. CqSize - 1
  BY <1>1, Indices DEF Ahead, Dist
<1>5. \A i \in 0 .. SqSize - 1 : Back(i)' = Back(i) /\ Back(i) \in Nat
  BY <1>1, <1>2, Distances DEF Back
<1>6. /\ Back(hSqHead)' = Back(cqMem[hHead].sq_head) /\ Back(hSqHead)' <= Back(hSqHead)
      /\ Back(hSqHead) \in Nat /\ Back(hSqHead)' \in Nat
  <2>1. Back(hSqHead)' = Back(cqMem[hHead].sq_head)
    BY <1>2 DEF Back
  <2>2. Back(cqMem[hHead].sq_head) <= Back(hSqHead)
    BY <1>1, <1>3, <1>4 DEF Heads
  <2>3. Back(hSqHead) \in Nat /\ Back(cqMem[hHead].sq_head) \in Nat
    BY <1>1, <1>4, Indices, Distances
  <2> QED BY <2>1, <2>2, <2>3
<1>7. AerEntries' \subseteq AerEntries
  BY <1>2, <1>5, <1>6 DEF AerEntries, Used
<1>8. EventsCounted'
  <2>1. aers \in Nat
    BY <1>1 DEF TypeOK
  <2> QED BY <1>1, <1>2, <1>7, <2>1, CountedStays
<1>9. HeldByEvents'
  <2> SUFFICES ASSUME ~lost, NEW i \in 0 .. SqSize - 1, Unfreed(i)'
               PROVE  sqMem[i] \in Aer
    BY <1>2 DEF HeldByEvents
  <2>1. Unfetched < Back(i) /\ Back(i) <= Back(hSqHead)' /\ Back(i) <= Back(hSqHead)
    BY <1>2, <1>5, <1>6 DEF Unfreed, Unfetched
  <2>2. ASSUME NEW j \in 0 .. CqSize - 1, Ahead(j) < visible
        PROVE  Back(i) <= Back(cqMem[j].sq_head)
    <3>1. CASE j = hHead
      BY <1>6, <2>1, <3>1
    <3>2. CASE j # hHead
      <4>1. Ahead(j)' = Ahead(j) - 1 /\ Ahead(j) \in Nat
        BY <1>1, <1>2, <3>2, Indices DEF Ahead, Dist
      <4>2. Ahead(j)' < visible'
        BY <1>1, <1>2, <2>2, <4>1, Indices
      <4> QED BY <1>2, <1>5, <4>2 DEF Unfreed, Back
    <3> QED BY <3>1, <3>2
  <2> QED BY <1>1, <2>1, <2>2 DEF HeldByEvents, Unfreed
<1> QED BY <1>8, <1>9 DEF Events

(* A command is executed.  An event request keeps its entry; any other     *)
(* command frees all entries up to its own, or its answer is lost.         *)
LEMMA EventsExecute ==
  ASSUME IInv, Events, Execute
  PROVE  Events'
<1> DEFINE c == sqMem[sq.head]
<1>1. TypeOK /\ Counts /\ Heads /\ EventsCounted /\ HeldByEvents
  BY DEF IInv, Events
<1>2. /\ sq' = [sq EXCEPT !.head = NextIndex(sq.head, SqSize)] /\ sq.head # sq.tail
      /\ UNCHANGED <<sqMem, hTail, hSqHead, hHead, hPhase, outstanding, aers, bell, busy>>
  BY DEF Execute, host
<1>3. /\ sq'.head = NextIndex(sq.head, SqSize) /\ Unfetched >= 1 /\ Unfetched' = Unfetched - 1
  BY <1>2, FetchIndices
<1>4. \A i \in 0 .. SqSize - 1 : Back(i)' = Back(i) /\ Back(i) \in Nat
  BY <1>1, <1>2, Distances DEF Back
<1>5. Back(hSqHead)' = Back(hSqHead)
  BY <1>2 DEF Back
<1>6. EventsCounted'
  <2>1. AerEntries' = AerEntries
    BY <1>2, <1>4, <1>5 DEF AerEntries, Used
  <2> QED BY <1>1, <1>2, <2>1 DEF EventsCounted
<1>7. HeldByEvents'
  <2> SUFFICES ASSUME ~lost', NEW i \in 0 .. SqSize - 1, Unfreed(i)'
               PROVE  sqMem[i] \in Aer
    BY <1>2 DEF HeldByEvents
  <2>1. Unfetched - 1 < Back(i) /\ Back(i) <= Back(hSqHead) /\ Unfetched \in Nat
    BY <1>1, <1>3, <1>4, <1>5, Distances DEF Unfreed
  <2>2. CASE c \in Aer
    <3>1. UNCHANGED <<cq, cqMem, intact, lost, visible>>
      BY <2>2 DEF Execute
    <3>2. CASE Back(i) = Unfetched
      <4>1. i = sq.head
        BY <1>1, <3>2, Indices, DistBackApart DEF Back, Unfetched
      <4> QED BY <2>2, <4>1
    <3>3. CASE Back(i) # Unfetched
      <4>1. Unfetched < Back(i)
        BY <1>4, <2>1, <3>3
      <4>2. \A j \in 0 .. CqSize - 1 : Ahead(j) < visible => Back(i) <= Back(cqMem[j].sq_head)
        BY <1>2, <3>1 DEF Unfreed, Ahead, Back
      <4> QED BY <1>1, <2>1, <3>1, <4>1, <4>2 DEF HeldByEvents, Unfreed
    <3> QED BY <3>2, <3>3
  <2>3. CASE c \notin Aer
    <3>1. /\ cq' = Advanced /\ ~lost
          /\ cqMem' = [cqMem EXCEPT ![cq.tail] =
                         [cmd |-> c, sq_head |-> NextIndex(sq.head, SqSize), phase |-> cq.phase]]
          /\ visible' = IF intact THEN visible + 1 ELSE visible
      BY <2>3 DEF Execute, nvme_post_cqe
    <3>7. intact /\ visible' = visible + 1
      BY <1>1, <3>1 DEF Counts
    <3>2. Ahead(cq.tail) = visible /\ visible \in Nat /\ cq.tail \in 0 .. CqSize - 1
      BY <1>1, <1>3, <3>7, PostIndices, Indices DEF Counts
    <3>3. Dist(hHead', cq.tail, CqSize) < visible'
      BY <1>2, <3>2, <3>7 DEF Ahead
    <3>4. cqMem'[cq.tail].sq_head = sq'.head
      BY <1>1, <1>3, <3>1, <3>2 DEF TypeOK
    <3>5. Back(i)' <= Dist(cqMem'[cq.tail].sq_head, hTail', SqSize)
      BY <3>2, <3>3 DEF Unfreed, Ahead, Back
    <3>6. Back(i)' <= Unfetched'
      BY <3>4, <3>5 DEF Unfetched
    <3> QED BY <1>3, <1>4, <2>1, <3>6
  <2> QED BY <2>2, <2>3
<1> QED BY <1>6, <1>7 DEF Events

(* The completion queue is created again: unless it held answers, no entry *)
(* that a completion would have freed stays used.                          *)
LEMMA EventsCreateCq ==
  ASSUME IInv, Events, nvme_admin_create_cq
  PROVE  Events'
<1>1. TypeOK /\ EventsCounted /\ HeldByEvents
  BY DEF IInv, Events
<1>2. /\ lost' = (lost \/ visible > 0)
      /\ UNCHANGED <<sqMem, hTail, hSqHead, aers, sq>>
  BY DEF nvme_admin_create_cq
<1>3. Unfetched' = Unfetched /\ (\A i : Back(i)' = Back(i)) /\ Back(hSqHead)' = Back(hSqHead)
  BY <1>2 DEF Unfetched, Back
<1>4. AerEntries' = AerEntries
  BY <1>2, <1>3 DEF AerEntries, Used
<1>5. HeldByEvents'
  <2> SUFFICES ASSUME ~lost', NEW i \in 0 .. SqSize - 1, Unfreed(i)'
               PROVE  sqMem[i] \in Aer
    BY <1>2 DEF HeldByEvents
  <2>1. ~lost /\ ~(visible > 0) /\ visible \in Nat
    BY <1>1, <1>2, Indices
  <2>2. \A j \in 0 .. CqSize - 1 : ~(Ahead(j) < visible)
    BY <1>1, <2>1, Distances
  <2>3. Unfetched < Back(i) /\ Back(i) <= Back(hSqHead)
    BY <1>3 DEF Unfreed
  <2> QED BY <1>1, <2>1, <2>2, <2>3 DEF HeldByEvents, Unfreed
<1> QED BY <1>1, <1>2, <1>4, <1>5 DEF Events, EventsCounted

(* No step leaves it.                                                      *)
LEMMA EventsNext == IInv /\ Events /\ [Next]_vars => Events'
<1> SUFFICES ASSUME IInv, Events, [Next]_vars PROVE Events'
  OBVIOUS
<1>1. ASSUME NEW c \in Cmd, Submit(c) PROVE Events'
  BY <1>1, EventsSubmit
<1>2. CASE Read
  BY <1>2, EventsRead
<1>3. CASE Execute
  BY <1>3, EventsExecute
<1>4. CASE Restart
  <2>1. busy' = FALSE
    BY <1>4 DEF Restart, IInv, TypeOK
  <2>2. Init'
    BY <1>4, <2>1 DEF Restart, Init
  <2> QED BY <2>2, EventsInit, PTL
<1>5. ASSUME sq.head' = sq.head,
             UNCHANGED <<sqMem, cqMem, hTail, hSqHead, hHead, aers, intact, lost, visible>>
      PROVE  Events'
  <2>1. Unfetched' = Unfetched /\ \A i : Back(i)' = Back(i) /\ Ahead(i)' = Ahead(i)
    BY <1>5 DEF Unfetched, Back, Ahead
  <2>2. Back(hSqHead)' = Back(hSqHead)
    BY <1>5 DEF Back
  <2>3. AerEntries' = AerEntries
    BY <1>5, <2>1, <2>2 DEF AerEntries, Used
  <2>4. HeldByEvents'
    BY <1>5, <2>1, <2>2 DEF Events, HeldByEvents, Unfreed, Back
  <2> QED BY <1>5, <2>3, <2>4 DEF Events, EventsCounted
<1>6. CASE RingDoorbell \/ LoopEnds \/ FetchFails \/ DeleteCq \/ UNCHANGED vars
  BY <1>5, <1>6 DEF RingDoorbell, LoopEnds, FetchFails, DeleteCq, vars, host
<1>7. CASE TakeDoorbell \/ nvme_queues_down
  <2>1. sq'.head = sq.head
    BY <1>7 DEF IInv, TypeOK, TakeDoorbell, nvme_queues_down
  <2> QED BY <1>5, <1>7, <2>1 DEF TakeDoorbell, nvme_queues_down, host
<1>8. CASE nvme_admin_create_cq
  BY <1>8, EventsCreateCq
<1> QED BY <1>1, <1>2, <1>3, <1>4, <1>6, <1>7, <1>8 DEF Next, Device

(* When only event requests are left, all used entries hold one.           *)
LEMMA UsedAreEvents ==
  ASSUME IInv, Events, ~lost, visible = 0, \A k \in 1 .. Unfetched : Todo[k] \in Aer,
         NEW i \in 0 .. SqSize - 1, Used(i)
  PROVE  i \in AerEntries
<1>1. TypeOK /\ Back(i) \in Nat /\ Unfetched \in 0 .. SqSize - 1
  BY Distances DEF IInv
<1>2. CASE Unfetched < Back(i)
  <2>1. \A j \in 0 .. CqSize - 1 : ~(Ahead(j) < visible)
    BY <1>1, Distances
  <2> QED BY <1>2, <2>1 DEF Events, HeldByEvents, Unfreed, Used, AerEntries
<1>3. CASE ~(Unfetched < Back(i))
  <2> DEFINE k == Unfetched - Back(i) + 1
  <2>1. k \in 1 .. Unfetched
    BY <1>1, <1>3 DEF Used
  <2>2. Slot(sq.head, k, SqSize) = i
    BY <1>1, <1>3, Indices DEF Used, Back, Slot, Unfetched, Dist
  <2>3. Todo[k] = sqMem[i]
    BY <2>1, <2>2 DEF Todo, Ring
  <2> QED BY <2>1, <2>3 DEF AerEntries
<1> QED BY <1>1, <1>2, <1>3

(* The host's ring does not fill up with event requests: once every other  *)
(* command is answered, the entries it counts as used are at most the      *)
(* event requests it has sent.                                             *)
THEOREM QuietHasRoom == Spec => []QuietLeavesRoom
<1>1. ASSUME IInv, Events PROVE QuietLeavesRoom
  <2> SUFFICES ASSUME ~lost, visible = 0, \A k \in 1 .. Unfetched : Todo[k] \in Aer
               PROVE  Back(hSqHead) <= aers
    BY DEF QuietLeavesRoom, Back
  <2> DEFINE B == Back(hSqHead)
             At(b) == IF b <= hTail THEN hTail - b ELSE hTail - b + SqSize
             f == [b \in 1 .. B |-> At(b)]
  <2>1. TypeOK /\ B \in 0 .. SqSize - 1
    BY <1>1, Indices, Distances DEF IInv
  <2>2. ASSUME NEW b \in 1 .. B PROVE At(b) \in 0 .. SqSize - 1 /\ Back(At(b)) = b
    BY <2>1, Indices DEF Back, Dist
  <2>3. ASSUME NEW b \in 1 .. B PROVE At(b) \in AerEntries
    <3>1. Used(At(b))
      BY <2>1, <2>2 DEF Used
    <3> HIDE DEF At
    <3> QED BY <1>1, <2>2, <3>1, UsedAreEvents
  <2>4. \A a, b \in 1 .. B : At(a) = At(b) => a = b
    <3> HIDE DEF At
    <3> QED BY <2>2
  <2>5. f \in Injection(1 .. B, AerEntries)
    <3> HIDE DEF At, B
    <3>1. f \in [1 .. B -> AerEntries]
      BY <2>3
    <3> QED BY <2>4, <3>1 DEF Injection, IsInjective
  <2>6. IsFiniteSet(AerEntries) /\ Cardinality(AerEntries) \in Nat
    BY AerEntriesFinite
  <2>7. Cardinality(1 .. B) <= Cardinality(AerEntries)
    <3> HIDE DEF f, B
    <3> QED BY <2>5, <2>6, FS_Injection
  <2>8. Cardinality(1 .. B) = B
    <3>1. B \in Int
      BY <2>1
    <3> HIDE DEF B
    <3>2. Cardinality(1 .. B) = IF 1 > B THEN 0 ELSE B - 1 + 1
      BY <3>1, FS_Interval
    <3> QED BY <2>1, <3>2, Indices
  <2>9. aers \in Nat /\ Cardinality(AerEntries) <= aers
    BY <1>1, <2>1 DEF Events, EventsCounted, TypeOK
  <2> HIDE DEF B
  <2>10. B <= aers
    BY <2>1, <2>6, <2>7, <2>8, <2>9
  <2> QED BY <2>10 DEF B
<1>2. Init => Events
  BY EventsInit
<1> QED BY <1>1, <1>2, EventsNext, Invariance, PTL DEF Spec
=============================================================================
