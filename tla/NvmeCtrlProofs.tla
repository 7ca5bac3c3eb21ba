--------------------------- MODULE NvmeCtrlProofs ---------------------------
(***************************************************************************)
(* Proofs about the controller front-end, for every number of queues,      *)
(* every set of queue sizes and every host.  The safety properties of      *)
(* NvmeCtrl are one inductive invariant once the rings are described       *)
(* queue by queue: a command that the loop executes may create or delete   *)
(* any other queue, so what keeps the loop's own queue alive, and drained  *)
(* queues drained, has to be known of all of them together.                *)
(***************************************************************************)
EXTENDS NvmeCtrl, TLAPS

(* Arithmetic: the successor of an index in a ring of n entries.           *)
LEMMA NextIndex ==
  ASSUME NEW a \in Nat, NEW n \in Nat, a < n
  PROVE  (a + 1) % n = IF a + 1 = n THEN 0 ELSE a + 1
  OBVIOUS

(* Arithmetic: a remainder is in the ring.                                 *)
LEMMA ModBound ==
  ASSUME NEW a \in Nat, NEW n \in Nat, n > 0
  PROVE  a % n \in Nat /\ a % n < n
  BY SMTT(30)

(* A queue that is up has its indices in its ring, and its phase tells the *)
(* pass.  A queue that is down may hold anything.                          *)
SqRing(s) == s.enabled => s.size > 0 /\ s.head < s.size

CqRing(c, p) ==
  c.enabled =>
    /\ c.size \in 1 .. TailMod /\ c.tail < c.size
    /\ c.size < TailMod =>
         /\ p < 2 * c.size
         /\ c.tail = IF p < c.size THEN p ELSE p - c.size
         /\ c.phase = IF p < c.size THEN 1 ELSE 0

Rings == \A q \in QID : SqRing(sq[q]) /\ CqRing(cq[q], passed[q])

Inv == /\ TypeOK
       /\ ReadyIffEnabled
       /\ QueuesFollowStatus
       /\ EngineOnLiveQueue
       /\ Drained
       /\ Rings

(* memset and the assignments after it: a new queue is empty.              *)
LEMMA NewQueues ==
  ASSUME NEW size \in 1 .. TailMod, NEW cqid \in QID
  PROVE  /\ NewSq(size, cqid) \in nvme_sq /\ SqRing(NewSq(size, cqid))
         /\ NewCq(size) \in nvme_cq /\ CqRing(NewCq(size), 0)
  BY QueueAssumption DEF NewSq, NewCq, nvme_sq, nvme_cq, SqRing, CqRing

(* nvme_post_cqe moves the tail to the next entry, in this pass or at the  *)
(* start of the next one, also where cq->tail overflows.                   *)
LEMMA AdvancedRing ==
  ASSUME NEW c \in nvme_cq, NEW p \in Nat, CqRing(c, p), c.enabled
  PROVE  /\ Advanced(c) \in nvme_cq
         /\ Advanced(c).enabled
         /\ (p + 1) % (2 * c.size) \in Nat
         /\ CqRing(Advanced(c), (p + 1) % (2 * c.size))
<1> DEFINE t == (c.tail + 1) % TailMod
           r == (p + 1) % (2 * c.size)
           full == [c EXCEPT !.tail = 0, !.phase = 1 - c.phase]
           next == [c EXCEPT !.tail = t]
<1>1. /\ c.size \in 1 .. TailMod /\ c.tail \in Nat /\ c.tail < c.size /\ TailMod \in Nat
      /\ c.phase \in {0, 1}
  BY QueueAssumption DEF nvme_cq, CqRing
<1>2. t = IF c.tail + 1 = TailMod THEN 0 ELSE c.tail + 1
  <2>1. c.tail < TailMod
    BY <1>1
  <2> QED BY <1>1, <2>1, NextIndex
<1>3. r \in Nat
  BY <1>1, ModBound, 2 * c.size \in Nat /\ 2 * c.size > 0
<1>4. c.size < TailMod => r = IF p + 1 = 2 * c.size THEN 0 ELSE p + 1
  BY <1>1, NextIndex, 2 * c.size \in Nat DEF CqRing
<1>5. Advanced(c) = IF t = c.size THEN full ELSE next
  BY DEF Advanced
<1> HIDE DEF t, r
<1>6. /\ full \in nvme_cq /\ full.enabled /\ full.size = c.size /\ full.tail = 0
      /\ full.phase = 1 - c.phase
  <2>1. 1 - c.phase \in {0, 1}
    BY <1>1
  <2> DEFINE ph == 1 - c.phase
  <2>2. ph \in {0, 1}
    BY <2>1
  <2>3. full = [c EXCEPT !.tail = 0, !.phase = ph]
    OBVIOUS
  <2> HIDE DEF ph, full
  <2> QED BY <2>2, <2>3 DEF nvme_cq, ph
<1>7. /\ next \in nvme_cq /\ next.enabled /\ next.size = c.size /\ next.tail = t
      /\ next.phase = c.phase
  BY <1>1, <1>2 DEF nvme_cq
<1> HIDE DEF full, next
<1>8. CASE t = c.size
  <2>1. CqRing(full, r)
    BY <1>1, <1>2, <1>3, <1>4, <1>6, <1>8 DEF CqRing
  <2> QED BY <1>3, <1>5, <1>6, <1>8, <2>1 DEF r
<1>9. CASE t # c.size
  <2>1. CqRing(next, r)
    BY <1>1, <1>2, <1>3, <1>4, <1>7, <1>9 DEF CqRing
  <2> QED BY <1>3, <1>5, <1>7, <1>9, <2>1 DEF r
<1> QED BY <1>8, <1>9

-----------------------------------------------------------------------------
(* The arrays of queues.                                                   *)

SqArray(f) == f \in [QID -> nvme_sq] /\ \A k \in QID : SqRing(f[k])
CqArray(f, n) ==
  /\ f \in [QID -> nvme_cq] /\ n \in [QID -> Nat]
  /\ \A k \in QID : CqRing(f[k], n[k])

(* One queue of the array is replaced.                                     *)
LEMMA SetSq ==
  ASSUME NEW f, SqArray(f), NEW q \in QID, NEW s \in nvme_sq, SqRing(s)
  PROVE  SqArray([f EXCEPT ![q] = s])
  BY DEF SqArray

(* One completion queue and its count of completions are replaced.         *)
LEMMA SetCq ==
  ASSUME NEW f, NEW n, CqArray(f, n), NEW q \in QID,
         NEW c \in nvme_cq, NEW p \in Nat, CqRing(c, p)
  PROVE  CqArray([f EXCEPT ![q] = c], [n EXCEPT ![q] = p])
  BY DEF CqArray

(* nvme_post_cqe keeps the rings and brings no queue up or down.           *)
LEMMA PostCqe ==
  ASSUME NEW f, NEW n, CqArray(f, n), NEW q \in QID, nvme_post_cqe(f, n, q)
  PROVE  /\ CqArray(cq', passed')
         /\ \A k \in QID : cq'[k].enabled <=> f[k].enabled
<1>1. CASE f[q].enabled
  <2> DEFINE c == Advanced(f[q])
             p == (n[q] + 1) % (2 * f[q].size)
  <2>1. f[q] \in nvme_cq /\ n[q] \in Nat /\ CqRing(f[q], n[q])
    BY DEF CqArray
  <2>2. c \in nvme_cq /\ c.enabled /\ p \in Nat /\ CqRing(c, p)
    BY <1>1, <2>1, AdvancedRing
  <2>3. cq' = [f EXCEPT ![q] = c] /\ passed' = [n EXCEPT ![q] = p]
    BY <1>1 DEF nvme_post_cqe
  <2> HIDE DEF c, p
  <2>4. CqArray(cq', passed')
    BY <2>2, <2>3, SetCq
  <2>5. \A k \in QID : cq'[k].enabled <=> f[k].enabled
    BY <1>1, <2>2, <2>3 DEF CqArray
  <2> QED BY <2>4, <2>5
<1>2. CASE ~f[q].enabled
  BY <1>2 DEF nvme_post_cqe
<1> QED BY <1>1, <1>2

(* Fetching a command moves one head inside its ring and nothing else.     *)
LEMMA FetchedHead ==
  ASSUME SqArray(sq), NEW q \in QID, sq[q].enabled
  PROVE  /\ SqArray(Fetched(q))
         /\ Fetched(q)[q].enabled
         /\ Fetched(q)[q].cqid = sq[q].cqid
         /\ \A k \in QID \ {q} : Fetched(q)[k] = sq[k]
<1> DEFINE h == (sq[q].head + 1) % sq[q].size
           s == [sq[q] EXCEPT !.head = h]
<1>1. /\ sq[q] \in nvme_sq /\ sq \in [QID -> nvme_sq]
      /\ sq[q].size \in Nat /\ sq[q].size > 0 /\ sq[q].head \in Nat
  BY DEF SqArray, SqRing, nvme_sq
<1>2. h \in Nat /\ h < sq[q].size
  <2>1. sq[q].head + 1 \in Nat
    BY <1>1
  <2> QED BY <1>1, <2>1, ModBound
<1>3. Fetched(q) = [sq EXCEPT ![q] = s]
  BY DEF Fetched, WithHead
<1> HIDE DEF h
<1>4. s \in nvme_sq /\ s.enabled /\ s.cqid = sq[q].cqid /\ SqRing(s)
  BY <1>1, <1>2 DEF nvme_sq, SqRing
<1> HIDE DEF s
<1>5. SqArray(Fetched(q))
  BY <1>3, <1>4, SetSq
<1> QED BY <1>1, <1>3, <1>4, <1>5

(* nvme_queues_down on the submission queues.                              *)
LEMMA DownSqs ==
  ASSUME NEW f, SqArray(f)
  PROVE  SqArray(QueuesDown(f)) /\ \A k \in QID : ~QueuesDown(f)[k].enabled
<1>1. ASSUME NEW k \in QID
      PROVE  /\ QueuesDown(f)[k] \in nvme_sq
             /\ ~QueuesDown(f)[k].enabled
  <2>1. QueuesDown(f)[k] = [f[k] EXCEPT !.enabled = FALSE]
    BY DEF QueuesDown
  <2>2. f[k] \in nvme_sq
    BY DEF SqArray
  <2> QED BY <2>1, <2>2 DEF nvme_sq
<1>2. QueuesDown(f) \in [QID -> nvme_sq]
  BY <1>1 DEF QueuesDown
<1> QED BY <1>1, <1>2 DEF SqArray, SqRing

(* nvme_queues_down on the completion queues.                              *)
LEMMA DownCqs ==
  ASSUME NEW f, NEW n, CqArray(f, n)
  PROVE  CqArray(QueuesDown(f), n) /\ \A k \in QID : ~QueuesDown(f)[k].enabled
<1>1. ASSUME NEW k \in QID
      PROVE  /\ QueuesDown(f)[k] \in nvme_cq
             /\ ~QueuesDown(f)[k].enabled
  <2>1. QueuesDown(f)[k] = [f[k] EXCEPT !.enabled = FALSE]
    BY DEF QueuesDown
  <2>2. f[k] \in nvme_cq
    BY DEF CqArray
  <2> QED BY <2>1, <2>2 DEF nvme_cq
<1>2. QueuesDown(f) \in [QID -> nvme_cq]
  BY <1>1 DEF QueuesDown
<1> QED BY <1>1, <1>2 DEF CqArray, CqRing

(* The invariant says that both arrays are well formed.                    *)
LEMMA InvArrays == Inv => SqArray(sq) /\ CqArray(cq, passed)
  BY DEF Inv, TypeOK, Rings, SqArray, CqArray

(* The admin queue exists, and Idle is no queue.                           *)
LEMMA QueueZero == 0 \in QID /\ Idle \notin QID
  BY QueueAssumption DEF QID, Idle

-----------------------------------------------------------------------------
(* A command executed by the loop of queue q: what it may do.              *)

LEMMA CommandStep ==
  ASSUME Inv, NEW q \in QID, busy = q,
         UNCHANGED <<cc, csts, aqa, busy>>,
         stalled' \subseteq QID,
         SqArray(sq'), CqArray(cq', passed'),
         sq'[q].enabled, sq'[0].enabled <=> sq[0].enabled,
         sq'[0].cqid = sq[0].cqid, cq'[0].enabled <=> cq[0].enabled,
         \A k \in QID \ {q} :
           sq'[k].enabled /\ k \notin stalled' => sq'[k].head = sq'[k].tail
  PROVE  Inv'
<1>1. TypeOK'
  BY DEF Inv, TypeOK, SqArray, CqArray
<1>2. ReadyIffEnabled'
  BY DEF Inv, ReadyIffEnabled
<1>3. csts.rdy /\ ~csts.shst
  BY QueueZero DEF Inv, EngineOnLiveQueue, QueuesFollowStatus
<1>4. QueuesFollowStatus'
  BY <1>3 DEF QueuesFollowStatus
<1>5. EngineOnLiveQueue'
  BY DEF Inv, EngineOnLiveQueue
<1>6. Drained'
  BY DEF Drained
<1>7. Rings'
  BY DEF Rings, SqArray, CqArray
<1> QED BY <1>1, <1>2, <1>4, <1>5, <1>6, <1>7 DEF Inv

(* The loop's guard, and what fetching leaves of the other queues.         *)
LEMMA Loop ==
  ASSUME Inv, NEW q \in QID, Working(q)
  PROVE  /\ busy = q /\ sq[q].enabled /\ sq[q].cqid \in QID
         /\ SqArray(Fetched(q)) /\ CqArray(cq, passed)
         /\ Fetched(q)[q].enabled
         /\ Fetched(q)[0].enabled <=> sq[0].enabled
         /\ Fetched(q)[0].cqid = sq[0].cqid
         /\ \A k \in QID \ {q} : Fetched(q)[k] = sq[k]
         /\ \A k \in QID \ {q} :
              sq[k].enabled /\ k \notin stalled => sq[k].head = sq[k].tail
<1>1. busy = q /\ sq[q].enabled
  BY QueueZero DEF Inv, EngineOnLiveQueue, Working
<1>2. SqArray(sq) /\ CqArray(cq, passed)
  BY InvArrays
<1>3. sq[q].cqid \in QID
  BY <1>2 DEF SqArray, nvme_sq
<1>4. /\ SqArray(Fetched(q)) /\ Fetched(q)[q].enabled
      /\ Fetched(q)[q].cqid = sq[q].cqid
      /\ \A k \in QID \ {q} : Fetched(q)[k] = sq[k]
  BY <1>1, <1>2, FetchedHead
<1>5. /\ Fetched(q)[0].enabled <=> sq[0].enabled
      /\ Fetched(q)[0].cqid = sq[0].cqid
  BY <1>1, <1>4, QueueZero
<1>6. \A k \in QID \ {q} :
        sq[k].enabled /\ k \notin stalled => sq[k].head = sq[k].tail
  BY <1>1 DEF Inv, Drained
<1> QED BY <1>1, <1>2, <1>3, <1>4, <1>5, <1>6

(* Create I/O Completion Queue, also over a queue that is in use.          *)
LEMMA CreateCq ==
  ASSUME Inv, NEW qid \in QidArgs, NEW size \in IoSizes, nvme_admin_create_cq(qid, size)
  PROVE  Inv'
<1>1. Working(0) /\ sq' = Fetched(0) /\ UNCHANGED <<cc, csts, aqa, busy, stalled>>
  BY DEF nvme_admin_create_cq
<1>2. 0 \in QID /\ sq[0].cqid \in QID /\ SqArray(Fetched(0)) /\ CqArray(cq, passed)
  BY <1>1, Loop, QueueZero
<1>3. CqArray(cq', passed') /\ (cq'[0].enabled <=> cq[0].enabled)
  <2>1. CASE ValidQid(qid)
    <3> DEFINE f == [cq EXCEPT ![qid] = NewCq(size)]
               n == [passed EXCEPT ![qid] = 0]
    <3>1. qid \in QID \ {0} /\ size \in 1 .. TailMod
      BY <2>1, QueueAssumption DEF ValidQid, QID
    <3>2. NewCq(size) \in nvme_cq /\ CqRing(NewCq(size), 0)
      BY <1>2, <3>1, NewQueues
    <3>3. CqArray(f, n)
      BY <1>2, <3>1, <3>2, SetCq
    <3>4. f[0] = cq[0]
      BY <1>2, <3>1 DEF CqArray
    <3>5. nvme_post_cqe(f, n, sq[0].cqid)
      BY <2>1 DEF nvme_admin_create_cq
    <3> HIDE DEF f, n
    <3> QED BY <1>2, <3>3, <3>4, <3>5, PostCqe
  <2>2. CASE ~ValidQid(qid)
    <3>1. nvme_post_cqe(cq, passed, sq[0].cqid)
      BY <2>2 DEF nvme_admin_create_cq
    <3> QED BY <1>2, <3>1, PostCqe
  <2> QED BY <2>1, <2>2
<1> QED BY <1>1, <1>2, <1>3, Loop, CommandStep DEF Inv, TypeOK

(* Create I/O Submission Queue: the new queue starts drained.              *)
LEMMA CreateSq ==
  ASSUME Inv, NEW qid \in QidArgs, NEW cqid \in QidArgs, NEW size \in IoSizes,
         nvme_admin_create_sq(qid, size, cqid)
  PROVE  Inv'
<1> DEFINE valid == ValidQid(qid) /\ cqid \in QID /\ cq[cqid].enabled
           s == NewSq(size, cqid)
<1>1. /\ Working(0) /\ nvme_post_cqe(cq, passed, sq[0].cqid)
      /\ UNCHANGED <<cc, csts, aqa, busy>>
      /\ sq' = IF valid THEN [Fetched(0) EXCEPT ![qid] = s] ELSE Fetched(0)
      /\ stalled' = IF valid THEN stalled \ {qid} ELSE stalled
  BY DEF nvme_admin_create_sq
<1>2. 0 \in QID /\ sq[0].cqid \in QID /\ SqArray(Fetched(0)) /\ CqArray(cq, passed)
  BY <1>1, Loop, QueueZero
<1>3. CqArray(cq', passed') /\ (cq'[0].enabled <=> cq[0].enabled)
  BY <1>1, <1>2, PostCqe
<1>4. stalled' \subseteq QID
  BY <1>1 DEF Inv, TypeOK
<1>5. CASE valid
  <2>1. qid \in QID \ {0} /\ size \in 1 .. TailMod /\ cqid \in QID
    BY <1>5, QueueAssumption DEF ValidQid, QID
  <2>2. s \in nvme_sq /\ SqRing(s) /\ s.head = s.tail
    BY <2>1, NewQueues DEF NewSq
  <2> HIDE DEF s, valid
  <2>3. sq' = [Fetched(0) EXCEPT ![qid] = s] /\ stalled' = stalled \ {qid}
    BY <1>1, <1>5
  <2>4. SqArray(sq')
    BY <1>2, <2>1, <2>2, <2>3, SetSq
  <2>5. sq'[qid] = s /\ \A k \in QID \ {qid} : sq'[k] = Fetched(0)[k]
    BY <1>2, <2>1, <2>3 DEF SqArray
  <2>6. \A k \in QID \ {0} :
          sq'[k].enabled /\ k \notin stalled' => sq'[k].head = sq'[k].tail
    <3> SUFFICES ASSUME NEW k \in QID \ {0}, sq'[k].enabled, k \notin stalled'
                 PROVE  sq'[k].head = sq'[k].tail
      OBVIOUS
    <3>1. CASE k = qid
      BY <2>2, <2>5, <3>1
    <3>2. CASE k # qid
      <4>1. sq'[k] = sq[k] /\ k \notin stalled
        BY <1>1, <1>2, <2>3, <2>5, <3>2, Loop
      <4> QED BY <1>1, <1>2, <4>1, Loop
    <3> QED BY <3>1, <3>2
  <2>7. sq'[0] = Fetched(0)[0]
    BY <1>2, <2>1, <2>5
  <2> QED BY <1>1, <1>2, <1>3, <1>4, <2>4, <2>6, <2>7, Loop, CommandStep
<1>6. CASE ~valid
  <2> HIDE DEF valid
  <2>1. sq' = Fetched(0) /\ stalled' = stalled
    BY <1>1, <1>6
  <2> QED BY <1>1, <1>2, <1>3, <1>4, <2>1, Loop, CommandStep
<1> QED BY <1>5, <1>6

(* Delete I/O Completion Queue: never the admin queue.                     *)
LEMMA DeleteCq ==
  ASSUME Inv, NEW qid \in QidArgs, nvme_admin_delete_cq(qid)
  PROVE  Inv'
<1> DEFINE gone == IF ValidQid(qid) THEN WithoutCq(qid) ELSE cq
<1>1. /\ Working(0) /\ sq' = Fetched(0) /\ nvme_post_cqe(gone, passed, sq[0].cqid)
      /\ UNCHANGED <<cc, csts, aqa, busy, stalled>>
  BY DEF nvme_admin_delete_cq
<1>2. 0 \in QID /\ sq[0].cqid \in QID /\ SqArray(Fetched(0)) /\ CqArray(cq, passed)
  BY <1>1, Loop, QueueZero
<1>3. CqArray(gone, passed) /\ gone[0] = cq[0]
  <2>1. CASE ValidQid(qid)
    <3> DEFINE c == [cq[qid] EXCEPT !.enabled = FALSE]
    <3>1. qid \in QID \ {0} /\ gone = [cq EXCEPT ![qid] = c]
      BY <2>1, QueueAssumption DEF ValidQid, QID, WithoutCq
    <3>2. cq[qid] \in nvme_cq /\ passed[qid] \in Nat /\ cq \in [QID -> nvme_cq]
      BY <1>2, <3>1 DEF CqArray
    <3>3. c \in nvme_cq /\ CqRing(c, passed[qid])
      BY <3>2 DEF nvme_cq, CqRing
    <3> HIDE DEF c, gone
    <3>4. CqArray(gone, [passed EXCEPT ![qid] = passed[qid]])
      BY <1>2, <3>1, <3>2, <3>3, SetCq
    <3>5. [passed EXCEPT ![qid] = passed[qid]] = passed
      BY <1>2 DEF CqArray
    <3>6. gone[0] = cq[0]
      BY <1>2, <3>1, <3>2
    <3> QED BY <3>4, <3>5, <3>6
  <2>2. CASE ~ValidQid(qid)
    BY <1>2, <2>2
  <2> QED BY <2>1, <2>2
<1> HIDE DEF gone
<1>4. CqArray(cq', passed') /\ (cq'[0].enabled <=> cq[0].enabled)
  BY <1>1, <1>2, <1>3, PostCqe
<1> QED BY <1>1, <1>2, <1>4, Loop, CommandStep DEF Inv, TypeOK

(* Delete I/O Submission Queue: never the queue the loop works on.         *)
LEMMA DeleteSq ==
  ASSUME Inv, NEW qid \in QidArgs, nvme_admin_delete_sq(qid)
  PROVE  Inv'
<1> DEFINE s == [sq[qid] EXCEPT !.enabled = FALSE]
<1>1. /\ Working(0) /\ nvme_post_cqe(cq, passed, sq[0].cqid)
      /\ UNCHANGED <<cc, csts, aqa, busy>>
      /\ stalled' = IF ValidQid(qid) THEN stalled \ {qid} ELSE stalled
      /\ sq' = IF ValidQid(qid) THEN [Fetched(0) EXCEPT ![qid] = s] ELSE Fetched(0)
  BY DEF nvme_admin_delete_sq
<1>2. 0 \in QID /\ sq[0].cqid \in QID /\ SqArray(Fetched(0)) /\ CqArray(cq, passed)
  BY <1>1, Loop, QueueZero
<1>3. CqArray(cq', passed') /\ (cq'[0].enabled <=> cq[0].enabled)
  BY <1>1, <1>2, PostCqe
<1>4. stalled' \subseteq QID
  BY <1>1 DEF Inv, TypeOK
<1>5. CASE ValidQid(qid)
  <2>1. qid \in QID \ {0}
    BY <1>5, QueueAssumption DEF ValidQid, QID
  <2>2. s \in nvme_sq /\ SqRing(s) /\ ~s.enabled
    <3>1. sq[qid] \in nvme_sq
      BY <2>1, InvArrays DEF SqArray
    <3> QED BY <3>1 DEF nvme_sq, SqRing
  <2> HIDE DEF s
  <2>3. sq' = [Fetched(0) EXCEPT ![qid] = s] /\ stalled' = stalled \ {qid}
    BY <1>1, <1>5
  <2>4. SqArray(sq')
    BY <1>2, <2>1, <2>2, <2>3, SetSq
  <2>5. sq'[qid] = s /\ \A k \in QID \ {qid} : sq'[k] = Fetched(0)[k]
    BY <1>2, <2>1, <2>3 DEF SqArray
  <2>6. \A k \in QID \ {0} :
          sq'[k].enabled /\ k \notin stalled' => sq'[k].head = sq'[k].tail
    BY <1>1, <1>2, <2>2, <2>3, <2>5, Loop
  <2>7. sq'[0] = Fetched(0)[0]
    BY <1>2, <2>1, <2>5
  <2> QED BY <1>1, <1>2, <1>3, <1>4, <2>4, <2>6, <2>7, Loop, CommandStep
<1>6. CASE ~ValidQid(qid)
  <2> HIDE DEF s
  <2>1. sq' = Fetched(0) /\ stalled' = stalled
    BY <1>1, <1>6
  <2> QED BY <1>1, <1>2, <1>3, <1>4, <2>1, Loop, CommandStep
<1> QED BY <1>5, <1>6

(* Commands that leave the queues alone.                                   *)
LEMMA OtherCommands ==
  ASSUME Inv, NEW q \in QID, \/ OtherCommand(q)
                             \/ q = 0 /\ AsyncEvent
  PROVE  Inv'
<1>1. Working(q) /\ sq' = Fetched(q) /\ UNCHANGED <<cc, csts, aqa, busy, stalled>>
  BY DEF OtherCommand, AsyncEvent
<1>2. stalled' \subseteq QID
  BY <1>1 DEF OtherCommand, AsyncEvent, Inv, TypeOK
<1>3. CqArray(cq', passed') /\ (cq'[0].enabled <=> cq[0].enabled)
  <2>1. CqArray(cq, passed) /\ sq[q].cqid \in QID /\ 0 \in QID
    BY <1>1, Loop, QueueZero
  <2>2. CASE nvme_post_cqe(cq, passed, sq[q].cqid)
    BY <2>1, <2>2, PostCqe
  <2>3. CASE AsyncEvent
    BY <2>1, <2>3 DEF AsyncEvent
  <2> QED BY <2>2, <2>3 DEF OtherCommand
<1> QED BY <1>1, <1>2, <1>3, Loop, CommandStep

(* The end of the loop.                                                    *)
LEMMA EndOfLoop ==
  ASSUME Inv, NEW q \in QID, FetchFails(q) \/ LoopEnds(q)
  PROVE  Inv'
<1>1. /\ busy = q /\ busy' = Idle
      /\ UNCHANGED <<cc, csts, aqa, sq, cq, passed>>
      /\ \/ stalled' = stalled \cup {q}
         \/ stalled' = stalled /\ sq[q].head = sq[q].tail
  BY DEF FetchFails, LoopEnds, Working
<1>2. TypeOK'
  BY <1>1 DEF Inv, TypeOK
<1>3. ReadyIffEnabled' /\ QueuesFollowStatus' /\ EngineOnLiveQueue' /\ Rings'
  BY <1>1, QueueZero
     DEF Inv, ReadyIffEnabled, QueuesFollowStatus, EngineOnLiveQueue, Rings
<1>4. Drained'
  BY <1>1 DEF Inv, Drained
<1> QED BY <1>2, <1>3, <1>4 DEF Inv

-----------------------------------------------------------------------------
(* Register accesses and the reset, while no loop runs.                    *)

(* A tail doorbell, for a queue that is up or not.                         *)
LEMMA Doorbell ==
  ASSUME Inv, NEW q \in QID, NEW tail \in Tails, TailDoorbell(q, tail)
  PROVE  Inv'
<1> DEFINE s == [sq[q] EXCEPT !.tail = tail]
<1>1. /\ sq' = [sq EXCEPT ![q] = s] /\ busy = Idle
      /\ busy' = IF sq[q].enabled THEN q ELSE Idle
      /\ stalled' = stalled \ {q} /\ UNCHANGED <<cc, csts, aqa, cq, passed>>
  BY DEF TailDoorbell
<1>2. SqArray(sq) /\ sq[q] \in nvme_sq /\ tail \in Nat
  BY InvArrays, QueueAssumption DEF SqArray
<1>3. /\ s \in nvme_sq /\ (s.enabled <=> sq[q].enabled) /\ s.cqid = sq[q].cqid
      /\ SqRing(s)
  BY <1>2 DEF nvme_sq, SqArray, SqRing
<1> HIDE DEF s
<1>4. SqArray(sq')
  BY <1>1, <1>2, <1>3, SetSq
<1>5. /\ \A k \in QID : sq'[k].enabled <=> sq[k].enabled
      /\ \A k \in QID : sq'[k].cqid = sq[k].cqid
      /\ \A k \in QID \ {q} : sq'[k] = sq[k]
  BY <1>1, <1>2, <1>3 DEF SqArray
<1>6. TypeOK'
  BY <1>1, <1>4 DEF Inv, TypeOK, SqArray
<1>7. ReadyIffEnabled' /\ QueuesFollowStatus'
  BY <1>1, <1>5 DEF Inv, ReadyIffEnabled, QueuesFollowStatus
<1>8. EngineOnLiveQueue'
  BY <1>1, <1>5, QueueZero DEF Inv, EngineOnLiveQueue
<1>9. Drained'
  <2> SUFFICES ASSUME NEW k \in QID, sq'[k].enabled, busy' # k, k \notin stalled'
               PROVE  sq'[k].head = sq'[k].tail
    BY DEF Drained
  <2>1. k # q
    BY <1>1, <1>5
  <2> QED BY <1>1, <1>5, <2>1, QueueZero DEF Inv, Drained
<1>10. Rings'
  BY <1>1, <1>4 DEF Inv, Rings, SqArray
<1> QED BY <1>6, <1>7, <1>8, <1>9, <1>10 DEF Inv

(* A write of AQA takes effect at the next enable only.                    *)
LEMMA AdminQueueSizes ==
  ASSUME Inv, NEW asqs \in AdminSizes, NEW acqs \in AdminSizes, WriteAQA(asqs, acqs)
  PROVE  Inv'
<1>1. aqa' = [asqs |-> asqs, acqs |-> acqs]
      /\ UNCHANGED <<cc, csts, sq, cq, busy, stalled, passed>>
  BY DEF WriteAQA, engine
<1>2. TypeOK'
  BY <1>1 DEF Inv, TypeOK
<1>3. ReadyIffEnabled' /\ QueuesFollowStatus' /\ EngineOnLiveQueue' /\ Drained' /\ Rings'
  BY <1>1 DEF Inv, ReadyIffEnabled, QueuesFollowStatus, EngineOnLiveQueue, Drained, Rings
<1> QED BY <1>2, <1>3 DEF Inv

(* With every queue down, nothing but the status registers matters.        *)
LEMMA AllDown ==
  ASSUME Inv, TypeOK', ReadyIffEnabled', SqArray(sq'), CqArray(cq', passed'), busy' = Idle,
         \A k \in QID : ~sq'[k].enabled /\ ~cq'[k].enabled
  PROVE  Inv'
<1>1. QueuesFollowStatus' /\ EngineOnLiveQueue' /\ Drained'
  BY QueueZero DEF QueuesFollowStatus, EngineOnLiveQueue, Drained
<1>2. Rings'
  BY DEF Rings, SqArray, CqArray
<1> QED BY <1>1, <1>2 DEF Inv

(* The device reset.                                                       *)
LEMMA DeviceReset == Inv /\ nvme_ctrl_reset => Inv'
<1> SUFFICES ASSUME Inv, nvme_ctrl_reset PROVE Inv'
  OBVIOUS
<1>1. /\ SqArray(sq') /\ CqArray(cq', passed')
      /\ \A k \in QID : ~sq'[k].enabled /\ ~cq'[k].enabled
  BY InvArrays, DownSqs, DownCqs DEF nvme_ctrl_reset
<1>2. TypeOK' /\ busy' = Idle
  BY <1>1, QueueAssumption DEF nvme_ctrl_reset, Inv, TypeOK, SqArray, CqArray
<1>3. ReadyIffEnabled'
  BY DEF nvme_ctrl_reset, ReadyIffEnabled
<1> QED BY <1>1, <1>2, <1>3, AllDown

(* A write of CC: shutdown and disable take every queue down; an enable    *)
(* finds them all down and brings the admin queues up.                     *)
LEMMA ControllerConfiguration ==
  ASSUME Inv, NEW v \in [en : BOOLEAN, shn : BOOLEAN], WriteCC(v)
  PROVE  Inv'
<1> DEFINE up     == v.en /\ ~cc.en
           down   == ~v.en /\ cc.en
           shut   == v.shn /\ ~cc.shn
           resume == ~v.shn /\ cc.shn
           sqs == IF up THEN [sq EXCEPT ![0] = NewSq(aqa.asqs, 0)]
                  ELSE IF down THEN QueuesDown(sq) ELSE sq
           cqs == IF up THEN [cq EXCEPT ![0] = NewCq(aqa.acqs)]
                  ELSE IF down THEN QueuesDown(cq) ELSE cq
           ns == IF up THEN [passed EXCEPT ![0] = 0] ELSE passed
<1>1. /\ busy = Idle /\ cc' = v
      /\ sq' = IF shut THEN QueuesDown(sqs) ELSE sqs
      /\ cq' = IF shut THEN QueuesDown(cqs) ELSE cqs
      /\ csts' = CstsAfter(up, down, shut, resume)
      /\ stalled' = IF up \/ down \/ shut THEN {} ELSE stalled
      /\ passed' = ns
      /\ UNCHANGED <<aqa, busy>>
  BY DEF WriteCC
<1>2. /\ csts' \in [rdy : BOOLEAN, shst : BOOLEAN] /\ (csts'.rdy <=> v.en)
      /\ csts'.shst <=> (shut \/ (~up /\ ~down /\ csts.shst /\ ~resume))
  BY <1>1 DEF CstsAfter, Inv, TypeOK, ReadyIffEnabled
<1>3. ReadyIffEnabled'
  BY <1>1, <1>2 DEF ReadyIffEnabled
<1>4. /\ SqArray(sq) /\ CqArray(cq, passed) /\ 0 \in QID
      /\ NewSq(aqa.asqs, 0) \in nvme_sq /\ SqRing(NewSq(aqa.asqs, 0))
      /\ NewCq(aqa.acqs) \in nvme_cq /\ CqRing(NewCq(aqa.acqs), 0)
  <2>1. aqa.asqs \in 1 .. TailMod /\ aqa.acqs \in 1 .. TailMod
    <3>1. aqa.asqs \in AdminSizes /\ aqa.acqs \in AdminSizes
      BY DEF Inv, TypeOK
    <3>2. AdminSizes \subseteq 1 .. TailMod
      BY QueueAssumption
    <3> QED BY <3>1, <3>2
  <2> QED BY <2>1, InvArrays, QueueZero, NewQueues
<1>5. SqArray(sqs) /\ CqArray(cqs, ns)
  BY <1>4, SetSq, SetCq, DownSqs, DownCqs
<1>6. CASE shut \/ down
  <2>1. /\ SqArray(sq') /\ CqArray(cq', passed')
        /\ \A k \in QID : ~sq'[k].enabled /\ ~cq'[k].enabled
    BY <1>1, <1>4, <1>5, <1>6, DownSqs, DownCqs
  <2>2. TypeOK'
    BY <1>1, <1>2, <2>1 DEF Inv, TypeOK, SqArray, CqArray
  <2> QED BY <1>1, <1>3, <2>1, <2>2, AllDown
<1>7. CASE ~shut /\ ~down
  <2>1. /\ sq' = sqs /\ cq' = cqs /\ passed' = ns
        /\ SqArray(sq') /\ CqArray(cq', passed')
    BY <1>1, <1>5, <1>7
  <2>2. TypeOK' /\ Rings'
    BY <1>1, <1>2, <2>1 DEF Inv, TypeOK, SqArray, CqArray, Rings
  <2>3. CASE up
    <3>1. \A k \in QID : ~sq[k].enabled /\ ~cq[k].enabled
      BY <2>3 DEF Inv, ReadyIffEnabled, QueuesFollowStatus
    <3>2. /\ sq'[0] = NewSq(aqa.asqs, 0) /\ cq'[0] = NewCq(aqa.acqs)
          /\ \A k \in QID \ {0} : ~sq'[k].enabled /\ ~cq'[k].enabled
      BY <1>4, <2>1, <2>3, <3>1 DEF SqArray, CqArray
    <3>3. /\ sq'[0].enabled /\ cq'[0].enabled /\ sq'[0].cqid = 0
          /\ sq'[0].head = sq'[0].tail
      BY <3>2 DEF NewSq, NewCq
    <3>4. QueuesFollowStatus'
      BY <1>2, <1>7, <2>3 DEF QueuesFollowStatus
    <3>5. EngineOnLiveQueue' /\ Drained'
      BY <1>1, <3>2, <3>3 DEF EngineOnLiveQueue, Drained
    <3> QED BY <1>3, <2>2, <3>4, <3>5 DEF Inv
  <2>4. CASE ~up
    <3>1. UNCHANGED <<sq, cq, busy, stalled>>
      BY <1>1, <1>7, <2>1, <2>4
    <3>2. QueuesFollowStatus'
      BY <1>2, <1>7, <2>4, <3>1 DEF Inv, QueuesFollowStatus, ReadyIffEnabled
    <3>3. EngineOnLiveQueue' /\ Drained'
      BY <3>1 DEF Inv, EngineOnLiveQueue, Drained
    <3> QED BY <1>3, <2>2, <3>2, <3>3 DEF Inv
  <2> QED BY <2>3, <2>4
<1> QED BY <1>6, <1>7

-----------------------------------------------------------------------------
(* The theorems.                                                           *)

(* nvme_ctrl_init establishes the invariant.                               *)
LEMMA InitInv == Init => Inv
<1> SUFFICES ASSUME Init PROVE Inv
  OBVIOUS
<1>1. /\ ZeroSq \in nvme_sq /\ ~ZeroSq.enabled /\ ZeroCq \in nvme_cq /\ ~ZeroCq.enabled
  BY QueueZero DEF ZeroSq, ZeroCq, nvme_sq, nvme_cq
<1>2. TypeOK
  BY <1>1, QueueAssumption DEF Init, TypeOK
<1>3. ReadyIffEnabled
  BY DEF Init, ReadyIffEnabled
<1>4. \A k \in QID : sq[k] = ZeroSq /\ cq[k] = ZeroCq
  BY DEF Init
<1>5. QueuesFollowStatus /\ EngineOnLiveQueue /\ Drained /\ Rings
  BY <1>1, <1>4, QueueZero
     DEF Init, QueuesFollowStatus, EngineOnLiveQueue, Drained, Rings, SqRing, CqRing
<1> QED BY <1>2, <1>3, <1>5 DEF Inv

(* Every step preserves it.                                                *)
LEMMA NextInv == Inv /\ [Next]_vars => Inv'
<1> SUFFICES ASSUME Inv, [Next]_vars PROVE Inv'
  OBVIOUS
<1>1. CASE RegisterWrite
  <2>1. ASSUME NEW en \in BOOLEAN, NEW shn \in BOOLEAN, WriteCC([en |-> en, shn |-> shn])
        PROVE  Inv'
    BY <2>1, ControllerConfiguration
  <2> QED BY <1>1, <2>1, AdminQueueSizes, Doorbell DEF RegisterWrite
<1>2. CASE nvme_ctrl_reset
  BY <1>2, DeviceReset
<1>3. CASE nvme_admin_cmd
  BY <1>3, CreateCq, CreateSq, DeleteCq, DeleteSq, OtherCommands, QueueZero
     DEF nvme_admin_cmd
<1>4. CASE \E q \in QID : OtherCommand(q) \/ FetchFails(q) \/ LoopEnds(q)
  BY <1>4, OtherCommands, EndOfLoop
<1>5. CASE UNCHANGED vars
  BY <1>5 DEF vars, Inv, TypeOK, ReadyIffEnabled, QueuesFollowStatus, EngineOnLiveQueue,
              Drained, Rings
<1> QED BY <1>1, <1>2, <1>3, <1>4, <1>5 DEF Next, nvme_process_sq

(* The invariant holds in every state of the controller.                   *)
THEOREM Invariance == Spec => []Inv
  BY InitInv, NextInv, PTL DEF Spec

(* Every variable keeps its type; a submission queue always names a        *)
(* completion queue of the array, which nvme_post_cqe indexes unchecked.   *)
THEOREM TypeCorrect == Spec => []TypeOK
<1>1. Inv => TypeOK
  BY DEF Inv
<1> QED BY <1>1, Invariance, PTL

(* CSTS.RDY follows CC.EN, and nvme_queues_down is called on every way out *)
(* of the ready state, so that nvme_enable finds no queue of an earlier    *)
(* driver.                                                                 *)
THEOREM StatusTellsTheTruth == Spec => []StatusIsTrue
<1>1. Inv => StatusIsTrue
  BY DEF Inv, StatusIsTrue
<1> QED BY <1>1, Invariance, PTL

(* One test of sq->enabled before the loop of nvme_process_sq is enough.   *)
THEOREM LoopKeepsItsQueue == Spec => []EngineOnLiveQueue
<1>1. Inv => EngineOnLiveQueue
  BY DEF Inv
<1> QED BY <1>1, Invariance, PTL

(* Between two accesses every live queue is drained, or its fetch failed.  *)
THEOREM NothingLeftBehind == Spec => []Drained
<1>1. Inv => Drained
  BY DEF Inv
<1> QED BY <1>1, Invariance, PTL

(* sq->head and cq->tail never leave their rings, for sizes up to the full *)
(* range of their 16 bits.                                                 *)
THEOREM IndicesInRings == Spec => []RingBounds
<1>1. Inv => RingBounds
  <2> SUFFICES ASSUME Inv, NEW q \in QID
               PROVE  /\ sq[q].enabled => sq[q].size > 0 /\ sq[q].head < sq[q].size
                      /\ cq[q].enabled => cq[q].size > 0 /\ cq[q].tail < cq[q].size
    BY DEF RingBounds
  <2>1. SqRing(sq[q]) /\ CqRing(cq[q], passed[q])
    BY DEF Inv, Rings
  <2> QED BY <2>1, QueueAssumption DEF SqRing, CqRing
<1> QED BY <1>1, Invariance, PTL

(* The phase tag of nvme_post_cqe is the parity of the pass.               *)
THEOREM PhaseIsThePass == Spec => []PhaseTagsPasses
<1>1. Inv => PhaseTagsPasses
  BY DEF Inv, Rings, CqRing, PhaseTagsPasses
<1> QED BY <1>1, Invariance, PTL
=============================================================================
