------------------------------ MODULE NvmeCtrl ------------------------------
(***************************************************************************)
(* The controller front-end (src/nvme.c): the registers CC, CSTS and AQA,  *)
(* the submission and completion queues, the admin commands that create    *)
(* and delete them, and the loop of nvme_process_sq that a tail doorbell   *)
(* starts.  The server has one thread: a register access or a reset is     *)
(* handled only while no loop runs, and the loop is one step per command,  *)
(* because the host sees its completions one by one.                       *)
(*                                                                         *)
(* The host may do anything.  Not kept: what is stored and never read      *)
(* again (INTMS, INTMC, cq.head, cq.irq, qid) and the queue addresses.     *)
(***************************************************************************)
EXTENDS Integers

CONSTANTS
  NVME_MAX_QUEUES, \* queues including the admin queue, which is queue 0
  TailMod,         \* 2^16: the tails and heads are uint16_t
  AdminSizes,      \* entries in the admin queues, as AQA says
  IoSizes,         \* entries in a queue to be created
  Tails,           \* the values the host writes to a tail doorbell
  QidArgs          \* queue ids in admin commands, also invalid ones

QID == 0 .. NVME_MAX_QUEUES - 1
Idle == NVME_MAX_QUEUES

(* ASQS and ACQS have 12 bits, so an admin queue is shorter than TailMod;  *)
(* an I/O queue can have all TailMod entries, although CAP.MQES allows the *)
(* host far fewer.  Zeroed AQA is a queue of one entry.                    *)
ASSUME QueueAssumption ==
  /\ NVME_MAX_QUEUES \in Nat \ {0} /\ TailMod \in Nat
  /\ AdminSizes \subseteq 1 .. TailMod - 1 /\ 1 \in AdminSizes
  /\ IoSizes \subseteq 1 .. TailMod
  /\ Tails \subseteq 0 .. TailMod - 1 /\ QidArgs \subseteq Nat

VARIABLES
  cc,      \* CC.EN, and whether CC.SHN is non-zero
  csts,    \* CSTS.RDY, and whether CSTS.SHST is "complete"
  aqa,     \* the sizes of the admin queues
  sq, cq,  \* n->sq, n->cq
  busy,    \* the queue nvme_process_sq works on, or Idle
  stalled, \* history: live queues whose last loop a failed fetch ended
  passed   \* history: completions posted to a queue, modulo two passes

engine == <<sq, cq, busy, stalled, passed>>
vars == <<cc, csts, aqa, sq, cq, busy, stalled, passed>>

nvme_sq == [size : Nat, cqid : QID, head : Nat, tail : Nat, enabled : BOOLEAN]
nvme_cq == [size : Nat, tail : Nat, phase : {0, 1}, enabled : BOOLEAN]

NewSq(size, cqid) ==
  [size |-> size, cqid |-> cqid, head |-> 0, tail |-> 0, enabled |-> TRUE]
NewCq(size) == [size |-> size, tail |-> 0, phase |-> 1, enabled |-> TRUE]
ZeroSq == [size |-> 0, cqid |-> 0, head |-> 0, tail |-> 0, enabled |-> FALSE]
ZeroCq == [size |-> 0, tail |-> 0, phase |-> 0, enabled |-> FALSE]

(* nvme_ctrl_init.                                                         *)
Init ==
  /\ cc = [en |-> FALSE, shn |-> FALSE]
  /\ csts = [rdy |-> FALSE, shst |-> FALSE]
  /\ aqa = [asqs |-> 1, acqs |-> 1]
  /\ sq = [q \in QID |-> ZeroSq]
  /\ cq = [q \in QID |-> ZeroCq]
  /\ busy = Idle
  /\ stalled = {}
  /\ passed = [q \in QID |-> 0]

-----------------------------------------------------------------------------
(* Registers.                                                              *)

(* Variant: only the admin queues go down.                                 *)
IoQueuesStayUp(qs) == [q \in QID |-> [qs[q] EXCEPT !.enabled = @ /\ q # 0]]

(* nvme_queues_down, on the submission or on the completion queues.        *)
QueuesDown(qs) == [q \in QID |-> [qs[q] EXCEPT !.enabled = FALSE]]

(* A write of CC.  EN rising: nvme_enable.  EN falling: nvme_disable.      *)
(* Then the shutdown notification, on a change of SHN only.                *)
CstsAfter(up, down, shut, resume) ==
  LET c == IF up THEN [rdy |-> TRUE, shst |-> FALSE]
           ELSE IF down THEN [rdy |-> FALSE, shst |-> FALSE] ELSE csts
  IN [rdy |-> c.rdy, shst |-> shut \/ (c.shst /\ ~resume)]

WriteCC(v) ==
  LET up     == v.en /\ ~cc.en
      down   == ~v.en /\ cc.en
      shut   == v.shn /\ ~cc.shn
      resume == ~v.shn /\ cc.shn
      sqs == IF up THEN [sq EXCEPT ![0] = NewSq(aqa.asqs, 0)]
             ELSE IF down THEN QueuesDown(sq) ELSE sq
      cqs == IF up THEN [cq EXCEPT ![0] = NewCq(aqa.acqs)]
             ELSE IF down THEN QueuesDown(cq) ELSE cq
  IN /\ busy = Idle
     /\ cc' = v
     /\ sq' = IF shut THEN QueuesDown(sqs) ELSE sqs
     /\ cq' = IF shut THEN QueuesDown(cqs) ELSE cqs
     /\ csts' = CstsAfter(up, down, shut, resume)
     /\ stalled' = IF up \/ down \/ shut THEN {} ELSE stalled
     /\ passed' = IF up THEN [passed EXCEPT ![0] = 0] ELSE passed
     /\ UNCHANGED <<aqa, busy>>

WriteAQA(asqs, acqs) ==
  /\ busy = Idle
  /\ aqa' = [asqs |-> asqs, acqs |-> acqs]
  /\ UNCHANGED <<cc, csts, engine>>

(* nvme_reset_cb, which the vfio-user library calls between two messages.  *)
nvme_ctrl_reset ==
  /\ busy = Idle
  /\ cc' = [en |-> FALSE, shn |-> FALSE]
  /\ csts' = [rdy |-> FALSE, shst |-> FALSE]
  /\ aqa' = [asqs |-> 1, acqs |-> 1]
  /\ sq' = QueuesDown(sq)
  /\ cq' = QueuesDown(cq)
  /\ stalled' = {}
  /\ UNCHANGED <<busy, passed>>

(* A tail doorbell: the tail is stored even when there is no such queue.   *)
TailDoorbell(q, tail) ==
  /\ busy = Idle
  /\ sq' = [sq EXCEPT ![q] = [sq[q] EXCEPT !.tail = tail]]
  /\ busy' = IF sq[q].enabled THEN q ELSE Idle
  /\ stalled' = stalled \ {q}
  /\ UNCHANGED <<cc, csts, aqa, cq, passed>>

-----------------------------------------------------------------------------
(* Variant: the tail wraps and the phase stays.                            *)
AdvancedKeepsPhase(c) ==
  LET tail == (c.tail + 1) % TailMod
  IN [c EXCEPT !.tail = IF tail = c.size THEN 0 ELSE tail]

(* nvme_post_cqe: nothing for a queue that is gone, otherwise one entry at *)
(* the tail, whether or not the write to the host succeeds.                *)
Advanced(c) ==
  LET tail == (c.tail + 1) % TailMod
  IN IF tail = c.size THEN [c EXCEPT !.tail = 0, !.phase = 1 - c.phase]
     ELSE [c EXCEPT !.tail = tail]

nvme_post_cqe(cqs, counts, q) ==
  IF cqs[q].enabled
  THEN /\ cq' = [cqs EXCEPT ![q] = Advanced(cqs[q])]
       /\ passed' = [counts EXCEPT ![q] = (counts[q] + 1) % (2 * cqs[q].size)]
  ELSE cq' = cqs /\ passed' = counts

(* The head of a queue moves before its command is executed.               *)
WithHead(q, head) == [sq EXCEPT ![q] = [sq[q] EXCEPT !.head = head]]

(* Variants: the head wraps at 16 bits, not at the size; it wraps to 1.    *)
FetchedNoWrap(q) == WithHead(q, (sq[q].head + 1) % TailMod)
FetchedSkipsZero(q) == WithHead(q, IF sq[q].head + 1 < sq[q].size THEN sq[q].head + 1 ELSE 1)

Fetched(q) == WithHead(q, (sq[q].head + 1) % sq[q].size)

Working(q) == busy = q /\ sq[q].head # sq[q].tail

(* Variant: the admin queue may be deleted and created.                    *)
AnyQid(qid) == qid < NVME_MAX_QUEUES

(* The admin commands.  Each completion goes to the completion queue that  *)
(* the submission queue names, here the admin one.                         *)
ValidQid(qid) == qid # 0 /\ qid < NVME_MAX_QUEUES

nvme_admin_create_cq(qid, size) ==
  /\ Working(0)
  /\ sq' = Fetched(0)
  /\ IF ValidQid(qid)
     THEN nvme_post_cqe([cq EXCEPT ![qid] = NewCq(size)], [passed EXCEPT ![qid] = 0], sq[0].cqid)
     ELSE nvme_post_cqe(cq, passed, sq[0].cqid)
  /\ UNCHANGED <<cc, csts, aqa, busy, stalled>>

(* Variants: the queue is not cleared; cqid is not checked.                *)
CreateSqKeepsTail(qid, size, cqid) ==
  LET valid == ValidQid(qid) /\ cqid \in QID /\ cq[cqid].enabled
      new == [sq[qid] EXCEPT !.size = size, !.cqid = cqid, !.head = 0, !.enabled = TRUE] IN
  /\ Working(0)
  /\ sq' = IF valid THEN [Fetched(0) EXCEPT ![qid] = new] ELSE Fetched(0)
  /\ stalled' = IF valid THEN stalled \ {qid} ELSE stalled
  /\ nvme_post_cqe(cq, passed, sq[0].cqid)
  /\ UNCHANGED <<cc, csts, aqa, busy>>
CreateSqAnyCqid(qid, size, cqid) ==
  LET valid == ValidQid(qid) /\ (cqid \in QID => cq[cqid].enabled) IN
  /\ Working(0)
  /\ sq' = IF valid THEN [Fetched(0) EXCEPT ![qid] = NewSq(size, cqid)] ELSE Fetched(0)
  /\ stalled' = IF valid THEN stalled \ {qid} ELSE stalled
  /\ nvme_post_cqe(cq, passed, sq[0].cqid)
  /\ UNCHANGED <<cc, csts, aqa, busy>>

nvme_admin_create_sq(qid, size, cqid) ==
  LET valid == ValidQid(qid) /\ cqid \in QID /\ cq[cqid].enabled IN
  /\ Working(0)
  /\ sq' = IF valid THEN [Fetched(0) EXCEPT ![qid] = NewSq(size, cqid)] ELSE Fetched(0)
  /\ stalled' = IF valid THEN stalled \ {qid} ELSE stalled
  /\ nvme_post_cqe(cq, passed, sq[0].cqid)
  /\ UNCHANGED <<cc, csts, aqa, busy>>

WithoutCq(qid) == [cq EXCEPT ![qid] = [cq[qid] EXCEPT !.enabled = FALSE]]

nvme_admin_delete_cq(qid) ==
  LET gone == IF ValidQid(qid) THEN WithoutCq(qid) ELSE cq IN
  /\ Working(0)
  /\ sq' = Fetched(0)
  /\ nvme_post_cqe(gone, passed, sq[0].cqid)
  /\ UNCHANGED <<cc, csts, aqa, busy, stalled>>

nvme_admin_delete_sq(qid) ==
  /\ Working(0)
  /\ sq' = IF ValidQid(qid) THEN [Fetched(0) EXCEPT ![qid] = [sq[qid] EXCEPT !.enabled = FALSE]]
           ELSE Fetched(0)
  /\ stalled' = IF ValidQid(qid) THEN stalled \ {qid} ELSE stalled
  /\ nvme_post_cqe(cq, passed, sq[0].cqid)
  /\ UNCHANGED <<cc, csts, aqa, busy>>

(* Asynchronous Event Request: left outstanding, never completed.          *)
AsyncEvent ==
  /\ Working(0)
  /\ sq' = Fetched(0)
  /\ UNCHANGED <<cc, csts, aqa, cq, busy, stalled, passed>>

(* Identify, Get and Set Features, Get Log Page, unknown opcodes,          *)
(* and on an I/O queue every KV command: a completion and no effect on the *)
(* controller.  The completion goes to the queue's completion queue, which *)
(* may be gone.                                                            *)
OtherCommand(q) ==
  /\ Working(q)
  /\ sq' = Fetched(q)
  /\ nvme_post_cqe(cq, passed, sq[q].cqid)
  /\ UNCHANGED <<cc, csts, aqa, busy, stalled>>

FetchFails(q) ==
  /\ Working(q)
  /\ busy' = Idle
  /\ stalled' = stalled \cup {q}
  /\ UNCHANGED <<cc, csts, aqa, sq, cq, passed>>

LoopEnds(q) ==
  /\ busy = q /\ sq[q].head = sq[q].tail
  /\ busy' = Idle
  /\ UNCHANGED <<cc, csts, aqa, sq, cq, stalled, passed>>

nvme_admin_cmd ==
  \/ \E qid \in QidArgs, size \in IoSizes : nvme_admin_create_cq(qid, size)
  \/ \E qid, cqid \in QidArgs, size \in IoSizes : nvme_admin_create_sq(qid, size, cqid)
  \/ \E qid \in QidArgs : nvme_admin_delete_cq(qid) \/ nvme_admin_delete_sq(qid)
  \/ AsyncEvent

nvme_process_sq ==
  \/ nvme_admin_cmd
  \/ \E q \in QID : OtherCommand(q) \/ FetchFails(q) \/ LoopEnds(q)

RegisterWrite ==
  \/ \E en, shn \in BOOLEAN : WriteCC([en |-> en, shn |-> shn])
  \/ \E asqs, acqs \in AdminSizes : WriteAQA(asqs, acqs)
  \/ \E q \in QID, tail \in Tails : TailDoorbell(q, tail)

Next == RegisterWrite \/ nvme_ctrl_reset \/ nvme_process_sq

Spec == Init /\ [][Next]_vars

(* The loop is code that runs; what the host does is up to the host.       *)
FairSpec == Spec /\ WF_vars(nvme_process_sq)

-----------------------------------------------------------------------------
(* Properties.                                                             *)

(* Every variable has its type; a submission queue names a completion      *)
(* queue of the array.                                                     *)
TypeOK ==
  /\ cc \in [en : BOOLEAN, shn : BOOLEAN]
  /\ csts \in [rdy : BOOLEAN, shst : BOOLEAN]
  /\ aqa \in [asqs : AdminSizes, acqs : AdminSizes]
  /\ sq \in [QID -> nvme_sq] /\ cq \in [QID -> nvme_cq]
  /\ busy \in QID \cup {Idle}
  /\ stalled \subseteq QID /\ passed \in [QID -> Nat]

(* CSTS.RDY follows CC.EN exactly, through shutdowns, resets and combined  *)
(* writes: a host never sees RDY=0 with EN=1, the state SPDK's reset       *)
(* "refuses to recover" from (nvme_reg_write, NVME_REG_CC).                *)
ReadyIffEnabled == csts.rdy <=> cc.en

(* No queue outlives the controller being ready, and none is up while the  *)
(* shutdown status says that the shutdown is complete.  So an enable finds *)
(* no queue of an earlier driver.                                          *)
QueuesFollowStatus ==
  \A q \in QID : sq[q].enabled \/ cq[q].enabled => csts.rdy /\ ~csts.shst

(* So the status register tells the truth about EN and about the queues,   *)
(* whatever sequence of register writes, resets and commands came before.  *)
StatusIsTrue == ReadyIffEnabled /\ QueuesFollowStatus

(* The loop of nvme_process_sq checks that its queue is enabled only once, *)
(* before the first command; no command it executes takes the queue away,  *)
(* and the admin queues come and go together.                              *)
EngineOnLiveQueue ==
  /\ busy # Idle => sq[busy].enabled
  /\ sq[0].enabled <=> cq[0].enabled
  /\ sq[0].enabled => sq[0].cqid = 0

(* Between two register accesses no submitted command is left in a queue,  *)
(* unless its fetch failed.  A doorbell written before its queue existed   *)
(* must not count: nvme_admin_create_sq and nvme_enable clear it.          *)
Drained ==
  \A q \in QID : sq[q].enabled /\ busy # q /\ q \notin stalled => sq[q].head = sq[q].tail

(* The indices stay inside the rings, so that no entry is read or written  *)
(* outside the memory the host gave for them.                              *)
RingBounds ==
  \A q \in QID : /\ sq[q].enabled => sq[q].size > 0 /\ sq[q].head < sq[q].size
                 /\ cq[q].enabled => cq[q].size > 0 /\ cq[q].tail < cq[q].size

(* The phase tag tells one pass over the ring from the next: it is 1 on    *)
(* odd passes and 0 on even ones, whatever was posted and dropped before.  *)
(* A queue of TailMod entries, beyond CAP.MQES, is the exception: its tail *)
(* wraps by overflow and its phase never changes.                          *)
PhaseTagsPasses ==
  \A q \in QID : cq[q].enabled /\ cq[q].size < TailMod =>
    /\ passed[q] < 2 * cq[q].size
    /\ cq[q].tail = IF passed[q] < cq[q].size THEN passed[q] ELSE passed[q] - cq[q].size
    /\ cq[q].phase = IF passed[q] < cq[q].size THEN 1 ELSE 0

(* A doorbell callback returns: whatever the commands are and however the  *)
(* queues change under it, the loop catches up with a tail inside its      *)
(* ring.  With a tail outside the ring, which no line rejects, it would    *)
(* spin for ever: nothing else is assumed of the host.                     *)
CallbackReturns ==
  (\E q \in QID : busy = q /\ sq[q].tail < sq[q].size) ~> (busy = Idle)
=============================================================================
