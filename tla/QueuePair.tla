----------------------------- MODULE QueuePair -----------------------------
(***************************************************************************)
(* A submission queue and its completion queue in the host's memory, with  *)
(* the host on one side and nvme_process_sq and nvme_post_cqe (src/nvme.c) *)
(* on the other.  The server is one thread; the host is not, and writes    *)
(* submissions and reads completions while the server works.  A doorbell   *)
(* write is a message: `bell` is the one in flight.                        *)
(*                                                                         *)
(* The host is the one of tests/client_hammer.c (mode_doorbell): it fills  *)
(* the ring without ever filling it up, rings the doorbell, and takes a    *)
(* completion when its phase tag is the expected one.  It frees submission *)
(* entries by the head that completions report.  The device never looks at *)
(* the completion queue's head doorbell, so it is the host that must keep  *)
(* its outstanding commands within the completion queue: WindowAssumption. *)
(* CAP.MQES keeps a host from asking for a queue of 2^16 entries, in which *)
(* the device's tail would wrap without a turn of the phase (NvmeCtrl).    *)
(***************************************************************************)
EXTENDS Integers, Sequences

CONSTANTS
  Cmd,      \* commands; the entry of zeroed memory is 0
  Aer,      \* those that are asynchronous event requests
  SqSize, CqSize,
  TailMod,  \* 2^16: cq->tail is a uint16_t
  Window,   \* commands the host keeps outstanding at most
  AerLimit, \* event requests the host sends at most
  Faults    \* what may go wrong: "fetch", "post", "delete", "create", "down"

ASSUME WindowAssumption ==
  /\ 0 \in Cmd /\ Aer \subseteq Cmd
  /\ SqSize \in Nat \ {0} /\ CqSize \in Nat \ {0}
  /\ TailMod \in Nat /\ CqSize < TailMod
  /\ Window \in Nat /\ Window <= CqSize /\ AerLimit \in Nat

NoBell == SqSize

VARIABLES
  sqMem, cqMem,   \* the two rings, in host memory
  hTail, hSqHead, \* host: next entry to fill, device's head as last reported
  hHead, hPhase,  \* host: next completion to read and its phase tag
  outstanding,    \* host: commands submitted and not answered
  aers,           \* host: event requests submitted
  bell,           \* tail doorbell in flight, or NoBell
  sq, cq,         \* n->sq[qid] and the n->cq[] it completes to
  busy,           \* nvme_process_sq runs
  intact,         \* history: none was lost since the completion queue was created
  lost,           \* history: one was lost since both queues were created
  visible         \* history: completions the host can read

host == <<hTail, hSqHead, hHead, hPhase, outstanding, aers>>
vars == <<sqMem, cqMem, host, bell, sq, cq, busy, intact, lost, visible>>

Cqe == [cmd : Cmd, sq_head : 0 .. SqSize - 1, phase : {0, 1}]
ZeroCqe == [cmd |-> 0, sq_head |-> 0, phase |-> 0]

NextIndex(i, n) == (i + 1) % n

-----------------------------------------------------------------------------
(* nvme_enable, or CREATE_CQ and CREATE_SQ: the queues start empty.        *)
NewSq == [head |-> 0, tail |-> 0, enabled |-> TRUE]
NewCq == [tail |-> 0, phase |-> 1, enabled |-> TRUE]

Init ==
  /\ sqMem = [i \in 0 .. SqSize - 1 |-> 0]
  /\ cqMem = [i \in 0 .. CqSize - 1 |-> ZeroCqe]
  /\ hTail = 0 /\ hSqHead = 0 /\ hHead = 0 /\ hPhase = 1
  /\ outstanding = 0 /\ aers = 0
  /\ bell = NoBell
  /\ sq = NewSq /\ cq = NewCq
  /\ busy = FALSE
  /\ intact = TRUE /\ lost = FALSE /\ visible = 0

(* The host.                                                               *)

Submit(c) ==
  /\ NextIndex(hTail, SqSize) # hSqHead
  /\ outstanding < Window
  /\ c \in Aer => aers < AerLimit
  /\ sqMem' = [sqMem EXCEPT ![hTail] = c]
  /\ hTail' = NextIndex(hTail, SqSize)
  /\ outstanding' = outstanding + 1
  /\ aers' = IF c \in Aer THEN aers + 1 ELSE aers
  /\ UNCHANGED <<cqMem, hSqHead, hHead, hPhase, bell, sq, cq, busy, intact, lost, visible>>

RingDoorbell ==
  /\ bell = NoBell /\ hTail # sq.tail
  /\ bell' = hTail
  /\ UNCHANGED <<sqMem, cqMem, host, sq, cq, busy, intact, lost, visible>>

Read ==
  /\ cqMem[hHead].phase = hPhase
  /\ hSqHead' = cqMem[hHead].sq_head
  /\ hHead' = NextIndex(hHead, CqSize)
  /\ hPhase' = IF hHead' = 0 THEN 1 - hPhase ELSE hPhase
  /\ outstanding' = outstanding - 1
  /\ visible' = visible - 1
  /\ UNCHANGED <<sqMem, cqMem, hTail, aers, bell, sq, cq, busy, intact, lost>>

(* The host clears its rings and creates the queues again, on a device     *)
(* that was reset or over the old ones.                                    *)
Restart ==
  /\ bell = NoBell /\ ~busy
  /\ sqMem' = [i \in 0 .. SqSize - 1 |-> 0]
  /\ cqMem' = [i \in 0 .. CqSize - 1 |-> ZeroCqe]
  /\ hTail' = 0 /\ hSqHead' = 0 /\ hHead' = 0 /\ hPhase' = 1
  /\ outstanding' = 0 /\ aers' = 0
  /\ sq' = NewSq /\ cq' = NewCq
  /\ intact' = TRUE /\ lost' = FALSE /\ visible' = 0
  /\ UNCHANGED <<bell, busy>>

-----------------------------------------------------------------------------
(* The device.                                                             *)

(* nvme_bar0_access: the tail is stored whether or not there is a queue.   *)
TakeDoorbell ==
  /\ ~busy /\ bell # NoBell
  /\ sq' = [sq EXCEPT !.tail = bell]
  /\ busy' = sq.enabled
  /\ bell' = NoBell
  /\ UNCHANGED <<sqMem, cqMem, host, cq, intact, lost, visible>>

(* Variant: the phase survives a wrap.                                     *)
AdvancedKeepsPhase ==
  LET tail == (cq.tail + 1) % TailMod
  IN [cq EXCEPT !.tail = IF tail = CqSize THEN 0 ELSE tail]

Advanced ==
  LET tail == (cq.tail + 1) % TailMod
  IN IF tail = CqSize
     THEN [cq EXCEPT !.tail = 0, !.phase = 1 - cq.phase]
     ELSE [cq EXCEPT !.tail = tail]

(* nvme_post_cqe drops the completion when the queue is gone.  The result  *)
(* of the write to host memory is not looked at: the tail moves anyway.    *)
nvme_post_cqe(c, sq_head) ==
  \/ /\ ~cq.enabled
     /\ intact' = FALSE /\ lost' = TRUE
     /\ UNCHANGED <<cq, cqMem, visible>>
  \/ /\ cq.enabled
     /\ cq' = Advanced
     /\ cqMem' = [cqMem EXCEPT ![cq.tail] =
                    [cmd |-> c, sq_head |-> sq_head, phase |-> cq.phase]]
     /\ visible' = IF intact THEN visible + 1 ELSE visible
     /\ UNCHANGED <<intact, lost>>
  \/ /\ cq.enabled /\ "post" \in Faults
     /\ cq' = Advanced
     /\ intact' = FALSE /\ lost' = TRUE
     /\ UNCHANGED <<cqMem, visible>>

(* Variants: the head wraps at 16 bits; a completion reports the doorbell, *)
(* or the head before the fetch; an event request ends the loop.           *)
ExecuteWith(head, reported) ==
  LET c == sqMem[sq.head]
  IN /\ busy /\ sq.head # sq.tail
     /\ sq' = [sq EXCEPT !.head = head]
     /\ IF c \in Aer THEN UNCHANGED <<cq, cqMem, intact, lost, visible>>
        ELSE nvme_post_cqe(c, reported)
     /\ UNCHANGED <<sqMem, host, bell, busy>>
ExecuteNoWrap == ExecuteWith(sq.head + 1, sq.head)
ExecuteReportsTail == ExecuteWith(NextIndex(sq.head, SqSize), sq.tail)
ExecuteReportsOldHead == ExecuteWith(NextIndex(sq.head, SqSize), sq.head)
ExecuteStopsAtAer ==
  LET c == sqMem[sq.head]
      head == NextIndex(sq.head, SqSize)
  IN /\ busy /\ sq.head # sq.tail
     /\ sq' = [sq EXCEPT !.head = head]
     /\ IF c \in Aer THEN UNCHANGED <<cq, cqMem, intact, lost, visible>>
        ELSE nvme_post_cqe(c, head)
     /\ busy' = (c \notin Aer)
     /\ UNCHANGED <<sqMem, host, bell>>

(* One command of the loop of nvme_process_sq.                             *)
Execute ==
  LET c == sqMem[sq.head]
      head == NextIndex(sq.head, SqSize)
  IN /\ busy /\ sq.head # sq.tail
     /\ sq' = [sq EXCEPT !.head = head]
     /\ IF c \in Aer THEN UNCHANGED <<cq, cqMem, intact, lost, visible>>
        ELSE nvme_post_cqe(c, head)
     /\ UNCHANGED <<sqMem, host, bell, busy>>

LoopEnds ==
  /\ busy /\ sq.head = sq.tail
  /\ busy' = FALSE
  /\ UNCHANGED <<sqMem, cqMem, host, bell, sq, cq, intact, lost, visible>>

(* Variant: the head moves before the entry is fetched.                    *)
FetchFailsSkips ==
  /\ "fetch" \in Faults
  /\ busy /\ sq.head # sq.tail
  /\ sq' = [sq EXCEPT !.head = NextIndex(sq.head, SqSize)]
  /\ busy' = FALSE
  /\ UNCHANGED <<sqMem, cqMem, host, bell, cq, intact, lost, visible>>

(* The entry cannot be read: the loop ends and leaves it in the queue.     *)
FetchFails ==
  /\ "fetch" \in Faults
  /\ busy /\ sq.head # sq.tail
  /\ busy' = FALSE
  /\ UNCHANGED <<sqMem, cqMem, host, bell, sq, cq, intact, lost, visible>>

(* DELETE_CQ on the admin queue, although the submission queue uses it.    *)
DeleteCq ==
  /\ "delete" \in Faults
  /\ ~busy
  /\ cq' = [cq EXCEPT !.enabled = FALSE]
  /\ UNCHANGED <<sqMem, cqMem, host, bell, sq, busy, intact, lost, visible>>

(* Variant: CREATE_CQ of a queue that is there keeps its tail and phase.   *)
CreateCqKeepsTail ==
  /\ "create" \in Faults
  /\ ~busy
  /\ cqMem' = [i \in 0 .. CqSize - 1 |-> ZeroCqe]
  /\ hHead' = 0 /\ hPhase' = 1
  /\ cq' = [cq EXCEPT !.enabled = TRUE]
  /\ intact' = TRUE /\ visible' = 0
  /\ lost' = (lost \/ visible > 0)
  /\ UNCHANGED <<sqMem, hTail, hSqHead, outstanding, aers, bell, sq, busy>>

(* CREATE_CQ on the admin queue while the submission queue lives: the host *)
(* clears the ring and reads it from its start.  What it had not read is   *)
(* lost, and what it has submitted will be answered in the new queue.      *)
nvme_admin_create_cq ==
  /\ "create" \in Faults
  /\ ~busy
  /\ cqMem' = [i \in 0 .. CqSize - 1 |-> ZeroCqe]
  /\ hHead' = 0 /\ hPhase' = 1
  /\ cq' = NewCq
  /\ intact' = TRUE /\ visible' = 0
  /\ lost' = (lost \/ visible > 0)
  /\ UNCHANGED <<sqMem, hTail, hSqHead, outstanding, aers, bell, sq, busy>>

(* nvme_queues_down: shutdown, controller reset or device reset.           *)
nvme_queues_down ==
  /\ "down" \in Faults
  /\ ~busy
  /\ sq' = [sq EXCEPT !.enabled = FALSE]
  /\ cq' = [cq EXCEPT !.enabled = FALSE]
  /\ UNCHANGED <<sqMem, cqMem, host, bell, busy, intact, lost, visible>>

Device == TakeDoorbell \/ Execute \/ LoopEnds

Next ==
  \/ \E c \in Cmd : Submit(c)
  \/ RingDoorbell \/ Read \/ Restart
  \/ Device
  \/ FetchFails \/ DeleteCq \/ nvme_admin_create_cq \/ nvme_queues_down

Spec == Init /\ [][Next]_vars

(* The server reads its messages and its loop runs.  Of the host it is     *)
(* assumed that it rings the doorbell for what it submits, and polls.      *)
FairSpec == Spec /\ WF_vars(Device) /\ WF_vars(RingDoorbell) /\ WF_vars(Read)

-----------------------------------------------------------------------------
(* Entries from a to b, walking up a ring of n; the k-th entry from h.     *)
Dist(a, b, n) == IF a <= b THEN b - a ELSE b - a + n
Slot(h, k, n) == IF h + k - 1 < n THEN h + k - 1 ELSE h + k - 1 - n

Unfetched == Dist(sq.head, hTail, SqSize)
Posted == IF cq.phase = hPhase THEN cq.tail - hHead ELSE cq.tail - hHead + CqSize

(* What the rings stand for.                                               *)
Ring(f, h, k, n) == [j \in 1 .. k |-> f[Slot(h, j, n)]]
Todo == Ring(sqMem, sq.head, Unfetched, SqSize)
Answers == Ring([i \in 0 .. CqSize - 1 |-> cqMem[i].cmd], hHead, visible, CqSize)

Fifo == INSTANCE CommandFifo WITH todo <- Todo, answers <- Answers

-----------------------------------------------------------------------------
(* Properties.                                                             *)

(* Every variable has its type, and the indices are inside their rings.    *)
TypeOK ==
  /\ sqMem \in [0 .. SqSize - 1 -> Cmd] /\ cqMem \in [0 .. CqSize - 1 -> Cqe]
  /\ hTail \in 0 .. SqSize - 1 /\ hSqHead \in 0 .. SqSize - 1
  /\ hHead \in 0 .. CqSize - 1 /\ hPhase \in {0, 1}
  /\ outstanding \in Nat /\ aers \in Nat
  /\ bell \in 0 .. SqSize
  /\ sq \in [head : 0 .. SqSize - 1, tail : 0 .. SqSize - 1, enabled : BOOLEAN]
  /\ cq \in [tail : 0 .. CqSize - 1, phase : {0, 1}, enabled : BOOLEAN]
  /\ busy \in BOOLEAN /\ intact \in BOOLEAN /\ lost \in BOOLEAN /\ visible \in Nat

(* Although nothing in nvme_post_cqe looks for a full queue, the entry it  *)
(* is about to write is never one the host has yet to read, and the phase  *)
(* tag tells the host exactly which entries are new: also after lost       *)
(* completions, and while the host reads behind the writing device.        *)
NoOverrun ==
  /\ Posted \in 0 .. Window
  /\ cq.enabled /\ busy /\ sq.head # sq.tail => Posted < CqSize
  /\ (cqMem[hHead].phase = hPhase) <=> visible > 0

(* The head that a completion reports is safe to use: between it and the   *)
(* device's own head there is no entry still to be fetched, in every       *)
(* completion that waits to be read.                                       *)
ReportedHeadIsPast ==
  /\ Unfetched <= Dist(hSqHead, hTail, SqSize)
  /\ \A i \in 0 .. CqSize - 1 : Dist(hHead, i, CqSize) < visible =>
       Unfetched <= Dist(cqMem[i].sq_head, hTail, SqSize)

(* Event requests are never answered, so their entries come free only with *)
(* the head that a later completion reports.  Once every other command has *)
(* been answered, they are all the host still counts as used: a host that  *)
(* keeps to its limit never finds the ring full for good.                  *)
QuietLeavesRoom ==
  ~lost /\ visible = 0 /\ (\A k \in 1 .. Unfetched : Todo[k] \in Aer)
    => Dist(hSqHead, hTail, SqSize) <= aers

(* The rings, doorbells and phase tags implement a queue of commands and a *)
(* queue of answers: each command once, in order, whatever is lost.        *)
FifoSpec == Fifo!Spec

(* And without faults none is left behind: each submitted command is       *)
(* executed and each answer reaches the host.                              *)
FifoFairSpec == Fifo!FairSpec
=============================================================================
