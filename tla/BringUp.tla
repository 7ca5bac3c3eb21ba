------------------------------ MODULE BringUp ------------------------------
(***************************************************************************)
(* A driver takes the device over from another one that shut it down, was  *)
(* unbound or crashed at any point, with a device reset in between or      *)
(* without.  The device (src/nvme.c): the register block, read and written *)
(* in words of 32 bits, nvme_enable and nvme_disable, the reset, and the   *)
(* admin commands of a bring-up.  The driver is external: it programs the  *)
(* admin queues and enables the controller as tests/client_harness.c does, *)
(* and first disables one that it finds enabled, waiting for CSTS.RDY each *)
(* time, as the comments of nvme_reg_write tell of SPDK.                   *)
(*                                                                         *)
(* Queue memory is abstracted to whose it is: driver d puts its queues at  *)
(* addresses of which both words are d.  INTMS and INTMC, which are stored *)
(* and never looked at, are left out, and so are failing transfers.        *)
(***************************************************************************)
EXTENDS Integers, Sequences

CONSTANTS
  Driver,          \* the drivers
  NVME_MAX_QUEUES, \* queues, with the admin queue
  Wants,           \* I/O queues a driver asks for, 0-based
  nsze             \* size of the namespace

ASSUME DriverAssumption ==
  /\ Driver \subseteq Nat \ {0}
  /\ NVME_MAX_QUEUES \in Nat /\ NVME_MAX_QUEUES >= 2
  /\ Wants \subseteq Nat /\ nsze \in Nat \ {0}

VARIABLES
  reg,         \* CC, CSTS, AQA: a word each; ASQ, ACQ: two words, low first
  adm,         \* the admin queues: up, and the memory they are in
  cq, sq,      \* for each I/O queue the memory it is in, 0 when it is not up
  ednek, nuse, \* of the namespace
  d,           \* the driver at work
  phase,       \* how far it is
  todo,        \* register writes it has still to make
  grant,       \* I/O queue pairs it may create
  made         \* queues it has created: 1, CQ 1; 2, SQ 1; 3, CQ 2; ...

queues == <<adm, cq, sq>>
host == <<d, phase, todo, grant, made>>
vars == <<reg, queues, ednek, nuse, host>>

IoQid == 1 .. NVME_MAX_QUEUES - 1

(* Offsets in words.  CAP, VS and the reserved words read as constants.    *)
CC == 5
CSTS == 7
AQA == 9
ASQ == 10
ACQ == 12

(* The bits of CC and CSTS that the code looks at.                         *)
En(w) == w % 2 = 1
Shn(w) == (w \div 2) % 2 = 1
Rdy(w) == w % 2 = 1
Shst(w) == (w \div 2) % 2 = 1
Bits(low, high) == (IF low THEN 1 ELSE 0) + (IF high THEN 2 ELSE 0)

ZeroReg == [cc |-> 0, csts |-> 0, aqa |-> 0, asq |-> <<0, 0>>, acq |-> <<0, 0>>]
Up(aqa, asq, acq) == [up |-> TRUE, aqa |-> aqa, asq |-> asq, acq |-> acq]

Init ==
  /\ reg = ZeroReg
  /\ adm = [up |-> FALSE, aqa |-> 0, asq |-> <<0, 0>>, acq |-> <<0, 0>>]
  /\ cq = [q \in IoQid |-> 0] /\ sq = [q \in IoQid |-> 0]
  /\ ednek = 0 /\ nuse = 0
  /\ d = 0 /\ phase = "gone" /\ todo = {} /\ grant = 0 /\ made = 0

-----------------------------------------------------------------------------
(* Registers.                                                              *)

(* Variant: only the admin queues go down.                                 *)
AdminQueuesDown(a) == adm' = [a EXCEPT !.up = FALSE] /\ UNCHANGED <<cq, sq>>

nvme_queues_down(a) ==
  /\ adm' = [a EXCEPT !.up = FALSE]
  /\ cq' = [q \in IoQid |-> 0] /\ sq' = [q \in IoQid |-> 0]

(* Variant: a shutdown also clears RDY, as the code once did.              *)
ShutdownClearsReady(up, down, shut, resume) ==
  LET rdy == up \/ (Rdy(reg.csts) /\ ~down)
      shst == Shst(reg.csts) /\ ~up /\ ~down
  IN Bits(rdy /\ ~shut, shut \/ (shst /\ ~resume))

CstsAfter(up, down, shut, resume) ==
  LET rdy == up \/ (Rdy(reg.csts) /\ ~down)
      shst == Shst(reg.csts) /\ ~up /\ ~down
  IN Bits(rdy, shut \/ (shst /\ ~resume))

(* A write of CC: nvme_enable or nvme_disable on a change of EN, then the  *)
(* shutdown notification on a change of SHN.                               *)
WriteCC(v) ==
  LET up     == En(v) /\ ~En(reg.cc)
      down   == ~En(v) /\ En(reg.cc)
      shut   == Shn(v) /\ ~Shn(reg.cc)
      resume == ~Shn(v) /\ Shn(reg.cc)
      enabled == IF up THEN Up(reg.aqa, reg.asq, reg.acq) ELSE adm
  IN /\ reg' = [reg EXCEPT !.cc = v, !.csts = CstsAfter(up, down, shut, resume)]
     /\ IF down \/ shut THEN nvme_queues_down(enabled)
        ELSE adm' = enabled /\ UNCHANGED <<cq, sq>>

(* Variant: the width of the access is not looked at.                      *)
WideAnyCount(old, base, offset, buf) ==
  IF offset = base THEN buf ELSE IF offset = base + 1 THEN <<old[1], buf[1]>> ELSE old

(* A 64-bit register at base is written at once or by halves.              *)
Wide(old, base, offset, buf) ==
  IF offset = base THEN IF Len(buf) = 2 THEN buf ELSE <<buf[1], old[2]>>
  ELSE IF offset = base + 1 THEN <<old[1], buf[1]>> ELSE old

nvme_reg_write(offset, buf) ==
  \/ offset = CC /\ WriteCC(buf[1])
  \/ /\ offset # CC
     /\ reg' = [reg EXCEPT !.aqa = IF offset = AQA THEN buf[1] ELSE @,
                           !.asq = Wide(@, ASQ, offset, buf),
                           !.acq = Wide(@, ACQ, offset, buf)]
     /\ UNCHANGED queues

(* The register block as nvme_reg_read lays it out.                        *)
Image == <<0, 0, 0, 0, 0, reg.cc, 0, reg.csts, 0, reg.aqa>> \o reg.asq \o reg.acq \o <<0, 0>>
nvme_reg_read(offset) == Image[offset + 1]

nvme_ctrl_reset ==
  /\ reg' = ZeroReg
  /\ nvme_queues_down(adm)
  /\ UNCHANGED <<ednek, nuse>>

-----------------------------------------------------------------------------
(* Admin commands.                                                         *)

(* nvme_admin_identify: what the pages say that a driver acts on.          *)
IdCtrl == [cntrltype |-> "io", subnqn |-> TRUE, nn |-> 1]
IdNs == [nsze |-> nsze, ncap |-> nsze, nuse |-> nuse]
ActiveList == <<1>>
DescListCsi == "KV"
CsNs(csi) == IF csi = "KV" THEN [nsze |-> nsze, nuse |-> nuse] ELSE [nsze |-> 0, nuse |-> 0]
Nrdy == TRUE

(* Variant: as if the admin queue were not among NVME_MAX_QUEUES.          *)
GrantedOneMore(n) == IF n < NVME_MAX_QUEUES - 1 THEN n ELSE NVME_MAX_QUEUES - 1

(* Set Features, number of queues: 0-based on both sides.                  *)
Granted(n) == IF n < NVME_MAX_QUEUES - 2 THEN n ELSE NVME_MAX_QUEUES - 2

(* CREATE_CQ and CREATE_SQ: the second needs a completion queue that is    *)
(* up, and the admin queue's will do.                                      *)
CqUp(cqid) == cqid = 0 \/ (cqid \in IoQid /\ cq[cqid] # 0)
nvme_admin_create_cq(q) ==
  cq' = IF q \in IoQid THEN [cq EXCEPT ![q] = d] ELSE cq
nvme_admin_create_sq(q, cqid) ==
  sq' = IF q \in IoQid /\ CqUp(cqid) THEN [sq EXCEPT ![q] = d] ELSE sq

-----------------------------------------------------------------------------
(* The driver.                                                             *)

Mine == <<d, d>>
Write(offset, buf) == [offset |-> offset, buf |-> buf]

(* How driver e may program the admin queues.                              *)
Plans(e) ==
  {{Write(AQA, <<e>>)} \union asq \union acq :
     asq \in {{Write(ASQ, <<e, e>>)}, {Write(ASQ, <<e>>), Write(ASQ + 1, <<e>>)}},
     acq \in {{Write(ACQ, <<e, e>>)}, {Write(ACQ, <<e>>), Write(ACQ + 1, <<e>>)}}}

(* The next driver comes: a new client, for which the device is reset, or  *)
(* a guest that binds another driver.                                      *)
Arrive(e) ==
  /\ phase = "gone"
  /\ d' = e /\ phase' = "probe" /\ todo' \in Plans(e) /\ grant' = 0 /\ made' = 0
  /\ nvme_ctrl_reset \/ UNCHANGED <<reg, queues, ednek, nuse>>

Goto(p) == phase' = p /\ UNCHANGED <<d, todo, grant, made>>
DeviceIdle == UNCHANGED <<reg, queues, ednek, nuse>>

Probe ==
  /\ phase = "probe"
  /\ Goto(IF En(nvme_reg_read(CC)) THEN "wait_up" ELSE "setup")
  /\ DeviceIdle

(* EN is cleared once RDY says that the last enable has ended; SHN may be  *)
(* cleared with it or preserved.                                           *)
Disable ==
  /\ phase = "wait_up" /\ Rdy(nvme_reg_read(CSTS))
  /\ \E v \in {0, Bits(FALSE, Shn(nvme_reg_read(CC)))} : nvme_reg_write(CC, <<v>>)
  /\ Goto("wait_down")
  /\ UNCHANGED <<ednek, nuse>>

Disabled ==
  /\ phase = "wait_down" /\ ~Rdy(nvme_reg_read(CSTS))
  /\ Goto("setup")
  /\ DeviceIdle

Program ==
  /\ phase = "setup"
  /\ \E w \in todo : nvme_reg_write(w.offset, w.buf) /\ todo' = todo \ {w}
  /\ UNCHANGED <<ednek, nuse, d, phase, grant, made>>

Enable ==
  /\ phase = "setup" /\ todo = {}
  /\ nvme_reg_write(CC, <<Bits(TRUE, FALSE)>>)
  /\ Goto("wait_ready")
  /\ UNCHANGED <<ednek, nuse>>

Enabled ==
  /\ phase = "wait_ready" /\ Rdy(nvme_reg_read(CSTS))
  /\ Goto("identify")
  /\ DeviceIdle

(* An admin command is seen, and its completion too, only if the device    *)
(* has the admin queues where this driver has them.                        *)
Served == adm = Up(d, Mine, Mine)

(* The driver enumerates the namespaces; it fails when a page contradicts  *)
(* another.                                                                *)
Found ==
  /\ IdCtrl.cntrltype = "io" /\ IdCtrl.subnqn
  /\ \A i \in DOMAIN ActiveList : ActiveList[i] \in 1 .. IdCtrl.nn
  /\ CsNs(DescListCsi).nsze = IdNs.nsze /\ IdNs.ncap > 0 /\ IdNs.nuse <= IdNs.ncap
  /\ Nrdy

Identify ==
  /\ phase = "identify" /\ Served
  /\ Goto(IF Found THEN "features" ELSE "failed")
  /\ DeviceIdle

SetNumQueues ==
  /\ phase = "features" /\ Served
  /\ \E nsqr, ncqr \in Wants :
       grant' = 1 + (IF Granted(nsqr) < Granted(ncqr) THEN Granted(nsqr) ELSE Granted(ncqr))
  /\ phase' = "create"
  /\ UNCHANGED <<reg, queues, ednek, nuse, d, todo, made>>

Create ==
  LET q == made \div 2 + 1
  IN /\ phase = "create" /\ Served
     /\ IF made % 2 = 0
        THEN /\ nvme_admin_create_cq(q) /\ UNCHANGED sq
             /\ phase' = IF q \in IoQid THEN "create" ELSE "failed"
        ELSE /\ nvme_admin_create_sq(q, q) /\ UNCHANGED cq
             /\ phase' = IF q \notin IoQid \/ ~CqUp(q) THEN "failed"
                         ELSE IF q = grant THEN "ready" ELSE "create"
     /\ made' = made + 1
     /\ UNCHANGED <<reg, adm, ednek, nuse, d, todo, grant>>

(* Set Features, KV_EDNEK.                                                 *)
SetEdnek ==
  /\ phase = "ready" /\ Served
  /\ ednek' \in {0, 1}
  /\ UNCHANGED <<reg, queues, nuse, host>>

(* Keys are stored and deleted, within the size of the namespace.          *)
StoreOrDelete ==
  /\ phase = "ready"
  /\ nuse' \in 0 .. nsze
  /\ UNCHANGED <<reg, queues, ednek, host>>

Shutdown ==
  /\ phase = "ready"
  /\ nvme_reg_write(CC, <<Bits(TRUE, TRUE)>>)
  /\ Goto("wait_shutdown")
  /\ UNCHANGED <<ednek, nuse>>

ShutdownSeen ==
  /\ phase = "wait_shutdown" /\ Shst(nvme_reg_read(CSTS))
  /\ Goto("gone")
  /\ DeviceIdle

(* The driver is gone, at any point.                                       *)
Crash ==
  /\ phase # "gone"
  /\ Goto("gone")
  /\ DeviceIdle

Step ==
  \/ Probe \/ Disable \/ Disabled \/ Program \/ Enable \/ Enabled
  \/ Identify \/ SetNumQueues \/ Create \/ ShutdownSeen

Next == (\E e \in Driver : Arrive(e)) \/ Step \/ SetEdnek \/ StoreOrDelete \/ Shutdown \/ Crash

Spec == Init /\ [][Next]_vars

(* The driver goes on with what it has begun.  The device needs no         *)
(* fairness: each of its answers is part of the driver's access.           *)
FairSpec == Spec /\ WF_vars(Step)

-----------------------------------------------------------------------------
(* Properties.                                                             *)

Phases ==
  {"gone", "probe", "wait_up", "wait_down", "setup", "wait_ready", "identify", "features",
   "create", "ready", "wait_shutdown", "failed"}
Word == Nat

(* Every variable has its type.                                            *)
TypeOK ==
  /\ reg \in [cc : 0 .. 3, csts : 0 .. 3, aqa : Word, asq : Word \X Word, acq : Word \X Word]
  /\ adm \in [up : BOOLEAN, aqa : Word, asq : Word \X Word, acq : Word \X Word]
  /\ cq \in [IoQid -> Word] /\ sq \in [IoQid -> Word]
  /\ ednek \in {0, 1} /\ nuse \in 0 .. nsze
  /\ d \in Driver \union {0} /\ phase \in Phases
  /\ phase # "gone" => d \in Driver
  /\ \E p \in Plans(d) \union {{}} : todo \subseteq p
  /\ grant \in Nat /\ made \in Nat

(* A driver that has seen CSTS.RDY works with its own queues, wherever and *)
(* however its predecessors ended and in whatever order it wrote the       *)
(* halves of the addresses: the admin queues are in its memory, every I/O  *)
(* queue that is up is one it created, so that nothing is read from or     *)
(* written to the memory of a driver that is gone.                         *)
OwnsDevice ==
  phase \in {"identify", "features", "create", "ready"} =>
    /\ Served /\ reg.csts = Bits(TRUE, FALSE)
    /\ \A q \in IoQid : cq[q] = (IF 2 * q <= made + 1 THEN d ELSE 0)
                        /\ sq[q] = (IF 2 * q <= made THEN d ELSE 0)

(* Nothing that was offered is refused: as many queues as were granted can *)
(* be created, and the namespace that is listed can be identified.         *)
NeverRefused == phase # "failed"

(* A driver that goes on becomes ready, also on a device that was shut     *)
(* down, left half programmed, or never reset.                             *)
BringUpCompletes == phase = "probe" ~> phase \in {"ready", "gone"}

(* nvme_ctrl_reset is to "Reset the controller to its post-power-on state" *)
(* (src/nvme.h:109): after it every register and feature is as at first.   *)
ResetIsPowerOn == [][nvme_ctrl_reset => reg' = ZeroReg /\ ednek' = 0]_vars
=============================================================================
