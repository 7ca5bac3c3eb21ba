--------------------------- MODULE BringUpProofs ---------------------------
(***************************************************************************)
(* A driver that takes the device over gets queues of its own, for any     *)
(* number of drivers and queues and any history of the device.             *)
(***************************************************************************)
EXTENDS BringUp, TLAPS

(* No queue is up.                                                         *)
Quiet == ~adm.up /\ \A q \in IoQid : cq[q] = 0 /\ sq[q] = 0

(* A word of the admin queue registers is the driver's, unless its write   *)
(* is still to come.                                                       *)
Low(w, base) == w.offset = base
High(w, base) == w.offset = base + 1 \/ (w.offset = base /\ Len(w.buf) = 2)
Programmed ==
  /\ (\A w \in todo : ~Low(w, AQA)) => reg.aqa = d
  /\ (\A w \in todo : ~Low(w, ASQ)) => reg.asq[1] = d
  /\ (\A w \in todo : ~High(w, ASQ)) => reg.asq[2] = d
  /\ (\A w \in todo : ~Low(w, ACQ)) => reg.acq[1] = d
  /\ (\A w \in todo : ~High(w, ACQ)) => reg.acq[2] = d

(* The driver has the device for itself.                                   *)
Owned ==
  /\ Served /\ En(reg.cc) /\ reg.csts = Bits(TRUE, FALSE)
  /\ \A q \in IoQid : cq[q] = (IF 2 * q <= made + 1 THEN d ELSE 0)
                      /\ sq[q] = (IF 2 * q <= made THEN d ELSE 0)

PhaseInv ==
  /\ phase \in {"probe", "wait_up", "wait_down", "setup"} => Programmed /\ made = 0
  /\ phase \in {"wait_down", "setup"} => ~En(reg.cc)
  /\ phase \in {"wait_ready", "identify", "features", "create", "ready"} => Owned
  /\ phase \in {"wait_ready", "identify", "features"} => made = 0
  /\ phase = "create" => grant \in 1 .. NVME_MAX_QUEUES - 1 /\ made < 2 * grant
  /\ phase # "failed"

IInv ==
  /\ TypeOK
  /\ ~En(reg.cc) => Quiet
  /\ PhaseInv

-----------------------------------------------------------------------------
(* Registers.                                                              *)

LEMMA BitsAre ==
  /\ Bits(FALSE, FALSE) = 0 /\ Bits(TRUE, FALSE) = 1
  /\ Bits(FALSE, TRUE) = 2 /\ Bits(TRUE, TRUE) = 3
  /\ ~En(0) /\ En(1) /\ ~En(2) /\ En(3)
  /\ ~Shn(0) /\ ~Shn(1) /\ Shn(2) /\ Shn(3)
  BY DEF Bits, En, Shn

LEMMA BitsType == ASSUME NEW x \in BOOLEAN, NEW y \in BOOLEAN PROVE Bits(x, y) \in 0 .. 3
<1>1. (IF x THEN 1 ELSE 0) \in {0, 1} /\ (IF y THEN 2 ELSE 0) \in {0, 2}
  OBVIOUS
<1> QED BY <1>1 DEF Bits

(* nvme_queues_down leaves no queue.                                       *)
LEMMA DownIsQuiet ==
  ASSUME NEW a \in [up : BOOLEAN, aqa : Word, asq : Word \X Word, acq : Word \X Word],
         nvme_queues_down(a)
  PROVE  /\ Quiet'
         /\ adm' \in [up : BOOLEAN, aqa : Word, asq : Word \X Word, acq : Word \X Word]
         /\ cq' \in [IoQid -> Word] /\ sq' \in [IoQid -> Word]
  BY DEF nvme_queues_down, Quiet, Word

(* A write of CC keeps the types, and without EN it leaves no queue up.    *)
LEMMA CcWritten ==
  ASSUME TypeOK, ~En(reg.cc) => Quiet, NEW v \in 0 .. 3, nvme_reg_write(CC, <<v>>)
  PROVE  /\ reg' \in [cc : 0 .. 3, csts : 0 .. 3, aqa : Word, asq : Word \X Word,
                      acq : Word \X Word]
         /\ adm' \in [up : BOOLEAN, aqa : Word, asq : Word \X Word, acq : Word \X Word]
         /\ cq' \in [IoQid -> Word] /\ sq' \in [IoQid -> Word]
         /\ reg'.cc = v /\ reg'.aqa = reg.aqa /\ reg'.asq = reg.asq /\ reg'.acq = reg.acq
         /\ ~En(v) => Quiet'
<1> DEFINE A == [up : BOOLEAN, aqa : Word, asq : Word \X Word, acq : Word \X Word]
           up     == En(v) /\ ~En(reg.cc)
           down   == ~En(v) /\ En(reg.cc)
           shut   == Shn(v) /\ ~Shn(reg.cc)
           resume == ~Shn(v) /\ Shn(reg.cc)
           enabled == IF up THEN Up(reg.aqa, reg.asq, reg.acq) ELSE adm
<1>1. WriteCC(v)
  BY DEF nvme_reg_write
<1>2. /\ reg' = [reg EXCEPT !.cc = v, !.csts = CstsAfter(up, down, shut, resume)]
      /\ IF down \/ shut THEN nvme_queues_down(enabled)
         ELSE adm' = enabled /\ UNCHANGED <<cq, sq>>
  BY <1>1 DEF WriteCC
<1>3. CstsAfter(up, down, shut, resume) \in 0 .. 3
  BY BitsType DEF CstsAfter
<1>4. reg \in [cc : 0 .. 3, csts : 0 .. 3, aqa : Word, asq : Word \X Word, acq : Word \X Word]
      /\ adm \in A /\ cq \in [IoQid -> Word] /\ sq \in [IoQid -> Word]
  BY DEF TypeOK
<1>5. enabled \in A
  BY <1>4 DEF Up
<1> HIDE DEF enabled, A
<1>6. CASE down \/ shut
  <2>1. /\ Quiet' /\ adm' \in A /\ cq' \in [IoQid -> Word] /\ sq' \in [IoQid -> Word]
    BY <1>2, <1>5, <1>6, DownIsQuiet DEF A
  <2> QED BY <1>2, <1>3, <1>4, <2>1 DEF A
<1>7. CASE ~(down \/ shut)
  <2>1. adm' = enabled /\ cq' = cq /\ sq' = sq
    BY <1>2, <1>7
  <2>2. ~En(v) => Quiet'
    <3> SUFFICES ASSUME ~En(v) PROVE Quiet'
      OBVIOUS
    <3>1. ~En(reg.cc) /\ enabled = adm
      BY <1>7 DEF enabled
    <3> QED BY <2>1, <3>1 DEF Quiet
  <2> QED BY <1>2, <1>3, <1>4, <1>5, <2>1, <2>2 DEF A
<1> QED BY <1>6, <1>7

(* The writes that a driver has planned.                                   *)
LEMMA PlannedWrites ==
  ASSUME NEW e, NEW p \in Plans(e), NEW w \in p
  PROVE  \/ w.offset \in {AQA, ASQ, ASQ + 1, ACQ, ACQ + 1} /\ w.buf = <<e>>
         \/ w.offset \in {ASQ, ACQ} /\ w.buf = <<e, e>>
<1>1. PICK asq \in {{Write(ASQ, <<e, e>>)}, {Write(ASQ, <<e>>), Write(ASQ + 1, <<e>>)}},
           acq \in {{Write(ACQ, <<e, e>>)}, {Write(ACQ, <<e>>), Write(ACQ + 1, <<e>>)}} :
        p = {Write(AQA, <<e>>)} \union asq \union acq
  BY DEF Plans
<1>2. w \in {Write(AQA, <<e>>), Write(ASQ, <<e, e>>), Write(ASQ, <<e>>), Write(ASQ + 1, <<e>>),
             Write(ACQ, <<e, e>>), Write(ACQ, <<e>>), Write(ACQ + 1, <<e>>)}
  BY <1>1
<1> QED BY <1>2 DEF Write

(* A plan writes every word.                                               *)
LEMMA PlanIsComplete ==
  ASSUME NEW e, NEW p \in Plans(e)
  PROVE  /\ \E w \in p : Low(w, AQA)
         /\ \E w \in p : Low(w, ASQ)
         /\ \E w \in p : High(w, ASQ)
         /\ \E w \in p : Low(w, ACQ)
         /\ \E w \in p : High(w, ACQ)
<1>1. PICK asq \in {{Write(ASQ, <<e, e>>)}, {Write(ASQ, <<e>>), Write(ASQ + 1, <<e>>)}},
           acq \in {{Write(ACQ, <<e, e>>)}, {Write(ACQ, <<e>>), Write(ACQ + 1, <<e>>)}} :
        p = {Write(AQA, <<e>>)} \union asq \union acq
  BY DEF Plans
<1>2. \A b \in {ASQ, ACQ} : /\ Low(Write(b, <<e, e>>), b) /\ High(Write(b, <<e, e>>), b)
                            /\ Low(Write(b, <<e>>), b) /\ High(Write(b + 1, <<e>>), b)
  BY DEF Low, High, Write
<1>3. (\E w \in asq : Low(w, ASQ)) /\ (\E w \in asq : High(w, ASQ))
  <2>1. CASE asq = {Write(ASQ, <<e, e>>)}
    BY <1>2, <2>1
  <2>2. CASE asq = {Write(ASQ, <<e>>), Write(ASQ + 1, <<e>>)}
    BY <1>2, <2>2
  <2> QED BY <2>1, <2>2
<1>4. (\E w \in acq : Low(w, ACQ)) /\ (\E w \in acq : High(w, ACQ))
  <2>1. CASE acq = {Write(ACQ, <<e, e>>)}
    BY <1>2, <2>1
  <2>2. CASE acq = {Write(ACQ, <<e>>), Write(ACQ + 1, <<e>>)}
    BY <1>2, <2>2
  <2> QED BY <2>1, <2>2
<1>6. Low(Write(AQA, <<e>>), AQA)
  BY DEF Low, Write
<1> QED BY <1>1, <1>3, <1>4, <1>6

-----------------------------------------------------------------------------
(* The invariant is inductive.                                             *)

LEMMA InitInv == Init => IInv
<1> SUFFICES ASSUME Init PROVE IInv
  OBVIOUS
<1>1. reg \in [cc : 0 .. 3, csts : 0 .. 3, aqa : Word, asq : Word \X Word, acq : Word \X Word]
  BY DEF Init, ZeroReg, Word
<1>2. adm \in [up : BOOLEAN, aqa : Word, asq : Word \X Word, acq : Word \X Word]
  BY DEF Init, Word
<1>3. cq \in [IoQid -> Word] /\ sq \in [IoQid -> Word]
  BY DEF Init, Word
<1>4. \E p \in Plans(d) \union {{}} : todo \subseteq p
  BY DEF Init
<1>5. TypeOK
  BY <1>1, <1>2, <1>3, <1>4, DriverAssumption DEF Init, TypeOK, Phases
<1>6. Quiet
  BY DEF Init, Quiet
<1> QED BY <1>5, <1>6 DEF Init, IInv, PhaseInv

(* A driver arrives, after a reset or without.                             *)
LEMMA ArriveInv ==
  ASSUME IInv, NEW e \in Driver, Arrive(e)
  PROVE  IInv'
<1>1. /\ d' = e /\ phase' = "probe" /\ todo' \in Plans(e) /\ grant' = 0 /\ made' = 0
      /\ nvme_ctrl_reset \/ UNCHANGED <<reg, queues, ednek, nuse>>
  BY DEF Arrive
<1>2. /\ reg' \in [cc : 0 .. 3, csts : 0 .. 3, aqa : Word, asq : Word \X Word, acq : Word \X Word]
      /\ adm' \in [up : BOOLEAN, aqa : Word, asq : Word \X Word, acq : Word \X Word]
      /\ cq' \in [IoQid -> Word] /\ sq' \in [IoQid -> Word]
      /\ ednek' = ednek /\ nuse' = nuse
      /\ ~En(reg'.cc) => Quiet'
  <2>1. CASE nvme_ctrl_reset
    <3>1. reg' \in [cc : 0 .. 3, csts : 0 .. 3, aqa : Word, asq : Word \X Word, acq : Word \X Word]
      BY <2>1 DEF nvme_ctrl_reset, ZeroReg, Word
    <3>2. /\ Quiet' /\ cq' \in [IoQid -> Word] /\ sq' \in [IoQid -> Word]
          /\ adm' \in [up : BOOLEAN, aqa : Word, asq : Word \X Word, acq : Word \X Word]
      BY <2>1, DownIsQuiet DEF nvme_ctrl_reset, IInv, TypeOK
    <3> QED BY <2>1, <3>1, <3>2 DEF nvme_ctrl_reset
  <2>2. CASE UNCHANGED <<reg, queues, ednek, nuse>>
    BY <2>2 DEF queues, IInv, TypeOK, Quiet
  <2> QED BY <1>1, <2>1, <2>2
<1>3. \E p \in Plans(d') \union {{}} : todo' \subseteq p
  BY <1>1
<1>4. TypeOK'
  BY <1>1, <1>2, <1>3 DEF IInv, TypeOK, Phases
<1>5. Programmed'
  BY <1>1, PlanIsComplete DEF Programmed
<1> QED BY <1>1, <1>2, <1>4, <1>5 DEF IInv, PhaseInv

(* The driver goes from one phase to another and the device does nothing.  *)
LEMMA IdleInv ==
  ASSUME IInv, NEW p \in Phases, Goto(p), DeviceIdle, phase # "gone" \/ p = "gone", PhaseInv'
  PROVE  IInv'
<1>1. UNCHANGED <<reg, adm, cq, sq, ednek, nuse, d, todo, grant, made>> /\ phase' = p
  BY DEF Goto, DeviceIdle, queues
<1>2. TypeOK'
  BY <1>1 DEF IInv, TypeOK
<1> QED BY <1>1, <1>2 DEF IInv, Quiet

(* The facts about the driver's place in its bring-up carry over when      *)
(* nothing they speak of changes.                                          *)
LEMMA SamePlace ==
  ASSUME UNCHANGED <<reg, adm, cq, sq, d, todo, grant, made>>
  PROVE  (Programmed' <=> Programmed) /\ (Owned' <=> Owned)
  BY DEF Programmed, Owned, Served, Mine, Low, High

LEMMA WaitInv ==
  ASSUME IInv, Probe \/ Disabled \/ Enabled \/ Identify \/ ShutdownSeen \/ Crash
  PROVE  IInv'
<1>1. DeviceIdle
  BY DEF Probe, Disabled, Enabled, Identify, ShutdownSeen, Crash
<1>2. \A p : Goto(p) =>
        /\ UNCHANGED <<reg, adm, cq, sq, d, todo, grant, made>> /\ phase' = p
        /\ (Programmed' <=> Programmed) /\ (Owned' <=> Owned)
  BY <1>1, SamePlace DEF Goto, DeviceIdle, queues
<1>3. CASE Probe
  <2>1. PICK p \in {"wait_up", "setup"} :
          phase = "probe" /\ Goto(p) /\ (p = "setup" => ~En(nvme_reg_read(CC)))
    BY <1>3 DEF Probe
  <2>2. nvme_reg_read(CC) = reg.cc
    BY DEF nvme_reg_read, Image, CC, IInv, TypeOK
  <2>3. PhaseInv'
    BY <1>2, <2>1, <2>2 DEF IInv, PhaseInv
  <2> QED BY <1>1, <2>1, <2>3, IdleInv DEF Phases
<1>4. CASE Disabled
  <2>1. phase = "wait_down" /\ Goto("setup")
    BY <1>4 DEF Disabled
  <2>2. /\ UNCHANGED <<reg, grant, made>> /\ phase' = "setup"
        /\ (Programmed' <=> Programmed) /\ (Owned' <=> Owned)
    BY <1>2, <2>1
  <2>3. PhaseInv'
    BY <2>1, <2>2 DEF IInv, PhaseInv
  <2> QED BY <1>1, <2>1, <2>3, IdleInv DEF Phases
<1>5. CASE Enabled
  <2>1. phase = "wait_ready" /\ Goto("identify")
    BY <1>5 DEF Enabled
  <2>2. /\ UNCHANGED <<reg, grant, made>> /\ phase' = "identify"
        /\ (Programmed' <=> Programmed) /\ (Owned' <=> Owned)
    BY <1>2, <2>1
  <2>3. PhaseInv'
    BY <2>1, <2>2 DEF IInv, PhaseInv
  <2> QED BY <1>1, <2>1, <2>3, IdleInv DEF Phases
<1>6. CASE Identify
  <2>1. Found
    <3>1. nuse \in 0 .. nsze /\ nsze \in Nat \ {0}
      BY DriverAssumption DEF IInv, TypeOK
    <3>2. \A i \in DOMAIN ActiveList : ActiveList[i] \in 1 .. IdCtrl.nn
      BY DEF ActiveList, IdCtrl
    <3> QED BY <3>1, <3>2 DEF Found, IdCtrl, CsNs, DescListCsi, IdNs, Nrdy
  <2>2. phase = "identify" /\ Goto("features")
    BY <1>6, <2>1 DEF Identify
  <2>3. /\ UNCHANGED <<reg, grant, made>> /\ phase' = "features"
        /\ (Programmed' <=> Programmed) /\ (Owned' <=> Owned)
    BY <1>2, <2>2
  <2>4. PhaseInv'
    BY <2>2, <2>3 DEF IInv, PhaseInv
  <2> QED BY <1>1, <2>2, <2>4, IdleInv DEF Phases
<1>7. CASE ShutdownSeen \/ Crash
  <2>1. Goto("gone")
    BY <1>7 DEF ShutdownSeen, Crash
  <2>2. PhaseInv'
    BY <1>2, <2>1 DEF PhaseInv
  <2> QED BY <1>1, <2>1, <2>2, IdleInv DEF Phases
<1> QED BY <1>3, <1>4, <1>5, <1>6, <1>7

(* The driver writes CC and goes on to the next phase.                     *)
LEMMA WriteTypes ==
  ASSUME IInv, NEW v \in 0 .. 3, nvme_reg_write(CC, <<v>>), NEW p \in Phases, Goto(p),
         phase # "gone", UNCHANGED <<ednek, nuse>>
  PROVE  TypeOK' /\ (~En(reg'.cc) => Quiet') /\ reg'.cc = v
<1>1. /\ reg' \in [cc : 0 .. 3, csts : 0 .. 3, aqa : Word, asq : Word \X Word, acq : Word \X Word]
      /\ adm' \in [up : BOOLEAN, aqa : Word, asq : Word \X Word, acq : Word \X Word]
      /\ cq' \in [IoQid -> Word] /\ sq' \in [IoQid -> Word]
      /\ reg'.cc = v /\ (~En(v) => Quiet')
  BY CcWritten DEF IInv
<1>2. UNCHANGED <<d, todo, grant, made>> /\ phase' = p
  BY DEF Goto
<1>3. TypeOK'
  BY <1>1, <1>2 DEF IInv, TypeOK
<1> QED BY <1>1, <1>3

LEMMA DisableInv ==
  ASSUME IInv, Disable
  PROVE  IInv'
<1>1. PICK v \in {0, Bits(FALSE, Shn(nvme_reg_read(CC)))} : nvme_reg_write(CC, <<v>>)
  BY DEF Disable
<1>2. phase = "wait_up" /\ Goto("wait_down") /\ UNCHANGED <<ednek, nuse>>
  BY DEF Disable
<1>3. v \in {0, 2}
  BY <1>1 DEF Bits
<1>4. TypeOK' /\ (~En(reg'.cc) => Quiet') /\ reg'.cc = v
  BY <1>1, <1>2, <1>3, WriteTypes DEF Phases
<1>5. reg'.aqa = reg.aqa /\ reg'.asq = reg.asq /\ reg'.acq = reg.acq
  BY <1>1, <1>3, CcWritten DEF IInv
<1>6. UNCHANGED <<d, todo, grant, made>> /\ phase' = "wait_down"
  BY <1>2 DEF Goto
<1>7. Programmed' /\ made' = 0
  <2>1. Programmed /\ made = 0
    BY <1>2 DEF IInv, PhaseInv
  <2> QED BY <1>5, <1>6, <2>1 DEF Programmed, Low, High
<1>8. ~En(reg'.cc)
  BY <1>3, <1>4, BitsAre
<1> QED BY <1>4, <1>6, <1>7, <1>8 DEF IInv, PhaseInv

LEMMA EnableInv ==
  ASSUME IInv, Enable
  PROVE  IInv'
<1>1. /\ phase = "setup" /\ todo = {} /\ nvme_reg_write(CC, <<1>>)
      /\ Goto("wait_ready") /\ UNCHANGED <<ednek, nuse>>
  BY BitsAre DEF Enable
<1>2. TypeOK' /\ (~En(reg'.cc) => Quiet') /\ reg'.cc = 1
  BY <1>1, WriteTypes DEF Phases
<1>3. Programmed /\ made = 0 /\ ~En(reg.cc) /\ Quiet
  BY <1>1 DEF IInv, PhaseInv
<1>4. /\ reg.aqa = d /\ reg.asq[1] = d /\ reg.asq[2] = d /\ reg.acq[1] = d /\ reg.acq[2] = d
  BY <1>1, <1>3 DEF Programmed
<1>5. reg.aqa = d /\ reg.asq = <<d, d>> /\ reg.acq = <<d, d>>
  BY <1>4 DEF IInv, TypeOK
<1>6. WriteCC(1)
  BY <1>1 DEF nvme_reg_write
<1>7. adm' = Up(reg.aqa, reg.asq, reg.acq) /\ UNCHANGED <<cq, sq>>
  BY <1>3, <1>6, BitsAre DEF WriteCC
<1>8. reg'.csts = Bits(TRUE, FALSE)
  BY <1>3, <1>6, BitsAre DEF WriteCC, CstsAfter, Bits, IInv, TypeOK
<1>9. UNCHANGED <<d, todo, grant, made>> /\ phase' = "wait_ready"
  BY <1>1 DEF Goto
<1>10. Owned'
  <2>1. Served'
    BY <1>5, <1>7, <1>9 DEF Served, Mine
  <2>2. \A q \in IoQid : ~(2 * q <= made + 1) /\ ~(2 * q <= made)
    BY <1>3, DriverAssumption DEF IoQid
  <2>3. \A q \in IoQid : cq'[q] = 0 /\ sq'[q] = 0
    BY <1>3, <1>7 DEF Quiet
  <2> QED BY <1>2, <1>8, <1>9, <2>1, <2>2, <2>3, BitsAre DEF Owned
<1> QED BY <1>2, <1>3, <1>9, <1>10 DEF IInv, PhaseInv

LEMMA ShutdownInv ==
  ASSUME IInv, Shutdown
  PROVE  IInv'
<1>1. /\ phase = "ready" /\ nvme_reg_write(CC, <<3>>)
      /\ Goto("wait_shutdown") /\ UNCHANGED <<ednek, nuse>>
  BY BitsAre DEF Shutdown
<1>2. TypeOK' /\ (~En(reg'.cc) => Quiet')
  BY <1>1, WriteTypes DEF Phases
<1>3. phase' = "wait_shutdown"
  BY <1>1 DEF Goto
<1> QED BY <1>2, <1>3 DEF IInv, PhaseInv

(* One of the planned writes: a half or the whole of an address, or AQA.   *)
LEMMA ProgramInv ==
  ASSUME IInv, Program
  PROVE  IInv'
<1>1. PICK w \in todo : nvme_reg_write(w.offset, w.buf) /\ todo' = todo \ {w}
  BY DEF Program
<1>2. phase = "setup" /\ UNCHANGED <<ednek, nuse, d, phase, grant, made>>
  BY DEF Program
<1>3. PICK p \in Plans(d) \union {{}} : todo \subseteq p
  BY DEF IInv, TypeOK
<1>4. p \in Plans(d) /\ w \in p
  BY <1>1, <1>3
<1>5. \/ w.offset \in {AQA, ASQ, ASQ + 1, ACQ, ACQ + 1} /\ w.buf = <<d>>
      \/ w.offset \in {ASQ, ACQ} /\ w.buf = <<d, d>>
  BY <1>4, PlannedWrites
<1>6. /\ reg \in [cc : 0 .. 3, csts : 0 .. 3, aqa : Word, asq : Word \X Word, acq : Word \X Word]
      /\ d \in Word
  BY <1>2, DriverAssumption DEF IInv, TypeOK, Word
<1>7. w.offset # CC
  BY <1>5 DEF CC, AQA, ASQ, ACQ
<1> DEFINE asq == Wide(reg.asq, ASQ, w.offset, w.buf)
           acq == Wide(reg.acq, ACQ, w.offset, w.buf)
           aqa == IF w.offset = AQA THEN w.buf[1] ELSE reg.aqa
<1>8. /\ reg' = [reg EXCEPT !.aqa = aqa, !.asq = asq, !.acq = acq]
      /\ UNCHANGED <<adm, cq, sq>>
  BY <1>1, <1>6, <1>7 DEF nvme_reg_write, queues
<1>9. /\ asq \in Word \X Word
      /\ asq[1] = IF Low(w, ASQ) THEN d ELSE reg.asq[1]
      /\ asq[2] = IF High(w, ASQ) THEN d ELSE reg.asq[2]
  BY <1>5, <1>6 DEF Wide, Low, High, ASQ, ACQ, AQA
<1>10. /\ acq \in Word \X Word
       /\ acq[1] = IF Low(w, ACQ) THEN d ELSE reg.acq[1]
       /\ acq[2] = IF High(w, ACQ) THEN d ELSE reg.acq[2]
  BY <1>5, <1>6 DEF Wide, Low, High, ASQ, ACQ, AQA
<1>11. aqa \in Word /\ aqa = IF Low(w, AQA) THEN d ELSE reg.aqa
  BY <1>5, <1>6 DEF Low, ASQ, ACQ, AQA
<1> HIDE DEF aqa, asq, acq
<1>12. /\ reg' \in [cc : 0 .. 3, csts : 0 .. 3, aqa : Word, asq : Word \X Word, acq : Word \X Word]
       /\ reg'.cc = reg.cc /\ reg'.aqa = aqa /\ reg'.asq = asq /\ reg'.acq = acq
  BY <1>6, <1>8, <1>9, <1>10, <1>11
<1>13. TypeOK'
  <2>1. \E x \in Plans(d') \union {{}} : todo' \subseteq x
    BY <1>1, <1>2, <1>3
  <2> QED BY <1>2, <1>8, <1>12, <2>1 DEF IInv, TypeOK
<1>14. Programmed
  BY <1>2 DEF IInv, PhaseInv
<1>15. Programmed'
  <2>1. (\A x \in todo' : ~Low(x, AQA)) => aqa = d
    BY <1>1, <1>11, <1>14 DEF Programmed
  <2>2. /\ (\A x \in todo' : ~Low(x, ASQ)) => asq[1] = d
        /\ (\A x \in todo' : ~High(x, ASQ)) => asq[2] = d
    BY <1>1, <1>9, <1>14 DEF Programmed
  <2>3. /\ (\A x \in todo' : ~Low(x, ACQ)) => acq[1] = d
        /\ (\A x \in todo' : ~High(x, ACQ)) => acq[2] = d
    BY <1>1, <1>10, <1>14 DEF Programmed
  <2> QED BY <1>2, <1>12, <2>1, <2>2, <2>3 DEF Programmed, Low, High
<1>16. ~En(reg'.cc) /\ Quiet' /\ made' = 0
  BY <1>2, <1>8, <1>12 DEF IInv, PhaseInv, Quiet
<1> QED BY <1>2, <1>13, <1>15, <1>16 DEF IInv, PhaseInv

(* The driver is granted between one queue and all there are.              *)
LEMMA SetNumQueuesInv ==
  ASSUME IInv, SetNumQueues
  PROVE  IInv'
<1>1. PICK nsqr \in Wants, ncqr \in Wants :
        grant' = 1 + (IF Granted(nsqr) < Granted(ncqr) THEN Granted(nsqr) ELSE Granted(ncqr))
  BY DEF SetNumQueues
<1>2. /\ phase = "features" /\ phase' = "create"
      /\ UNCHANGED <<reg, adm, cq, sq, ednek, nuse, d, todo, made>>
  BY DEF SetNumQueues, queues
<1>3. \A n \in Wants : Granted(n) \in 0 .. NVME_MAX_QUEUES - 2
  BY DriverAssumption DEF Granted
<1>4. grant' \in 1 .. NVME_MAX_QUEUES - 1 /\ grant' \in Nat \ {0}
  BY <1>1, <1>3, DriverAssumption
<1>5. TypeOK'
  BY <1>2, <1>4 DEF IInv, TypeOK, Phases
<1>6. Owned /\ made = 0
  BY <1>2 DEF IInv, PhaseInv
<1>7. Owned'
  BY <1>2, <1>6 DEF Owned, Served, Mine
<1>8. made' < 2 * grant'
  <2>1. made' = 0
    BY <1>2, <1>6
  <2>2. \A n \in Nat \ {0} : 0 < 2 * n
    OBVIOUS
  <2> QED BY <1>4, <2>1, <2>2
<1>9. ~En(reg'.cc) => Quiet'
  BY <1>2 DEF IInv, Quiet
<1> QED BY <1>2, <1>4, <1>5, <1>7, <1>8, <1>9 DEF IInv, PhaseInv

(* The next queue: a completion queue, or its submission queue.            *)
LEMMA CreateInv ==
  ASSUME IInv, Create
  PROVE  IInv'
<1> DEFINE q == made \div 2 + 1
<1>1. /\ phase = "create" /\ made' = made + 1
      /\ UNCHANGED <<reg, adm, ednek, nuse, d, todo, grant>>
  BY DEF Create
<1>2. /\ Owned /\ grant \in 1 .. NVME_MAX_QUEUES - 1 /\ made < 2 * grant
      /\ made \in Nat /\ grant \in Nat /\ NVME_MAX_QUEUES \in Nat /\ d \in Driver
      /\ cq \in [IoQid -> Word] /\ sq \in [IoQid -> Word]
  BY <1>1, DriverAssumption DEF IInv, PhaseInv, TypeOK
<1>3. d \in Word /\ d # 0
  BY <1>2, DriverAssumption DEF Word
<1>4. /\ q \in Nat /\ q <= grant /\ q >= 1
      /\ made % 2 = 0 => 2 * q = made + 2
      /\ made % 2 # 0 => 2 * q = made + 1
  BY <1>2
<1>5. q \in IoQid
  BY <1>2, <1>4 DEF IoQid
<1>6. /\ IF made % 2 = 0
         THEN /\ nvme_admin_create_cq(q) /\ UNCHANGED sq
              /\ phase' = IF q \in IoQid THEN "create" ELSE "failed"
         ELSE /\ nvme_admin_create_sq(q, q) /\ UNCHANGED cq
              /\ phase' = IF q \notin IoQid \/ ~CqUp(q) THEN "failed"
                          ELSE IF q = grant THEN "ready" ELSE "create"
  BY DEF Create
<1> HIDE DEF q
<1>7. \A r \in IoQid : r \in Nat /\ cq[r] = (IF 2 * r <= made + 1 THEN d ELSE 0)
                       /\ sq[r] = (IF 2 * r <= made THEN d ELSE 0)
  BY <1>2 DEF Owned, IoQid
<1>8. ASSUME made % 2 = 0
      PROVE  /\ cq' \in [IoQid -> Word] /\ sq' \in [IoQid -> Word] /\ Owned'
             /\ phase' \in {"create", "ready"} /\ (phase' = "create" => made' < 2 * grant')
  <2>1. cq' = [cq EXCEPT ![q] = d] /\ sq' = sq /\ phase' = "create"
    BY <1>5, <1>6, <1>8 DEF nvme_admin_create_cq
  <2>2. made' < 2 * grant'
    BY <1>1, <1>2, <1>4, <1>8
  <2>3. ASSUME NEW r \in IoQid
        PROVE  /\ cq'[r] = (IF 2 * r <= made' + 1 THEN d ELSE 0)
               /\ sq'[r] = (IF 2 * r <= made' THEN d ELSE 0)
    <3>1. CASE r = q
      BY <1>1, <1>2, <1>4, <1>5, <1>7, <1>8, <2>1, <3>1
    <3>2. CASE r # q
      BY <1>1, <1>2, <1>4, <1>5, <1>7, <1>8, <2>1, <3>2
    <3> QED BY <3>1, <3>2
  <2>4. cq' \in [IoQid -> Word] /\ sq' \in [IoQid -> Word]
    BY <1>2, <1>3, <2>1
  <2>5. Owned'
    BY <1>1, <1>2, <2>3 DEF Owned, Served, Mine
  <2> QED BY <1>1, <1>2, <2>1, <2>2, <2>4, <2>5
<1>9. ASSUME made % 2 # 0
      PROVE  /\ cq' \in [IoQid -> Word] /\ sq' \in [IoQid -> Word] /\ Owned'
             /\ phase' \in {"create", "ready"} /\ (phase' = "create" => made' < 2 * grant')
  <2>1. CqUp(q)
    BY <1>2, <1>3, <1>4, <1>5, <1>7, <1>9 DEF CqUp
  <2>2. /\ sq' = [sq EXCEPT ![q] = d] /\ cq' = cq
        /\ phase' = IF q = grant THEN "ready" ELSE "create"
    BY <1>5, <1>6, <1>9, <2>1 DEF nvme_admin_create_sq
  <2>3. q # grant => made' < 2 * grant'
    BY <1>1, <1>2, <1>4, <1>9
  <2>4. ASSUME NEW r \in IoQid
        PROVE  /\ cq'[r] = (IF 2 * r <= made' + 1 THEN d ELSE 0)
               /\ sq'[r] = (IF 2 * r <= made' THEN d ELSE 0)
    <3>1. CASE r = q
      BY <1>1, <1>2, <1>4, <1>5, <1>7, <1>9, <2>2, <3>1
    <3>2. CASE r # q
      BY <1>1, <1>2, <1>4, <1>5, <1>7, <1>9, <2>2, <3>2
    <3> QED BY <3>1, <3>2
  <2>5. cq' \in [IoQid -> Word] /\ sq' \in [IoQid -> Word]
    BY <1>2, <1>3, <2>2
  <2>6. Owned'
    BY <1>1, <1>2, <2>4 DEF Owned, Served, Mine
  <2> QED BY <1>1, <1>2, <2>2, <2>3, <2>5, <2>6
<1>10. TypeOK'
  <2>1. made' \in Nat /\ d' \in Driver \union {0} /\ phase' \in Phases
    BY <1>1, <1>2, <1>8, <1>9 DEF Phases
  <2> QED BY <1>1, <1>2, <1>8, <1>9, <2>1 DEF IInv, TypeOK
<1>11. En(reg'.cc)
  BY <1>1, <1>2 DEF Owned
<1> QED BY <1>1, <1>2, <1>8, <1>9, <1>10, <1>11 DEF IInv, PhaseInv

(* The features and the keys of the namespace, and steps that change       *)
(* nothing.                                                                *)
LEMMA NamespaceInv ==
  ASSUME IInv, UNCHANGED <<reg, queues, host>>, ednek' \in {0, 1}, nuse' \in 0 .. nsze
  PROVE  IInv'
<1>1. UNCHANGED <<reg, adm, cq, sq, d, phase, todo, grant, made>>
  BY DEF queues, host
<1>2. TypeOK'
  BY <1>1 DEF IInv, TypeOK
<1>3. (Programmed' <=> Programmed) /\ (Owned' <=> Owned)
  BY <1>1, SamePlace
<1>4. PhaseInv'
  BY <1>1, <1>3 DEF IInv, PhaseInv
<1> QED BY <1>1, <1>2, <1>4 DEF IInv, Quiet

LEMMA Invariance == Spec => []IInv
<1>1. ASSUME IInv, [Next]_vars PROVE IInv'
  <2>0. ednek \in {0, 1} /\ nuse \in 0 .. nsze
    BY <1>1 DEF IInv, TypeOK
  <2>1. CASE \E e \in Driver : Arrive(e)
    BY <1>1, <2>1, ArriveInv
  <2>2. CASE Step
    BY <1>1, <2>2, WaitInv, DisableInv, ProgramInv, EnableInv, SetNumQueuesInv, CreateInv DEF Step
  <2>3. CASE SetEdnek \/ StoreOrDelete \/ UNCHANGED vars
    BY <1>1, <2>0, <2>3, NamespaceInv DEF SetEdnek, StoreOrDelete, vars
  <2>4. CASE Shutdown
    BY <1>1, <2>4, ShutdownInv
  <2>5. CASE Crash
    BY <1>1, <2>5, WaitInv
  <2> QED BY <1>1, <2>1, <2>2, <2>3, <2>4, <2>5 DEF Next
<1> QED BY <1>1, InitInv, PTL DEF Spec

-----------------------------------------------------------------------------
(* The theorems.                                                           *)

(* The device and the driver keep their types.                             *)
THEOREM TypeCorrect == Spec => []TypeOK
<1>1. IInv => TypeOK
  BY DEF IInv
<1> QED BY <1>1, Invariance, PTL

(* A driver that is served has the admin queues in its memory and no queue *)
(* of an earlier driver is up, whatever the device went through before.    *)
THEOREM DriverOwnsDevice == Spec => []OwnsDevice
<1>1. IInv => OwnsDevice
  BY DEF IInv, PhaseInv, Owned, OwnsDevice
<1> QED BY <1>1, Invariance, PTL

(* As many queues as Set Features grants can be created, for every number  *)
(* of queues, and the namespace that is listed can be identified.          *)
THEOREM OfferIsKept == Spec => []NeverRefused
<1>1. IInv => NeverRefused
  BY DEF IInv, PhaseInv, NeverRefused
<1> QED BY <1>1, Invariance, PTL
=============================================================================
