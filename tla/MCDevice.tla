------------------------------ MODULE MCDevice ------------------------------
(***************************************************************************)
(* Two queues of two commands, one key of one byte that is stored, deleted *)
(* and asked for, and room for one key, so that a STORE of another key can *)
(* make it fail.                                                           *)
(***************************************************************************)
EXTENDS Device

MCByte == {0, 1}
B(x) == [i \in {0} |-> x]
Cmd(op, x, hbs) ==
  [opcode |-> op, key |-> B(x), key_hi |-> B(0), kl |-> 1, hbs |-> hbs, ro |-> {}]
MCCmds ==
  {Cmd("STORE", 0, 1), Cmd("STORE", 1, 1), Cmd("DELETE", 0, 0), Cmd("EXIST", 0, 0)}
MCHostBufs == {[i \in {0} |-> 1]}
=============================================================================
