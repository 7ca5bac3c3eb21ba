------------------------------ MODULE KvTypes ------------------------------
(***************************************************************************)
(* The data of the KV command set: commands, keys, values and the answer   *)
(* of the last command (include/kvssd_nvme_spec.h, src/kv.h).  Byte counts *)
(* are parameters so that TLC can use short keys and values; the code has  *)
(* Word = 8, MaxVal = 4096.                                                *)
(***************************************************************************)
EXTENDS Integers, FiniteSets

CONSTANTS
  Byte,       \* the values of a byte of a key or of a value
  Zero,       \* the byte that memset and calloc write
  Word,       \* bytes in each of cmd->key and cmd->key_hi
  MaxVal,     \* NVME_KV_MAX_VAL_SIZE
  MaxNumKeys, \* the capacity max_num_keys given to kv_ns_init
  Cmds,       \* the KV commands the host may submit
  HostBufs    \* what the host buffer may hold when a STORE reads it

NVME_KV_MAX_KEY_SIZE == 2 * Word
SlotSize == NVME_KV_MAX_KEY_SIZE + MaxVal  \* the unit nuse and nsze count in

KeyIdx == 0 .. NVME_KV_MAX_KEY_SIZE - 1
ValIdx == 0 .. MaxVal - 1
Value  == [ValIdx -> Byte]

StoreOption ==
  {"DONT_STORE_IF_KEY_NOT_EXISTS", "DONT_STORE_IF_KEY_EXISTS", "COMPRESS"}

(* NvmeKVCmd: the two key words, the key length kl, the host buffer size   *)
(* hbs and the option bits ro, all of them chosen by the host.             *)
NvmeKVCmd ==
  [opcode : {"STORE", "RETRIEVE", "LIST", "DELETE", "EXIST", "OTHER"},
   key : [0 .. Word - 1 -> Byte], key_hi : [0 .. Word - 1 -> Byte],
   kl : Nat, hbs : Nat, ro : SUBSET StoreOption]

ASSUME SizeAssumption ==
  /\ Word \in Nat \ {0} /\ MaxVal \in Nat \ {0} /\ MaxNumKeys \in Nat
  /\ Zero \in Byte
ASSUME InputAssumption ==
  /\ Cmds \subseteq NvmeKVCmd
  /\ HostBufs \subseteq Value

(* The key a command names: the first kl bytes of key followed by key_hi.  *)
(* Bytes after kl are not part of the key.                                 *)
KeyLen(c) == IF c.kl > NVME_KV_MAX_KEY_SIZE THEN NVME_KV_MAX_KEY_SIZE ELSE c.kl
KeyOfCmd(c) ==
  [i \in 0 .. KeyLen(c) - 1 |-> IF i < Word THEN c.key[i] ELSE c.key_hi[i - Word]]
Key == UNION {[0 .. n - 1 -> Byte] : n \in 0 .. NVME_KV_MAX_KEY_SIZE}

ZeroVal == [i \in ValIdx |-> Zero]

(* The value area after n bytes of the host buffer were copied over it.    *)
Overlay(val, buf, n) == [i \in ValIdx |-> IF i < n THEN buf[i] ELSE val[i]]

(* The first n bytes of a value area, as a transfer moves them.            *)
Prefix(val, n) == [i \in 0 .. n - 1 |-> val[i]]

-----------------------------------------------------------------------------
(* What the host learns of a command: its status, and for RETRIEVE and     *)
(* LIST the len bytes moved to its hbs-byte buffer: the value bytes, or    *)
(* the number nrk of keys and the keys.                                    *)
Status ==
  {"SUCCESS", "INVALID_OPCODE", "INVALID_FIELD", "CAP_EXCEEDED",
   "KV_INVALID_VAL_SIZE", "KV_INVALID_KEY_SIZE", "KV_KEY_NOT_EXISTS",
   "KV_KEY_EXISTS"}

Rsp(c, status) ==
  [op |-> c.opcode, key |-> KeyOfCmd(c), status |-> status, hbs |-> 0, len |-> 0,
   val |-> <<>>, nrk |-> 0, keys |-> {}]
RspVal(c, val, n) ==
  [Rsp(c, "SUCCESS") EXCEPT !.hbs = c.hbs, !.len = n, !.val = Prefix(val, n)]
RspKeys(c, n, nrk, keys) ==
  [Rsp(c, "SUCCESS") EXCEPT !.hbs = c.hbs, !.len = n, !.nrk = nrk, !.keys = keys]
NoRsp ==
  [op |-> "NONE", key |-> <<>>, status |-> "SUCCESS", hbs |-> 0, len |-> 0,
   val |-> <<>>, nrk |-> 0, keys |-> {}]
=============================================================================
