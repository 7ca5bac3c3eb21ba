------------------------------- MODULE KvMap -------------------------------
(***************************************************************************)
(* What the KV namespace promises: a map of at most MaxNumKeys keys to     *)
(* value areas of MaxVal bytes.  Slots, their order, their reuse and the   *)
(* growth of the array do not show.  A STORE writes a prefix of the area   *)
(* and leaves the rest; a new area is zero; a STORE whose transfer fails   *)
(* leaves the area as it was, but leaves a new key behind.                 *)
(***************************************************************************)
EXTENDS KvTypes

VARIABLES
  map,    \* key |-> value area, the domain is the set of stored keys
  ednek,  \* bit 0 of the feature: DELETE of an absent key is an error
  rsp     \* the answer to the last command

Put(k, v) == [x \in DOMAIN map \cup {k} |-> IF x = k THEN v ELSE map[x]]
Area(k) == IF k \in DOMAIN map THEN map[k] ELSE ZeroVal

Init ==
  /\ map = <<>>
  /\ ednek = FALSE
  /\ rsp = NoRsp

(* Why a command may fail without an effect.  "KEY_EXISTS" and             *)
(* "KEY_NOT_EXISTS" are never wrong about the map; "CAP_EXCEEDED" may also *)
(* mean that the process ran out of memory, and "INVALID_FIELD" that the   *)
(* transfer to the host failed.                                            *)
Fails(c, status) ==
  LET present == KeyOfCmd(c) \in DOMAIN map
      valid   == c.kl <= NVME_KV_MAX_KEY_SIZE
  IN \/ status = "INVALID_OPCODE" /\ c.opcode = "OTHER"
     \/ status = "KV_INVALID_KEY_SIZE" /\ c.opcode = "STORE" /\ ~valid
     \/ status = "KV_INVALID_VAL_SIZE" /\ c.opcode = "STORE" /\ valid /\ c.hbs > MaxVal
     \/ status = "KV_KEY_EXISTS" /\ c.opcode = "STORE" /\ valid /\ present
        /\ "DONT_STORE_IF_KEY_EXISTS" \in c.ro
     \/ status = "KV_KEY_NOT_EXISTS" /\ c.opcode = "STORE" /\ valid /\ ~present
        /\ "DONT_STORE_IF_KEY_NOT_EXISTS" \in c.ro
     \/ status = "CAP_EXCEEDED" /\ c.opcode = "STORE" /\ valid /\ ~present
     \/ status = "INVALID_FIELD" /\ c.opcode \notin {"STORE", "OTHER"} /\ ~valid
     \/ status = "INVALID_FIELD" /\ c.opcode = "RETRIEVE" /\ present
     \/ status = "KV_KEY_NOT_EXISTS" /\ c.opcode \in {"RETRIEVE", "EXIST"} /\ valid /\ ~present
     \/ status = "KV_KEY_NOT_EXISTS" /\ c.opcode = "DELETE" /\ valid /\ ~present /\ ednek
     \/ status \in {"INVALID_FIELD", "CAP_EXCEEDED"} /\ c.opcode = "LIST" /\ valid

Fail(c) ==
  /\ \E status \in Status : rsp' = Rsp(c, status) /\ Fails(c, status)
  /\ UNCHANGED <<map, ednek>>

Store(c) ==
  LET k == KeyOfCmd(c) IN
  /\ c.opcode = "STORE" /\ c.kl <= NVME_KV_MAX_KEY_SIZE /\ c.hbs <= MaxVal
  /\ rsp' \in {Rsp(c, "SUCCESS"), Rsp(c, "INVALID_FIELD")}
  /\ IF k \in DOMAIN map
     THEN "DONT_STORE_IF_KEY_EXISTS" \notin c.ro
     ELSE /\ "DONT_STORE_IF_KEY_NOT_EXISTS" \notin c.ro
          /\ Cardinality(DOMAIN map) < MaxNumKeys
  /\ IF rsp'.status = "SUCCESS"
     THEN \E buf \in HostBufs : map' = Put(k, Overlay(Area(k), buf, c.hbs))
     ELSE map' = Put(k, Area(k))
  /\ UNCHANGED ednek

Retrieve(c) ==
  LET k == KeyOfCmd(c) IN
  /\ c.opcode = "RETRIEVE" /\ c.kl <= NVME_KV_MAX_KEY_SIZE /\ k \in DOMAIN map
  /\ rsp' = RspVal(c, map[k], IF c.hbs < MaxVal THEN c.hbs ELSE MaxVal)
  /\ UNCHANGED <<map, ednek>>

Delete(c) ==
  LET k == KeyOfCmd(c) IN
  /\ c.opcode = "DELETE" /\ c.kl <= NVME_KV_MAX_KEY_SIZE
  /\ rsp' = Rsp(c, "SUCCESS")
  /\ k \in DOMAIN map \/ ~ednek
  /\ map' = [x \in DOMAIN map \ {k} |-> map[x]]
  /\ UNCHANGED ednek

Exist(c) ==
  /\ c.opcode = "EXIST" /\ c.kl <= NVME_KV_MAX_KEY_SIZE
  /\ rsp' = Rsp(c, "SUCCESS")
  /\ KeyOfCmd(c) \in DOMAIN map
  /\ UNCHANGED <<map, ednek>>

(* A page of the listing names stored keys only.                           *)
List(c) ==
  /\ c.opcode = "LIST" /\ c.kl <= NVME_KV_MAX_KEY_SIZE
  /\ rsp' = RspKeys(c, rsp'.len, rsp'.nrk, rsp'.keys)
  /\ rsp'.keys \subseteq DOMAIN map
  /\ UNCHANGED <<map, ednek>>

SetEdnek == ednek' \in BOOLEAN /\ UNCHANGED <<map, rsp>>

(* An answer names the command it answers.                                 *)
Answers(c) == rsp'.op = c.opcode /\ rsp'.key = KeyOfCmd(c)

Next ==
  \/ \E c \in Cmds :
       /\ Answers(c)
       /\ Fail(c) \/ Store(c) \/ Retrieve(c) \/ Delete(c) \/ Exist(c) \/ List(c)
  \/ SetEdnek

vars == <<map, ednek, rsp>>
Spec == Init /\ [][Next]_vars
=============================================================================
