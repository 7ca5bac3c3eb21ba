---------------------------- MODULE KvNamespace ----------------------------
(***************************************************************************)
(* The in-memory KV namespace and its command handlers (src/kv.c), with    *)
(* the dispatch of nvme_io_kv.  A handler runs to completion inside one    *)
(* doorbell callback of a single-threaded process, so a command is one     *)
(* step.  Two things are decided outside kv.c and are nondeterministic     *)
(* here: whether a transfer to or from the host succeeds, and whether an   *)
(* allocation does.                                                        *)
(***************************************************************************)
EXTENDS KvTypes, FiniteSetsExt

CONSTANTS
  InitialEntries, \* KV_INITIAL_ENTRIES
  MaxEntries,     \* bound: no realloc of the array beyond this many slots
  MaxTransfer,    \* two pages: nvme_prp_xfer has no PRP lists
  NrkMod          \* 2^16: the key count of a LIST page is a uint16_t

ASSUME EntriesAssumption ==
  /\ InitialEntries \in Nat \ {0} /\ MaxEntries \in Nat
  /\ MaxTransfer \in Nat /\ MaxTransfer >= MaxVal
  /\ NrkMod \in Nat /\ NrkMod > MaxTransfer

VARIABLES
  pairs,             \* ns->pairs, a function on 0 .. entries_allocated - 1
  entries_allocated,
  nuse,              \* ns->id_ns_kv->nuse, in bytes
  ednek,             \* bit 0 of ns->ednek
  rsp                \* the answer to the last command

ns == <<pairs, entries_allocated, nuse, ednek>>
vars == <<pairs, entries_allocated, nuse, ednek, rsp>>

kv_pair ==
  [key : [KeyIdx -> Byte], kl : 0 .. NVME_KV_MAX_KEY_SIZE, val : Value, used : BOOLEAN]
ZeroPair == [key |-> [i \in KeyIdx |-> Zero], kl |-> 0, val |-> ZeroVal, used |-> FALSE]

Used == {i \in DOMAIN pairs : pairs[i].used}
nsze == MaxNumKeys * SlotSize

(* kv_ns_init.                                                             *)
Init ==
  /\ pairs = [i \in 0 .. InitialEntries - 1 |-> ZeroPair]
  /\ entries_allocated = InitialEntries
  /\ nuse = 0
  /\ ednek = FALSE
  /\ rsp = NoRsp

-----------------------------------------------------------------------------
(* The key of a slot is compared and copied word by word: key holds the    *)
(* first Word bytes, key_hi the rest.                                      *)
AtMost(n, bound) == IF n < bound THEN n ELSE bound

MatchLowWordOnly(c, p) ==  \* mutant: key_hi is not compared
  /\ p.used
  /\ c.kl = p.kl
  /\ \A i \in 0 .. AtMost(c.kl, Word) - 1 : c.key[i] = p.key[i]

kv_key_match(c, p) ==
  /\ p.used
  /\ c.kl = p.kl
  /\ \A i \in 0 .. AtMost(c.kl, Word) - 1 : c.key[i] = p.key[i]
  /\ c.kl > Word =>
       \A i \in 0 .. AtMost(c.kl - Word, Word) - 1 : c.key_hi[i] = p.key[Word + i]

kv_key_store(p, c) ==
  [p EXCEPT
     !.key = [i \in KeyIdx |->
                IF i < AtMost(c.kl, Word) THEN c.key[i]
                ELSE IF Word <= i /\ i < Word + AtMost(c.kl - Word, Word)
                THEN c.key_hi[i - Word] ELSE p.key[i]],
     !.kl = AtMost(c.kl, NVME_KV_MAX_KEY_SIZE),
     !.used = TRUE]

Empty == DOMAIN pairs \ Used

ScanToFirstEmpty(c) ==     \* mutant: the scan ends at the first empty slot
  {i \in DOMAIN pairs : kv_key_match(c, pairs[i]) /\ \A j \in Empty : i < j}

(* The slots the scan of a handler stops at: it takes the first.           *)
Matches(c) == {i \in DOMAIN pairs : kv_key_match(c, pairs[i])}

(* kvdma_h2c and kvdma_c2h: nothing is moved for a length of zero, nothing *)
(* can be moved beyond two pages, and between them it depends on the       *)
(* host's memory map.  A failed transfer has moved no byte: every part of  *)
(* it is translated before the first is copied.                            *)
DmaOutcome(len) ==
  IF len = 0 THEN {TRUE} ELSE IF len > MaxTransfer THEN {FALSE} ELSE BOOLEAN

-----------------------------------------------------------------------------
(* kv_store: size checks, then the scan.                                   *)
StoreInvalid(c) ==
  /\ c.opcode = "STORE"
  /\ \/ c.kl > NVME_KV_MAX_KEY_SIZE /\ rsp' = Rsp(c, "KV_INVALID_KEY_SIZE")
     \/ /\ c.kl <= NVME_KV_MAX_KEY_SIZE /\ c.hbs > MaxVal
        /\ rsp' = Rsp(c, "KV_INVALID_VAL_SIZE")
  /\ UNCHANGED ns

StoreValid(c) == c.opcode = "STORE" /\ c.kl <= NVME_KV_MAX_KEY_SIZE /\ c.hbs <= MaxVal

(* The key is there: its value area is overwritten in place.               *)
StoreExisting(c) ==
  LET i == Min(Matches(c)) IN
  /\ StoreValid(c) /\ Matches(c) # {}
  /\ \/ /\ "DONT_STORE_IF_KEY_EXISTS" \in c.ro
        /\ rsp' = Rsp(c, "KV_KEY_EXISTS") /\ UNCHANGED pairs
     \/ /\ "DONT_STORE_IF_KEY_EXISTS" \notin c.ro
        /\ TRUE \in DmaOutcome(c.hbs)
        /\ \E buf \in HostBufs :
             pairs' = [pairs EXCEPT ![i] =
                         [pairs[i] EXCEPT !.val = Overlay(pairs[i].val, buf, c.hbs)]]
        /\ rsp' = Rsp(c, "SUCCESS")
     \/ /\ "DONT_STORE_IF_KEY_EXISTS" \notin c.ro
        /\ FALSE \in DmaOutcome(c.hbs)
        /\ rsp' = Rsp(c, "INVALID_FIELD") /\ UNCHANGED pairs
  /\ UNCHANGED <<entries_allocated, nuse, ednek>>

Full == nuse \div SlotSize >= MaxNumKeys

(* The key is new and is not stored: the option forbids it, the namespace  *)
(* is full, or the array has no empty slot and cannot grow.                *)
StoreRefused(c) ==
  /\ StoreValid(c) /\ Matches(c) = {}
  /\ \/ /\ "DONT_STORE_IF_KEY_NOT_EXISTS" \in c.ro
        /\ rsp' = Rsp(c, "KV_KEY_NOT_EXISTS")
     \/ /\ "DONT_STORE_IF_KEY_NOT_EXISTS" \notin c.ro
        /\ Full \/ Empty = {}
        /\ rsp' = Rsp(c, "CAP_EXCEEDED")
  /\ UNCHANGED ns

(* The array with room for one more key: as it is, or doubled by realloc   *)
(* with the new half cleared.                                              *)
Grown == [i \in 0 .. 2 * entries_allocated - 1 |->
            IF i < entries_allocated THEN pairs[i] ELSE ZeroPair]
Room == IF Empty # {} THEN pairs ELSE Grown
fst_empty == IF Empty # {} THEN Min(Empty) ELSE entries_allocated

(* The key is entered and counted before its value is transferred, and     *)
(* both stay when the transfer fails.                                      *)
StoreNew(c) ==
  LET p == kv_key_store(Room[fst_empty], c) IN
  /\ StoreValid(c) /\ Matches(c) = {}
  /\ "DONT_STORE_IF_KEY_NOT_EXISTS" \notin c.ro
  /\ ~Full
  /\ Empty = {} => 2 * entries_allocated <= MaxEntries
  /\ entries_allocated' = IF Empty # {} THEN entries_allocated ELSE 2 * entries_allocated
  /\ nuse' = nuse + SlotSize
  /\ \/ /\ TRUE \in DmaOutcome(c.hbs)
        /\ \E buf \in HostBufs :
             pairs' = [Room EXCEPT ![fst_empty] =
                         [p EXCEPT !.val = Overlay(p.val, buf, c.hbs)]]
        /\ rsp' = Rsp(c, "SUCCESS")
     \/ /\ FALSE \in DmaOutcome(c.hbs)
        /\ pairs' = [Room EXCEPT ![fst_empty] = p]
        /\ rsp' = Rsp(c, "INVALID_FIELD")
  /\ UNCHANGED ednek

kv_store(c) == StoreInvalid(c) \/ StoreExisting(c) \/ StoreRefused(c) \/ StoreNew(c)

-----------------------------------------------------------------------------
(* The length of a value is not kept: a RETRIEVE moves as many bytes of    *)
(* the value area as the host has room for.                                *)
kv_retrieve(c) ==
  LET len == AtMost(c.hbs, MaxVal) IN
  /\ c.opcode = "RETRIEVE"
  /\ \/ c.kl > NVME_KV_MAX_KEY_SIZE /\ rsp' = Rsp(c, "INVALID_FIELD")
     \/ /\ c.kl <= NVME_KV_MAX_KEY_SIZE /\ Matches(c) # {}
        /\ \/ /\ TRUE \in DmaOutcome(len)
              /\ rsp' = RspVal(c, pairs[Min(Matches(c))].val, len)
           \/ FALSE \in DmaOutcome(len) /\ rsp' = Rsp(c, "INVALID_FIELD")
     \/ /\ c.kl <= NVME_KV_MAX_KEY_SIZE /\ Matches(c) = {}
        /\ rsp' = Rsp(c, "KV_KEY_NOT_EXISTS")
  /\ UNCHANGED ns

(* Mutants: the slot is only marked unused; nuse is not given back; nuse   *)
(* is given back for a key that was not there.                             *)
DeleteMarksOnly(c) ==
  /\ c.opcode = "DELETE" /\ c.kl <= NVME_KV_MAX_KEY_SIZE /\ Matches(c) # {}
  /\ pairs' = [pairs EXCEPT ![Min(Matches(c))].used = FALSE]
  /\ nuse' = nuse - SlotSize
  /\ rsp' = Rsp(c, "SUCCESS")
  /\ UNCHANGED <<entries_allocated, ednek>>
DeleteKeepsNuse(c) ==
  /\ c.opcode = "DELETE" /\ c.kl <= NVME_KV_MAX_KEY_SIZE /\ Matches(c) # {}
  /\ pairs' = [pairs EXCEPT ![Min(Matches(c))] = ZeroPair]
  /\ rsp' = Rsp(c, "SUCCESS")
  /\ UNCHANGED <<entries_allocated, nuse, ednek>>
DeleteAlwaysGivesBack(c) ==
  /\ c.opcode = "DELETE" /\ c.kl <= NVME_KV_MAX_KEY_SIZE /\ Matches(c) = {}
  /\ nuse' = nuse - SlotSize
  /\ rsp' = Rsp(c, "SUCCESS")
  /\ UNCHANGED <<pairs, entries_allocated, ednek>>

kv_delete(c) ==
  /\ c.opcode = "DELETE"
  /\ \/ c.kl > NVME_KV_MAX_KEY_SIZE /\ rsp' = Rsp(c, "INVALID_FIELD") /\ UNCHANGED ns
     \/ /\ c.kl <= NVME_KV_MAX_KEY_SIZE /\ Matches(c) # {}
        /\ pairs' = [pairs EXCEPT ![Min(Matches(c))] = ZeroPair]
        /\ nuse' = nuse - SlotSize
        /\ rsp' = Rsp(c, "SUCCESS")
        /\ UNCHANGED <<entries_allocated, ednek>>
     \/ /\ c.kl <= NVME_KV_MAX_KEY_SIZE /\ Matches(c) = {}
        /\ rsp' = Rsp(c, IF ednek THEN "KV_KEY_NOT_EXISTS" ELSE "SUCCESS")
        /\ UNCHANGED ns

kv_exist(c) ==
  /\ c.opcode = "EXIST"
  /\ \/ c.kl > NVME_KV_MAX_KEY_SIZE /\ rsp' = Rsp(c, "INVALID_FIELD")
     \/ /\ c.kl <= NVME_KV_MAX_KEY_SIZE
        /\ rsp' = Rsp(c, IF Matches(c) # {} THEN "SUCCESS" ELSE "KV_KEY_NOT_EXISTS")
  /\ UNCHANGED ns

-----------------------------------------------------------------------------
(* kv_list.  A page is a header of rds_hdr bytes and, for every key, its   *)
(* length and bytes, padded.                                               *)
kls_size == 2
rds_hdr == 4
kds(kl) == (kls_size + kl) + ((kls_size + kl) % 4)

(* The key named by the command is where the page starts, or slot 0 when   *)
(* there is no such key.                                                   *)
first_entry(c) == IF Matches(c) # {} THEN Min(Matches(c)) ELSE 0

(* Bytes of the page up to and including slot i.                           *)
rds_size(c, i) ==
  rds_hdr + MapThenSumSet(LAMBDA j : kds(pairs[j].kl), {j \in Used : first_entry(c) <= j /\ j <= i})

ListedOneMore(c) ==        \* mutant: room is tested before the key is added
  {i \in Used : first_entry(c) <= i /\ rds_size(c, i) - kds(pairs[i].kl) <= c.hbs}

(* The page ends before the first key that does not fit.                   *)
Listed(c) == {i \in Used : first_entry(c) <= i /\ rds_size(c, i) <= c.hbs}

KeyOfPair(p) == [i \in 0 .. p.kl - 1 |-> p.key[i]]

CountBeforeFit(c) ==       \* mutant: nrk is incremented before the room is tested
  LET page == Listed(c)
      len  == IF page = {} THEN rds_hdr ELSE rds_size(c, Max(page))
      nrk  == Cardinality(page)
              + (IF page = {i \in Used : first_entry(c) <= i} THEN 0 ELSE 1)
  IN
  /\ c.opcode = "LIST" /\ c.kl <= NVME_KV_MAX_KEY_SIZE /\ TRUE \in DmaOutcome(len)
  /\ rsp' = RspKeys(c, len, nrk, {KeyOfPair(pairs[i]) : i \in page})
  /\ UNCHANGED ns

kv_list(c) ==
  LET page == Listed(c)
      len  == IF page = {} THEN rds_hdr ELSE rds_size(c, Max(page))
  IN
  /\ c.opcode = "LIST"
  /\ \/ c.kl > NVME_KV_MAX_KEY_SIZE /\ rsp' = Rsp(c, "INVALID_FIELD")
     \/ c.kl <= NVME_KV_MAX_KEY_SIZE /\ rsp' = Rsp(c, "CAP_EXCEEDED") \* calloc or realloc failed
     \/ /\ c.kl <= NVME_KV_MAX_KEY_SIZE /\ TRUE \in DmaOutcome(len)
        /\ rsp' = RspKeys(c, len, Cardinality(page) % NrkMod, {KeyOfPair(pairs[i]) : i \in page})
     \/ /\ c.kl <= NVME_KV_MAX_KEY_SIZE /\ FALSE \in DmaOutcome(len)
        /\ rsp' = Rsp(c, "INVALID_FIELD")
  /\ UNCHANGED ns

-----------------------------------------------------------------------------
UnknownOpcode(c) ==
  /\ c.opcode = "OTHER"
  /\ rsp' = Rsp(c, "INVALID_OPCODE")
  /\ UNCHANGED ns

nvme_io_kv(c) ==
  kv_store(c) \/ kv_retrieve(c) \/ kv_delete(c) \/ kv_exist(c) \/ kv_list(c) \/ UnknownOpcode(c)

(* Set Features on the KV_EDNEK feature, an admin command.                 *)
SetEdnek ==
  /\ ednek' \in BOOLEAN
  /\ UNCHANGED <<pairs, entries_allocated, nuse, rsp>>

Next == (\E c \in Cmds : nvme_io_kv(c)) \/ SetEdnek
Spec == Init /\ [][Next]_vars

-----------------------------------------------------------------------------
(* Properties.                                                             *)

(* The array, the counters and the last answer have their types, and the   *)
(* array is as long as entries_allocated says.                             *)
TypeOK ==
  /\ entries_allocated \in Nat \ {0}
  /\ pairs \in [0 .. entries_allocated - 1 -> kv_pair]
  /\ nuse \in Nat
  /\ ednek \in BOOLEAN
  /\ rsp.status \in Status

(* A key is in at most one slot.  kv_store must not take an empty slot     *)
(* before it has looked for the key in every later one, whatever holes     *)
(* deletions left, and must compare exactly the kl bytes that it stored.   *)
UniqueKeys ==
  \A i, j \in Used : KeyOfPair(pairs[i]) = KeyOfPair(pairs[j]) => i = j

(* nuse, which Identify reports and the capacity check reads, is the size  *)
(* of the keys stored, and stays within the advertised nsze ("NUSE <=      *)
(* NCAP", src/nvme.c), also after inserts whose transfer failed.           *)
NuseExact ==
  /\ nuse = Cardinality(Used) * SlotSize
  /\ nuse <= nsze

(* A slot that holds no key holds no byte of an earlier key: kv_delete and *)
(* the growth of the array clear it.  A STORE whose transfer fails enters  *)
(* its key without writing the value, so this is what keeps the value of a *)
(* deleted key from being retrieved under the new one.                     *)
FreeSlotsZeroed == \A i \in Empty : pairs[i] = ZeroPair

(* The count at the head of a LIST page is the number of distinct keys the *)
(* page names.                                                             *)
ListCountsKeys ==
  rsp.op = "LIST" /\ rsp.status = "SUCCESS" => rsp.nrk = Cardinality(rsp.keys)

(* RETRIEVE and LIST never move more bytes than the host buffer holds,     *)
(* except for the page header: a LIST transfers its four bytes however     *)
(* small the buffer is, and then nothing else.                             *)
TransferFitsBuffer == rsp.len <= rsp.hbs \/ (rsp.op = "LIST" /\ rsp.len = rds_hdr)

(* The abstract map: every stored key with the value area of its slot.     *)
SlotOf(k) == CHOOSE i \in Used : KeyOfPair(pairs[i]) = k
StoredKeys == {KeyOfPair(pairs[i]) : i \in Used}
AbsMap == [k \in StoredKeys |-> pairs[SlotOf(k)].val]

Map == INSTANCE KvMap WITH map <- AbsMap

(* The slot array implements the map: every handler answers and changes    *)
(* what the map allows, and nothing of another key.                        *)
MapSpec == Map!Spec
=============================================================================
