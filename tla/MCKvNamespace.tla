--------------------------- MODULE MCKvNamespace ---------------------------
(***************************************************************************)
(* Small instances of KvNamespace: one-byte words, two-byte values, an     *)
(* array of two slots that can grow to four, capacity three.               *)
(***************************************************************************)
EXTENDS KvNamespace

MCByte == {0, 1}
B(x) == [i \in {0} |-> x]
K(kl, lo, hi) == [kl |-> kl, key |-> B(lo), key_hi |-> B(hi)]

(* The empty key, a one-byte key sent with two different bytes after it,   *)
(* two keys that differ in key_hi only, and a key that is too long.        *)
EmptyKey == K(0, 0, 0)
ShortKeys == {K(1, 1, 0), K(1, 1, 1)}
LongKeys == {K(2, 1, 1), K(2, 1, 0)}
TooLong == K(3, 1, 1)

Cmd(op, k, hbs, ro) ==
  [opcode |-> op, key |-> k.key, key_hi |-> k.key_hi, kl |-> k.kl, hbs |-> hbs, ro |-> ro]

(* Every key is stored and deleted; options, odd sizes and the commands    *)
(* that only read are tried on the keys that can tell them apart.          *)
MCKeys == {EmptyKey, TooLong} \cup ShortKeys \cup LongKeys
A == K(1, 1, 0)
L == K(2, 1, 1)

ReadCmds ==
  {Cmd("RETRIEVE", A, 1, {}), Cmd("RETRIEVE", L, 3, {}), Cmd("EXIST", L, 0, {})}
  \cup {Cmd(op, TooLong, 4, {}) : op \in {"RETRIEVE", "EXIST", "LIST"}}
OddStores ==
  {Cmd("STORE", A, 2, {opt}) : opt \in StoreOption}
  \cup {Cmd("STORE", A, hbs, {}) : hbs \in {0, 1, 3}}

MCCmds ==
  {Cmd("STORE", k, 2, {}) : k \in MCKeys}
  \cup {Cmd("DELETE", k, 0, {}) : k \in MCKeys}
  \cup {Cmd("LIST", EmptyKey, hbs, {}) : hbs \in {0, 4, 11}} \cup {Cmd("LIST", L, 24, {})}
  \cup ReadCmds \cup OddStores
  \cup {Cmd("OTHER", EmptyKey, 0, {})}

MCHostBufs == {[i \in {0, 1} |-> 1]}
=============================================================================
