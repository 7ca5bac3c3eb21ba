------------------------------- MODULE KvList -------------------------------
(***************************************************************************)
(* A listing of the whole namespace takes several LIST commands, between   *)
(* which other commands store and delete keys.  kv_list (src/kv.c) starts  *)
(* a page at the slot of the key the command names, that key included, and *)
(* at slot 0 when there is no such key.  The host is external: it names    *)
(* the last key of the page before, and stops when a page brings nothing   *)
(* after it.                                                               *)
(*                                                                         *)
(* KvNamespace has the slots in full.  Here a slot is a key or NoKey, keys *)
(* are of one size and a page has room for PageKeys of them; the array is  *)
(* as long as it can grow, since kv_store takes the first empty slot and   *)
(* what it appends is empty.                                               *)
(***************************************************************************)
EXTENDS Integers, FiniteSets

CONSTANTS
  Key, EmptyKey, \* keys; the one of length 0
  NoKey,         \* what a slot without a key holds
  Slots,         \* number of slots
  PageKeys       \* keys that fit into the host buffer

ASSUME PageAssumption ==
  /\ EmptyKey \in Key /\ NoKey \notin Key
  /\ Slots \in Nat \ {0}
  /\ PageKeys \in Nat /\ PageKeys >= 2

VARIABLES
  pairs,   \* ns->pairs[].key
  cursor,  \* host: the key that the next LIST names
  listing, \* host: a listing is under way
  got,     \* host: keys of the pages so far
  upto,    \* history: the slot after the last one of the last page
  steady,  \* history: keys stored since the listing began
  jumped   \* history: a page began beyond upto

host == <<cursor, listing, got>>
vars == <<pairs, host, upto, steady, jumped>>

Slot == 0 .. Slots - 1
Used == {i \in Slot : pairs[i] # NoKey}
Stored == {pairs[i] : i \in Used}

Init ==
  /\ pairs = [i \in Slot |-> NoKey]
  /\ cursor = EmptyKey /\ listing = FALSE /\ got = {}
  /\ upto = 0 /\ steady = {} /\ jumped = FALSE

-----------------------------------------------------------------------------
(* Other commands, between the pages.                                      *)

(* kv_store of a key that is not there takes the first empty slot.         *)
kv_store(k) ==
  /\ k \notin Stored
  /\ \E i \in Slot \ Used :
       /\ \A j \in Slot \ Used : i <= j
       /\ pairs' = [pairs EXCEPT ![i] = k]
  /\ UNCHANGED <<host, upto, steady, jumped>>

(* Variant: the last pair is moved into the hole.                          *)
DeleteMovesLast(k) ==
  /\ \E i, l \in Used :
       /\ pairs[i] = k /\ \A j \in Used : j <= l
       /\ pairs' = [[pairs EXCEPT ![i] = pairs[l]] EXCEPT ![l] = NoKey]
  /\ steady' = steady \ {k}
  /\ UNCHANGED <<host, upto, jumped>>

kv_delete(k) ==
  /\ \E i \in Used : pairs[i] = k /\ pairs' = [pairs EXCEPT ![i] = NoKey]
  /\ steady' = steady \ {k}
  /\ UNCHANGED <<host, upto, jumped>>

-----------------------------------------------------------------------------
(* The listing.                                                            *)

(* The first command names no key: its kl is 0.                            *)
Start ==
  /\ ~listing
  /\ listing' = TRUE /\ cursor' = EmptyKey /\ got' = {}
  /\ upto' = 0 /\ steady' = Stored /\ jumped' = FALSE
  /\ UNCHANGED pairs

(* Variant: a page starts after the key, around the end of the array.      *)
FirstEntryAfter ==
  IF cursor \in Stored THEN ((CHOOSE i \in Used : pairs[i] = cursor) + 1) % Slots ELSE 0

first_entry ==
  IF cursor \in Stored THEN CHOOSE i \in Used : pairs[i] = cursor ELSE 0

(* Variant: free slots are not skipped.                                    *)
PageWithHoles ==
  {i \in Slot : first_entry <= i /\ i - first_entry < PageKeys}

(* The slots of a page.                                                    *)
Page ==
  {i \in Used : /\ first_entry <= i
                /\ Cardinality({j \in Used : first_entry <= j /\ j <= i}) <= PageKeys}

(* An empty page ends the listing, and so does one that ends with the key  *)
(* it was to start from.  A LIST that fails changes nothing and is asked   *)
(* again.                                                                  *)
kv_list ==
  /\ listing
  /\ got' = got \union {pairs[i] : i \in Page}
  /\ jumped' = (jumped \/ first_entry > upto)
  /\ \/ Page = {} /\ listing' = FALSE /\ UNCHANGED <<cursor, upto>>
     \/ \E last \in Page :
          /\ \A i \in Page : i <= last
          /\ cursor' = pairs[last]
          /\ upto' = last + 1
          /\ listing' = (pairs[last] # cursor)
  /\ UNCHANGED <<pairs, steady>>

Next == (\E k \in Key : kv_store(k) \/ kv_delete(k)) \/ Start \/ kv_list

Spec == Init /\ [][Next]_vars

(* The host asks for the next page.                                        *)
FairSpec == Spec /\ WF_vars(kv_list)

-----------------------------------------------------------------------------
(* Properties.                                                             *)

(* Every variable has its type, and no key is in two slots.                *)
TypeOK ==
  /\ pairs \in [Slot -> Key \union {NoKey}]
  /\ \A i, j \in Used : pairs[i] = pairs[j] => i = j
  /\ cursor \in Key /\ listing \in BOOLEAN /\ got \subseteq Key
  /\ upto \in 0 .. Slots /\ steady \subseteq Stored /\ jumped \in BOOLEAN

(* A finished listing has every key that was there all the time, whatever  *)
(* was stored and deleted between its pages, the cursor included: then the *)
(* page starts again at slot 0.  The exception is a jump: the cursor was   *)
(* deleted and came back at a later slot, or the listing began while the   *)
(* empty key, which the first command seems to name, was in a later slot.  *)
(* A page must have room for two keys, since it begins with the last key   *)
(* of the one before: with room for one the listing would end at once.     *)
ListingComplete == ~listing /\ ~jumped => steady \subseteq got

(* When the other commands cease, a listing ends.                          *)
ListingEnds == <>[][kv_list]_vars => []<>~listing
=============================================================================
