------------------------- MODULE KvNamespaceProofs -------------------------
(***************************************************************************)
(* Proofs about KvNamespace for every key width, value size, capacity and  *)
(* set of commands: the slot array keeps its invariants, and implements    *)
(* the map of KvMap.                                                       *)
(***************************************************************************)
EXTENDS KvNamespace, FiniteSetTheorems, TLAPS

(* The scan of a handler has a first hit when it has one; induction over   *)
(* data takes the least counterexample with the same lemma.                *)
LEMMA MinInSet ==
  ASSUME NEW S, S \subseteq Nat, S # {}
  PROVE  Min(S) \in S /\ \A y \in S : Min(S) <= y
<1>1. PICK x \in S : \A y \in S : <<y, x>> \notin OpToRel(<, Nat)
  BY NatLessThanWellFounded, WFMin, Zenon
<1>2. \A y \in S : ~(y < x)
  BY <1>1, Zenon DEF OpToRel
<1>3. \A y \in S : x <= y
  BY <1>2
<1>. QED BY <1>3 DEF Min

(* The capacity check divides nuse by the size it is a multiple of.        *)
LEMMA DivExact ==
  ASSUME NEW n \in Nat, NEW s \in Nat \ {0}
  PROVE  (n * s) \div s = n
<1>1. /\ n * s \in Int /\ n * s = s * n + 0
  OBVIOUS
<1>. QED BY <1>1

(* Positive sizes, used everywhere.                                        *)
LEMMA Sizes ==
  /\ Word \in Nat \ {0} /\ MaxVal \in Nat \ {0} /\ MaxNumKeys \in Nat
  /\ NVME_KV_MAX_KEY_SIZE \in Nat \ {0} /\ NVME_KV_MAX_KEY_SIZE = 2 * Word
  /\ SlotSize \in Nat \ {0}
  BY SizeAssumption DEF NVME_KV_MAX_KEY_SIZE, SlotSize

(* kv_key_match compares exactly the kl bytes that make the key.           *)
LEMMA KeyMatch ==
  ASSUME NEW c \in NvmeKVCmd, c.kl <= NVME_KV_MAX_KEY_SIZE, NEW p \in kv_pair, p.used
  PROVE  kv_key_match(c, p) <=> KeyOfPair(p) = KeyOfCmd(c)
<1>. /\ c.kl \in Nat /\ p.kl \in Nat /\ p.kl <= 2 * Word /\ c.kl <= 2 * Word /\ Word \in Nat
     /\ KeyLen(c) = c.kl
  BY Sizes DEF NvmeKVCmd, kv_pair, KeyLen
<1>1. ASSUME kv_key_match(c, p) PROVE KeyOfPair(p) = KeyOfCmd(c)
  <2>1. c.kl = p.kl
    BY <1>1 DEF kv_key_match
  <2>2. ASSUME NEW i \in 0 .. c.kl - 1
        PROVE  p.key[i] = IF i < Word THEN c.key[i] ELSE c.key_hi[i - Word]
    <3>1. CASE i < Word
      BY <1>1, <3>1 DEF kv_key_match, AtMost
    <3>2. CASE i >= Word
      <4>1. i - Word \in 0 .. AtMost(c.kl - Word, Word) - 1 /\ c.kl > Word
        BY <3>2 DEF AtMost
      <4>2. c.key_hi[i - Word] = p.key[Word + (i - Word)]
        BY <1>1, <4>1 DEF kv_key_match
      <4>. QED BY <4>2, <3>2
    <3>. QED BY <3>1, <3>2
  <2>. QED BY <2>1, <2>2 DEF KeyOfPair, KeyOfCmd
<1>2. ASSUME KeyOfPair(p) = KeyOfCmd(c) PROVE kv_key_match(c, p)
  <2>1. DOMAIN KeyOfPair(p) = 0 .. p.kl - 1 /\ DOMAIN KeyOfCmd(c) = 0 .. c.kl - 1
    BY DEF KeyOfPair, KeyOfCmd
  <2>2. c.kl = p.kl
    <3>1. 0 .. p.kl - 1 = 0 .. c.kl - 1
      BY <1>2, <2>1
    <3>2. /\ p.kl - 1 \in 0 .. p.kl - 1 \/ p.kl = 0
          /\ c.kl - 1 \in 0 .. c.kl - 1 \/ c.kl = 0
      OBVIOUS
    <3>. QED BY <3>1, <3>2
  <2>3. ASSUME NEW i \in 0 .. c.kl - 1
        PROVE  p.key[i] = IF i < Word THEN c.key[i] ELSE c.key_hi[i - Word]
    <3>1. KeyOfPair(p)[i] = p.key[i]
      BY <2>2 DEF KeyOfPair
    <3>2. KeyOfCmd(c)[i] = IF i < Word THEN c.key[i] ELSE c.key_hi[i - Word]
      BY DEF KeyOfCmd
    <3>. QED BY <3>1, <3>2, <1>2
  <2>4. \A i \in 0 .. AtMost(c.kl, Word) - 1 : c.key[i] = p.key[i]
    BY <2>3 DEF AtMost
  <2>5. ASSUME c.kl > Word, NEW i \in 0 .. AtMost(c.kl - Word, Word) - 1
        PROVE  c.key_hi[i] = p.key[Word + i]
    <3>1. Word + i \in 0 .. c.kl - 1 /\ ~(Word + i < Word) /\ (Word + i) - Word = i
      BY <2>5 DEF AtMost
    <3>. QED BY <3>1, <2>3
  <2>. QED BY <2>2, <2>4, <2>5 DEF kv_key_match
<1>. QED BY <1>1, <1>2

(* kv_key_store enters exactly that key, and touches nothing else.         *)
LEMMA KeyStored ==
  ASSUME NEW c \in NvmeKVCmd, c.kl <= NVME_KV_MAX_KEY_SIZE, NEW p \in kv_pair
  PROVE  /\ kv_key_store(p, c) \in kv_pair
         /\ kv_key_store(p, c).used
         /\ kv_key_store(p, c).val = p.val
         /\ KeyOfPair(kv_key_store(p, c)) = KeyOfCmd(c)
<1>. DEFINE q == kv_key_store(p, c)
            key == [i \in KeyIdx |->
                      IF i < AtMost(c.kl, Word) THEN c.key[i]
                      ELSE IF Word <= i /\ i < Word + AtMost(c.kl - Word, Word)
                      THEN c.key_hi[i - Word] ELSE p.key[i]]
<1>1. /\ c.kl \in Nat /\ c.kl <= 2 * Word /\ Word \in Nat /\ KeyLen(c) = c.kl
      /\ KeyIdx = 0 .. 2 * Word - 1
      /\ c.key \in [0 .. Word - 1 -> Byte] /\ c.key_hi \in [0 .. Word - 1 -> Byte]
      /\ p.key \in [KeyIdx -> Byte] /\ AtMost(c.kl, NVME_KV_MAX_KEY_SIZE) = c.kl
  BY Sizes, SMTT(30) DEF NvmeKVCmd, kv_pair, KeyLen, KeyIdx, AtMost
<1>2. q = [p EXCEPT !.key = key, !.kl = c.kl, !.used = TRUE]
  BY <1>1 DEF kv_key_store
<1>3. key \in [KeyIdx -> Byte]
  <2>. SUFFICES ASSUME NEW i \in KeyIdx PROVE key[i] \in Byte
    OBVIOUS
  <2>1. CASE i < AtMost(c.kl, Word)
    BY <2>1, <1>1 DEF AtMost
  <2>2. CASE ~(i < AtMost(c.kl, Word)) /\ Word <= i /\ i < Word + AtMost(c.kl - Word, Word)
    <3>1. i - Word \in 0 .. Word - 1
      BY <2>2, <1>1 DEF AtMost
    <3>. QED BY <3>1, <2>2, <1>1
  <2>3. CASE ~(i < AtMost(c.kl, Word)) /\ ~(Word <= i /\ i < Word + AtMost(c.kl - Word, Word))
    BY <2>3, <1>1
  <2>. QED BY <2>1, <2>2, <2>3
<1>4. q.key = key /\ q.kl = c.kl /\ q.used /\ q.val = p.val /\ q \in kv_pair
  <2>. HIDE DEF q, key
  <2>1. p = [key |-> p.key, kl |-> p.kl, val |-> p.val, used |-> p.used] /\ p.val \in Value
    BY DEF kv_pair
  <2>2. q = [key |-> key, kl |-> c.kl, val |-> p.val, used |-> TRUE]
    BY <1>2, <2>1
  <2>3. c.kl \in 0 .. NVME_KV_MAX_KEY_SIZE
    BY <1>1, Sizes
  <2>. QED BY <2>1, <2>2, <2>3, <1>3 DEF kv_pair
<1>5. ASSUME NEW i \in 0 .. c.kl - 1
      PROVE  key[i] = IF i < Word THEN c.key[i] ELSE c.key_hi[i - Word]
  BY <1>1 DEF AtMost
<1>6. KeyOfPair(q) = KeyOfCmd(c)
  BY <1>1, <1>4, <1>5 DEF KeyOfPair, KeyOfCmd
<1>. QED BY <1>4, <1>6

-----------------------------------------------------------------------------
(* Slot arrays as values: the slots in use, that no key is in two of them, *)
(* and the map they stand for.                                             *)
UsedIn(P) == {i \in DOMAIN P : P[i].used}
Distinct(P) == \A i, j \in UsedIn(P) : KeyOfPair(P[i]) = KeyOfPair(P[j]) => i = j
SlotArray(P, n) == n \in Nat /\ P \in [0 .. n - 1 -> kv_pair] /\ Distinct(P)
UsedPair(q) == q \in kv_pair /\ q.used
SlotSet(P, e, q) == [P EXCEPT ![e] = q]
Absent(P, k) == \A i \in UsedIn(P) : KeyOfPair(P[i]) # k
MapOf(P) ==
  [k \in {KeyOfPair(P[i]) : i \in UsedIn(P)} |->
     P[CHOOSE i \in UsedIn(P) : KeyOfPair(P[i]) = k].val]
Without(f, k) == [x \in DOMAIN f \ {k} |-> f[x]]
With(f, k, v) == [x \in DOMAIN f \cup {k} |-> IF x = k THEN v ELSE f[x]]

(* The map of an array is what its slots say, slot by slot.                *)
LEMMA MapAt ==
  ASSUME NEW P, Distinct(P)
  PROVE  /\ DOMAIN MapOf(P) = {KeyOfPair(P[i]) : i \in UsedIn(P)}
         /\ \A i \in UsedIn(P) : MapOf(P)[KeyOfPair(P[i])] = P[i].val
<1>1. DOMAIN MapOf(P) = {KeyOfPair(P[i]) : i \in UsedIn(P)}
  BY DEF MapOf
<1>2. ASSUME NEW i \in UsedIn(P)
      PROVE  MapOf(P)[KeyOfPair(P[i])] = P[i].val
  <2>. DEFINE k == KeyOfPair(P[i])
              j == CHOOSE j \in UsedIn(P) : KeyOfPair(P[j]) = k
  <2>1. j \in UsedIn(P) /\ KeyOfPair(P[j]) = k
    OBVIOUS
  <2>2. j = i
    BY <2>1 DEF Distinct
  <2>3. MapOf(P)[k] = P[j].val
    BY DEF MapOf
  <2>. QED BY <2>2, <2>3
<1>. QED BY <1>1, <1>2

(* Two maps are equal when they agree key by key: the form in which the    *)
(* next lemmas conclude.                                                   *)
LEMMA MapIs ==
  ASSUME NEW P, Distinct(P), NEW m, m = [x \in DOMAIN m |-> m[x]],
         DOMAIN m = {KeyOfPair(P[i]) : i \in UsedIn(P)},
         \A i \in UsedIn(P) : m[KeyOfPair(P[i])] = P[i].val
  PROVE  MapOf(P) = m
<1>1. MapOf(P) = [x \in DOMAIN MapOf(P) |-> MapOf(P)[x]]
  BY DEF MapOf
<1>2. DOMAIN MapOf(P) = DOMAIN m
  BY MapAt
<1>3. ASSUME NEW x \in DOMAIN m PROVE MapOf(P)[x] = m[x]
  <2>1. PICK i \in UsedIn(P) : x = KeyOfPair(P[i])
    OBVIOUS
  <2>2. MapOf(P)[KeyOfPair(P[i])] = P[i].val
    BY MapAt
  <2>. QED BY <2>1, <2>2
<1>. QED BY <1>1, <1>2, <1>3

(* A key entered in an empty slot is added to the map.                     *)
LEMMA KeyAdded ==
  ASSUME NEW n, NEW P, SlotArray(P, n), NEW e \in 0 .. n - 1, e \notin UsedIn(P),
         NEW q, UsedPair(q), Absent(P, KeyOfPair(q))
  PROVE  /\ SlotArray(SlotSet(P, e, q), n)
         /\ UsedIn(SlotSet(P, e, q)) = UsedIn(P) \cup {e}
         /\ MapOf(SlotSet(P, e, q)) = With(MapOf(P), KeyOfPair(q), q.val)
<1>. DEFINE Q == SlotSet(P, e, q)
            k == KeyOfPair(q)
            m == With(MapOf(P), k, q.val)
<1>0. n \in Nat /\ P \in [0 .. n - 1 -> kv_pair] /\ Distinct(P) /\ q \in kv_pair /\ q.used
  BY DEF SlotArray, UsedPair
<1>1. Q \in [0 .. n - 1 -> kv_pair] /\ Q[e] = q /\ \A i \in 0 .. n - 1 : i # e => Q[i] = P[i]
  BY <1>0 DEF SlotSet
<1>. HIDE DEF Q
<1>2. UsedIn(Q) = UsedIn(P) \cup {e}
  BY <1>0, <1>1 DEF UsedIn
<1>3. \A i \in UsedIn(P) : Q[i] = P[i]
  BY <1>0, <1>1 DEF UsedIn
<1>4. Distinct(Q)
  BY <1>0, <1>1, <1>2, <1>3 DEF Distinct, Absent
<1>5. DOMAIN m = {KeyOfPair(P[i]) : i \in UsedIn(P)} \cup {k} /\ m = [x \in DOMAIN m |-> m[x]]
  BY <1>0, MapAt DEF With
<1>6. DOMAIN m = {KeyOfPair(Q[i]) : i \in UsedIn(Q)}
  BY <1>1, <1>2, <1>3, <1>5
<1>7. \A i \in UsedIn(Q) : m[KeyOfPair(Q[i])] = Q[i].val
  <2>1. m[k] = q.val
    BY DEF With
  <2>2. \A i \in UsedIn(P) : m[KeyOfPair(P[i])] = P[i].val
    BY <1>0, MapAt DEF With, Absent
  <2>. QED BY <2>1, <2>2, <1>1, <1>2, <1>3
<1>. HIDE DEF m
<1>8. MapOf(Q) = m
  BY <1>4, <1>5, <1>6, <1>7, MapIs
<1>. QED BY <1>0, <1>1, <1>2, <1>4, <1>8 DEF Q, m, SlotArray

(* Writing the value area of a slot in use changes that key only.          *)
LEMMA ValueChanged ==
  ASSUME NEW n, NEW P, SlotArray(P, n), NEW e \in UsedIn(P),
         NEW q, UsedPair(q), KeyOfPair(q) = KeyOfPair(P[e])
  PROVE  /\ SlotArray(SlotSet(P, e, q), n)
         /\ UsedIn(SlotSet(P, e, q)) = UsedIn(P)
         /\ MapOf(SlotSet(P, e, q)) = With(MapOf(P), KeyOfPair(q), q.val)
<1>. DEFINE Q == SlotSet(P, e, q)
            k == KeyOfPair(q)
            m == With(MapOf(P), k, q.val)
<1>1. n \in Nat /\ P \in [0 .. n - 1 -> kv_pair] /\ Distinct(P) /\ q \in kv_pair /\ q.used
  BY DEF SlotArray, UsedPair
<1>0. e \in 0 .. n - 1 /\ P[e] \in kv_pair /\ P[e].used
  BY <1>1 DEF UsedIn
<1>2. /\ Q \in [0 .. n - 1 -> kv_pair] /\ Q[e] = q
      /\ \A i \in 0 .. n - 1 : i # e => Q[i] = P[i]
  BY <1>0, <1>1 DEF SlotSet
<1>. HIDE DEF Q
<1>3. KeyOfPair(Q[e]) = k
  BY <1>2
<1>4. UsedIn(Q) = UsedIn(P)
  BY <1>0, <1>1, <1>2 DEF UsedIn
<1>5. \A i \in UsedIn(P) : KeyOfPair(Q[i]) = KeyOfPair(P[i]) /\ (i # e => Q[i] = P[i])
  BY <1>1, <1>2, <1>3 DEF UsedIn
<1>6. Distinct(Q)
  BY <1>1, <1>4, <1>5 DEF Distinct
<1>7. DOMAIN m = {KeyOfPair(Q[i]) : i \in UsedIn(Q)} /\ m = [x \in DOMAIN m |-> m[x]]
  <2>1. DOMAIN m = {KeyOfPair(P[i]) : i \in UsedIn(P)} \cup {k}
    BY <1>1, MapAt DEF With
  <2>2. k \in {KeyOfPair(P[i]) : i \in UsedIn(P)}
    OBVIOUS
  <2>3. {KeyOfPair(Q[i]) : i \in UsedIn(Q)} = {KeyOfPair(P[i]) : i \in UsedIn(P)}
    BY <1>4, <1>5
  <2>4. m = [x \in DOMAIN m |-> m[x]]
    BY DEF With
  <2>. QED BY <2>1, <2>2, <2>3, <2>4
<1>8. ASSUME NEW i \in UsedIn(Q) PROVE m[KeyOfPair(Q[i])] = Q[i].val
  <2>1. CASE i = e
    BY <2>1, <1>2, <1>3 DEF With
  <2>2. CASE i # e
    <3>1. KeyOfPair(P[i]) # k
      BY <1>1, <2>2, <1>4 DEF Distinct
    <3>2. MapOf(P)[KeyOfPair(P[i])] = P[i].val /\ KeyOfPair(P[i]) \in DOMAIN MapOf(P)
      BY <1>1, MapAt, <1>4
    <3>3. m[KeyOfPair(P[i])] = P[i].val
      BY <3>1, <3>2 DEF With
    <3>. QED BY <3>3, <2>2, <1>4, <1>5
  <2>. QED BY <2>1, <2>2
<1>. HIDE DEF m
<1>9. MapOf(Q) = m
  BY <1>6, <1>7, <1>8, MapIs
<1>. QED BY <1>1, <1>2, <1>4, <1>6, <1>9 DEF Q, m, SlotArray

(* Clearing a slot in use removes its key.                                 *)
LEMMA KeyRemoved ==
  ASSUME NEW n, NEW P, SlotArray(P, n), NEW e \in UsedIn(P), ZeroPair \in kv_pair
  PROVE  /\ SlotArray(SlotSet(P, e, ZeroPair), n)
         /\ UsedIn(SlotSet(P, e, ZeroPair)) = UsedIn(P) \ {e}
         /\ MapOf(SlotSet(P, e, ZeroPair)) = Without(MapOf(P), KeyOfPair(P[e]))
<1>. DEFINE Q == SlotSet(P, e, ZeroPair)
            k == KeyOfPair(P[e])
            m == [x \in DOMAIN MapOf(P) \ {k} |-> MapOf(P)[x]]
<1>8. n \in Nat /\ P \in [0 .. n - 1 -> kv_pair] /\ Distinct(P)
  BY DEF SlotArray
<1>0. e \in 0 .. n - 1 /\ ~ZeroPair.used
  BY <1>8 DEF UsedIn, ZeroPair
<1>1. /\ Q \in [0 .. n - 1 -> kv_pair] /\ Q[e] = ZeroPair
      /\ \A i \in 0 .. n - 1 : i # e => Q[i] = P[i]
  BY <1>0, <1>8 DEF SlotSet
<1>. HIDE DEF Q
<1>2. UsedIn(Q) = UsedIn(P) \ {e} /\ \A i \in UsedIn(Q) : Q[i] = P[i] /\ i # e
  BY <1>0, <1>1, <1>8 DEF UsedIn
<1>3. Distinct(Q)
  BY <1>2, <1>8 DEF Distinct
<1>4. \A i \in UsedIn(Q) : KeyOfPair(P[i]) # k
  BY <1>2, <1>8 DEF Distinct
<1>5. DOMAIN m = {KeyOfPair(Q[i]) : i \in UsedIn(Q)} /\ m = [x \in DOMAIN m |-> m[x]]
  <2>1. DOMAIN m = {KeyOfPair(P[i]) : i \in UsedIn(P)} \ {k}
    BY <1>8, MapAt
  <2>. QED BY <2>1, <1>2, <1>4
<1>6. ASSUME NEW i \in UsedIn(Q) PROVE m[KeyOfPair(Q[i])] = Q[i].val
  <2>1. i \in UsedIn(P) /\ Q[i] = P[i]
    BY <1>2
  <2>2. MapOf(P)[KeyOfPair(P[i])] = P[i].val /\ KeyOfPair(P[i]) \in DOMAIN MapOf(P)
    BY <1>8, MapAt, <2>1
  <2>. QED BY <2>1, <2>2, <1>4
<1>. HIDE DEF m
<1>7. MapOf(Q) = m
  BY <1>3, <1>5, <1>6, MapIs
<1>. QED BY <1>1, <1>2, <1>3, <1>7, <1>8 DEF Q, m, SlotArray, Without

(* Appending cleared slots changes nothing.                                *)
LEMMA SlotsAppended ==
  ASSUME NEW n, NEW P, SlotArray(P, n), NEW l \in Nat, l >= n, ZeroPair \in kv_pair
  PROVE  LET Q == [i \in 0 .. l - 1 |-> IF i < n THEN P[i] ELSE ZeroPair] IN
         /\ SlotArray(Q, l)
         /\ UsedIn(Q) = UsedIn(P)
         /\ MapOf(Q) = MapOf(P)
<1>. DEFINE Q == [i \in 0 .. l - 1 |-> IF i < n THEN P[i] ELSE ZeroPair]
<1>0. ~ZeroPair.used /\ n \in Nat /\ P \in [0 .. n - 1 -> kv_pair] /\ Distinct(P)
  BY DEF ZeroPair, SlotArray
<1>1. Q \in [0 .. l - 1 -> kv_pair] /\ UsedIn(Q) = UsedIn(P) /\ \A i \in UsedIn(P) : Q[i] = P[i]
  BY <1>0 DEF UsedIn
<1>. HIDE DEF Q
<1>2. Distinct(Q)
  BY <1>0, <1>1 DEF Distinct
<1>3. MapOf(Q) = MapOf(P)
  <2>1. MapOf(P) = [x \in DOMAIN MapOf(P) |-> MapOf(P)[x]]
    BY DEF MapOf
  <2>2. /\ DOMAIN MapOf(P) = {KeyOfPair(Q[i]) : i \in UsedIn(Q)}
        /\ \A i \in UsedIn(Q) : MapOf(P)[KeyOfPair(Q[i])] = Q[i].val
    <3>1. /\ DOMAIN MapOf(P) = {KeyOfPair(P[i]) : i \in UsedIn(P)}
          /\ \A i \in UsedIn(P) : MapOf(P)[KeyOfPair(P[i])] = P[i].val
      BY <1>0, MapAt
    <3>. QED BY <1>1, <3>1
  <2>. QED BY <2>1, <2>2, <1>2, MapIs
<1>. QED BY <1>1, <1>2, <1>3 DEF Q, SlotArray

-----------------------------------------------------------------------------
(* The inductive invariant.  FreeSlotsZeroed is part of it because a new   *)
(* key takes over what its slot held.                                      *)
Inv == TypeOK /\ UniqueKeys /\ NuseExact /\ FreeSlotsZeroed

(* The definitions of KvNamespace, in terms of arrays as values.           *)
LEMMA Views ==
  /\ Used = UsedIn(pairs) /\ Used' = UsedIn(pairs')
  /\ Empty = DOMAIN pairs \ UsedIn(pairs) /\ Empty' = DOMAIN pairs' \ UsedIn(pairs')
  /\ UniqueKeys <=> Distinct(pairs)
  /\ UniqueKeys' <=> Distinct(pairs')
  /\ AbsMap = MapOf(pairs) /\ AbsMap' = MapOf(pairs')
<1>1. /\ Used = UsedIn(pairs) /\ Used' = UsedIn(pairs')
      /\ Empty = DOMAIN pairs \ UsedIn(pairs) /\ Empty' = DOMAIN pairs' \ UsedIn(pairs')
  BY DEF Used, UsedIn, Empty
<1>2. (UniqueKeys <=> Distinct(pairs)) /\ (UniqueKeys' <=> Distinct(pairs'))
  BY <1>1 DEF UniqueKeys, Distinct
<1>3. AbsMap = MapOf(pairs) /\ AbsMap' = MapOf(pairs')
  <2>1. AbsMap = MapOf(pairs)
    BY DEF AbsMap, SlotOf, StoredKeys, MapOf, Used, UsedIn
  <2>2. AbsMap' = MapOf(pairs')
    BY DEF AbsMap, SlotOf, StoredKeys, MapOf, Used, UsedIn
  <2>. QED BY <2>1, <2>2
<1>. QED BY <1>1, <1>2, <1>3

(* A cleared slot is a slot, with a zero value area.                       *)
LEMMA ZeroPairType == ZeroPair \in kv_pair /\ ZeroPair.val = ZeroVal /\ ZeroVal \in Value
<1>1. ZeroVal \in Value
  BY SizeAssumption DEF ZeroVal, Value
<1>2. 0 \in 0 .. NVME_KV_MAX_KEY_SIZE
  BY Sizes
<1>. QED BY <1>1, <1>2, SizeAssumption DEF ZeroPair, kv_pair

(* The fields of an answer.                                                *)
LEMMA RspStatus ==
  ASSUME NEW c
  PROVE  /\ \A s \in Status : Rsp(c, s).status \in Status
         /\ \A v, n : RspVal(c, v, n).status \in Status
         /\ \A n, k, ks : RspKeys(c, n, k, ks).status \in Status
BY DEF Rsp, RspVal, RspKeys, Status

(* A transfer over a value area gives a value area.                        *)
LEMMA OverlayType ==
  ASSUME NEW v \in Value, NEW buf \in Value, NEW n
  PROVE  Overlay(v, buf, n) \in Value
BY DEF Overlay, Value

(* What a scan for a valid key finds.                                      *)
LEMMA Scan ==
  ASSUME Inv, NEW c \in Cmds, c.kl <= NVME_KV_MAX_KEY_SIZE
  PROVE  /\ Matches(c) # {} => /\ Min(Matches(c)) \in Used
                               /\ KeyOfPair(pairs[Min(Matches(c))]) = KeyOfCmd(c)
         /\ Matches(c) = {} => \A i \in Used : KeyOfPair(pairs[i]) # KeyOfCmd(c)
         /\ Matches(c) # {} <=> KeyOfCmd(c) \in DOMAIN AbsMap
<1>1. c \in NvmeKVCmd
  BY InputAssumption
<1>2. DOMAIN pairs = 0 .. entries_allocated - 1 /\ \A i \in DOMAIN pairs : pairs[i] \in kv_pair
  BY DEF Inv, TypeOK
<1>3. Matches(c) = {i \in Used : KeyOfPair(pairs[i]) = KeyOfCmd(c)}
  <2>1. \A i \in DOMAIN pairs : kv_key_match(c, pairs[i]) => pairs[i].used
    BY DEF kv_key_match
  <2>. QED BY <1>1, <1>2, <2>1, KeyMatch DEF Matches, Used
<1>4. Matches(c) \subseteq Nat
  BY <1>2, <1>3 DEF Used, Inv, TypeOK
<1>5. DOMAIN AbsMap = {KeyOfPair(pairs[i]) : i \in Used}
  BY Views DEF AbsMap, StoredKeys
<1>. QED BY <1>3, <1>4, <1>5, MinInSet

(* The capacity check counts the keys.                                     *)
LEMMA Counting ==
  ASSUME Inv
  PROVE  /\ IsFiniteSet(Used) /\ Cardinality(Used) \in Nat
         /\ Full <=> Cardinality(Used) >= MaxNumKeys
         /\ Cardinality(DOMAIN AbsMap) \in Nat
         /\ Cardinality(DOMAIN AbsMap) <= Cardinality(Used)
<1>1. IsFiniteSet(Used)
  <2>1. Used \in SUBSET (0 .. entries_allocated - 1)
    BY DEF Inv, TypeOK, Used
  <2>2. IsFiniteSet(0 .. entries_allocated - 1)
    BY FS_Interval DEF Inv, TypeOK
  <2>. QED BY <2>1, <2>2, FS_Subset
<1>2. Cardinality(Used) \in Nat
  BY <1>1, FS_CardinalityType
<1>3. nuse \div SlotSize = Cardinality(Used)
  BY <1>2, DivExact, Sizes DEF Inv, NuseExact
<1>4. DOMAIN AbsMap = {KeyOfPair(pairs[i]) : i \in Used}
  BY Views DEF AbsMap, StoredKeys
<1>5. [i \in Used |-> KeyOfPair(pairs[i])] \in Surjection(Used, DOMAIN AbsMap)
  BY <1>4 DEF Surjection
<1>6. IsFiniteSet(DOMAIN AbsMap) /\ Cardinality(DOMAIN AbsMap) <= Cardinality(Used)
  BY <1>1, <1>5, FS_Surjection
<1>7. Cardinality(DOMAIN AbsMap) \in Nat
  BY <1>6, FS_CardinalityType
<1>. QED BY <1>1, <1>2, <1>3, <1>6, <1>7 DEF Full

(* kv_ns_init establishes the invariant and maps to the empty map.         *)
LEMMA InitInv == Init => Inv
<1>. SUFFICES ASSUME Init PROVE Inv
  OBVIOUS
<1>1. ~ZeroPair.used /\ pairs = [i \in 0 .. InitialEntries - 1 |-> ZeroPair]
  BY DEF Init, ZeroPair
<1>2. Used = {}
  BY <1>1 DEF Used
<1>3. TypeOK
  BY <1>1, EntriesAssumption, ZeroPairType DEF Init, TypeOK, NoRsp, Status
<1>4. UniqueKeys
  BY <1>2 DEF UniqueKeys
<1>5. NuseExact
  <2>1. nuse = 0 /\ Cardinality(Used) = 0
    BY <1>2, FS_EmptySet DEF Init
  <2>2. 0 * SlotSize = 0 /\ 0 <= MaxNumKeys * SlotSize
    BY Sizes
  <2>. QED BY <2>1, <2>2 DEF NuseExact, nsze
<1>6. FreeSlotsZeroed
  BY <1>1 DEF FreeSlotsZeroed, Empty
<1>. QED BY <1>3, <1>4, <1>5, <1>6 DEF Inv

(* A handler that leaves the namespace alone keeps the invariant.          *)
LEMMA Untouched ==
  ASSUME Inv, UNCHANGED <<pairs, entries_allocated, nuse>>, ednek' \in BOOLEAN,
         rsp'.status \in Status
  PROVE  Inv' /\ AbsMap' = AbsMap
<1>1. Used' = Used /\ Empty' = Empty /\ AbsMap' = AbsMap /\ (UniqueKeys' <=> UniqueKeys)
  BY Views
<1>2. TypeOK'
  BY DEF Inv, TypeOK
<1>3. NuseExact' /\ FreeSlotsZeroed'
  BY <1>1 DEF Inv, NuseExact, nsze, FreeSlotsZeroed
<1>. QED BY <1>1, <1>2, <1>3 DEF Inv

(* The array of a state that satisfies the invariant.                      *)
LEMMA ArrayOf == Inv => SlotArray(pairs, entries_allocated) /\ Used = UsedIn(pairs)
BY Views DEF Inv, TypeOK, SlotArray

(* Back from the array to the invariant.                                   *)
LEMMA ArrayInv ==
  ASSUME SlotArray(pairs', entries_allocated'), entries_allocated' \in Nat \ {0},
         nuse' \in Nat, ednek' \in BOOLEAN, rsp'.status \in Status,
         NuseExact', FreeSlotsZeroed'
  PROVE  Inv'
BY Views DEF Inv, TypeOK, SlotArray

(* Overwriting the value of a key that is stored.                          *)
LEMMA Overwritten ==
  ASSUME Inv, NEW e \in Used, NEW q, UsedPair(q), KeyOfPair(q) = KeyOfPair(pairs[e]),
         pairs' = SlotSet(pairs, e, q),
         UNCHANGED <<entries_allocated, nuse, ednek>>, rsp'.status \in Status
  PROVE  /\ Inv'
         /\ AbsMap' = With(AbsMap, KeyOfPair(q), q.val)
<1>1. e \in UsedIn(pairs) /\ SlotArray(pairs, entries_allocated)
  BY ArrayOf
<1>2. /\ SlotArray(pairs', entries_allocated)
      /\ UsedIn(pairs') = UsedIn(pairs)
      /\ MapOf(pairs') = With(MapOf(pairs), KeyOfPair(q), q.val)
  BY <1>1, ValueChanged
<1>3. Used' = Used /\ Empty' = Empty /\ \A i \in Empty : pairs'[i] = pairs[i]
  <2>1. DOMAIN pairs' = DOMAIN pairs
    BY <1>1, <1>2 DEF SlotArray
  <2>2. \A i \in Empty : i # e /\ i \in DOMAIN pairs
    BY Views
  <2>. QED BY <1>2, <2>1, <2>2, Views DEF SlotSet
<1>4. NuseExact' /\ FreeSlotsZeroed'
  BY <1>3 DEF Inv, NuseExact, nsze, FreeSlotsZeroed
<1>5. /\ entries_allocated' \in Nat \ {0} /\ nuse' \in Nat /\ ednek' \in BOOLEAN
      /\ SlotArray(pairs', entries_allocated')
  BY <1>2 DEF Inv, TypeOK
<1>. QED BY <1>2, <1>4, <1>5, ArrayInv, Views

(* Clearing the slot of a key.                                             *)
LEMMA Removed ==
  ASSUME Inv, NEW e \in Used,
         pairs' = SlotSet(pairs, e, ZeroPair), nuse' = nuse - SlotSize,
         UNCHANGED <<entries_allocated, ednek>>, rsp'.status \in Status
  PROVE  /\ Inv'
         /\ AbsMap' = Without(AbsMap, KeyOfPair(pairs[e]))
<1>1. e \in UsedIn(pairs) /\ SlotArray(pairs, entries_allocated) /\ e \in DOMAIN pairs
  BY ArrayOf DEF UsedIn
<1>2. /\ SlotArray(pairs', entries_allocated)
      /\ UsedIn(pairs') = UsedIn(pairs) \ {e}
      /\ MapOf(pairs') = Without(MapOf(pairs), KeyOfPair(pairs[e]))
  BY <1>1, KeyRemoved, ZeroPairType
<1>3. /\ Used' = Used \ {e} /\ Empty' = Empty \cup {e}
      /\ pairs'[e] = ZeroPair /\ \A i \in Empty : pairs'[i] = pairs[i]
  <2>1. DOMAIN pairs' = DOMAIN pairs
    BY <1>1, <1>2 DEF SlotArray
  <2>2. \A i \in Empty : i # e /\ i \in DOMAIN pairs
    BY Views
  <2>. QED BY <1>1, <1>2, <2>1, <2>2, Views DEF SlotSet
<1>4. /\ Cardinality(Used) \in Nat /\ Cardinality(Used') = Cardinality(Used) - 1
      /\ Cardinality(Used') \in Nat
  <2>1. Cardinality(Used') = Cardinality(Used) - 1 /\ IsFiniteSet(Used')
    BY <1>3, Counting, FS_RemoveElement
  <2>. QED BY <2>1, Counting, FS_CardinalityType
<1>5. NuseExact' /\ nuse' \in Nat
  <2>1. nuse' = Cardinality(Used') * SlotSize /\ nuse' <= nuse /\ nuse' \in Nat
    BY <1>4, Sizes DEF Inv, NuseExact
  <2>2. nuse <= MaxNumKeys * SlotSize /\ MaxNumKeys * SlotSize \in Int /\ nuse \in Int
    BY Sizes DEF Inv, NuseExact, nsze, TypeOK
  <2>. QED BY <2>1, <2>2 DEF NuseExact, nsze
<1>6. FreeSlotsZeroed'
  BY <1>3 DEF Inv, FreeSlotsZeroed
<1>7. /\ entries_allocated' \in Nat \ {0} /\ ednek' \in BOOLEAN
      /\ SlotArray(pairs', entries_allocated')
  BY <1>2 DEF Inv, TypeOK
<1>. QED BY <1>2, <1>5, <1>6, <1>7, ArrayInv, Views

(* The array StoreNew works on: itself, or grown.                          *)
LEMMA RoomMade ==
  ASSUME Inv, NEW n, n = IF Empty # {} THEN entries_allocated ELSE 2 * entries_allocated
  PROVE  /\ n \in Nat \ {0} /\ SlotArray(Room, n)
         /\ UsedIn(Room) = Used /\ MapOf(Room) = AbsMap
         /\ fst_empty \in 0 .. n - 1 /\ fst_empty \notin Used
         /\ \A i \in (0 .. n - 1) \ Used : Room[i] = ZeroPair
<1>. DEFINE l == entries_allocated
<1>1. l \in Nat \ {0} /\ SlotArray(pairs, l) /\ DOMAIN pairs = 0 .. l - 1
  BY ArrayOf DEF Inv, TypeOK
<1>2. CASE Empty # {}
  <2>1. Empty \subseteq 0 .. l - 1 /\ Empty \subseteq Nat
    BY <1>1 DEF Empty
  <2>2. Min(Empty) \in Empty
    BY <2>1, <1>2, MinInSet
  <2>3. Room = pairs /\ fst_empty = Min(Empty) /\ n = l
    BY <1>2 DEF Room, fst_empty
  <2>4. \A i \in (0 .. l - 1) \ Used : pairs[i] = ZeroPair
    BY <1>1 DEF Inv, FreeSlotsZeroed, Empty
  <2>. QED BY <1>1, <2>1, <2>2, <2>3, <2>4, Views DEF Empty
<1>3. CASE Empty = {}
  <2>1. Room = [i \in 0 .. 2 * l - 1 |-> IF i < l THEN pairs[i] ELSE ZeroPair]
    BY <1>3 DEF Room, Grown
  <2>2. /\ SlotArray(Room, 2 * l)
        /\ UsedIn(Room) = UsedIn(pairs) /\ MapOf(Room) = MapOf(pairs)
    BY <1>1, <2>1, SlotsAppended, ZeroPairType
  <2>3. fst_empty = l /\ n = 2 * l /\ Used = 0 .. l - 1
    BY <1>1, <1>3 DEF fst_empty, Empty, Used
  <2>4. \A i \in (0 .. 2 * l - 1) \ Used : Room[i] = ZeroPair
    BY <1>1, <2>1, <2>3
  <2>. QED BY <1>1, <2>2, <2>3, <2>4, Views
<1>. QED BY <1>2, <1>3

(* Entering a new key in the first empty slot.                             *)
LEMMA Entered ==
  ASSUME Inv, ~Full, NEW q, UsedPair(q),
         \A i \in Used : KeyOfPair(pairs[i]) # KeyOfPair(q),
         pairs' = SlotSet(Room, fst_empty, q),
         entries_allocated' = IF Empty # {} THEN entries_allocated ELSE 2 * entries_allocated,
         nuse' = nuse + SlotSize, UNCHANGED ednek, rsp'.status \in Status
  PROVE  /\ Inv'
         /\ AbsMap' = With(AbsMap, KeyOfPair(q), q.val)
<1>. DEFINE n == entries_allocated'
<1>1. /\ n \in Nat \ {0} /\ SlotArray(Room, n)
      /\ UsedIn(Room) = Used /\ MapOf(Room) = AbsMap
      /\ fst_empty \in 0 .. n - 1 /\ fst_empty \notin Used
      /\ \A i \in (0 .. n - 1) \ Used : Room[i] = ZeroPair
  BY RoomMade
<1>. HIDE DEF n
<1>2. Absent(Room, KeyOfPair(q))
  <2>1. \A k \in DOMAIN AbsMap : k # KeyOfPair(q)
    BY Views DEF AbsMap, StoredKeys
  <2>2. \A i \in UsedIn(Room) : KeyOfPair(Room[i]) \in DOMAIN AbsMap
    BY <1>1, MapAt DEF SlotArray
  <2>. QED BY <2>1, <2>2 DEF Absent
<1>3. /\ SlotArray(pairs', n)
      /\ UsedIn(pairs') = UsedIn(Room) \cup {fst_empty}
      /\ MapOf(pairs') = With(MapOf(Room), KeyOfPair(q), q.val)
  <2>1. fst_empty \in 0 .. n - 1 /\ fst_empty \notin UsedIn(Room) /\ SlotArray(Room, n)
    BY <1>1
  <2>. QED BY <2>1, <1>2, KeyAdded
<1>4. Used' = Used \cup {fst_empty}
  BY <1>1, <1>3, Views
<1>5. /\ Cardinality(Used) \in Nat /\ Cardinality(Used) < MaxNumKeys
      /\ Cardinality(Used') = Cardinality(Used) + 1
  <2>1. IsFiniteSet(Used) /\ Cardinality(Used) \in Nat /\ ~(Cardinality(Used) >= MaxNumKeys)
    BY Counting
  <2>2. Cardinality(Used \cup {fst_empty}) = Cardinality(Used) + 1
    BY <1>1, <2>1, FS_AddElement
  <2>. QED BY <1>4, <2>1, <2>2, Sizes
<1>6. NuseExact' /\ nuse' \in Nat
  <2>. DEFINE u == Cardinality(Used)
  <2>1. nuse' = (u + 1) * SlotSize /\ nuse' \in Nat
    BY <1>5, Sizes DEF Inv, NuseExact
  <2>2. (u + 1) * SlotSize <= MaxNumKeys * SlotSize
    <3>1. u \in Nat /\ u + 1 <= MaxNumKeys
      BY <1>5, Sizes
    <3>. HIDE DEF u
    <3>. QED BY <3>1, Sizes
  <2>. QED BY <1>5, <2>1, <2>2 DEF NuseExact, nsze
<1>7. FreeSlotsZeroed'
  <2>1. \A i \in 0 .. n - 1 : i # fst_empty => pairs'[i] = Room[i]
    BY <1>1 DEF SlotSet, SlotArray
  <2>2. Empty' = (0 .. n - 1) \ (Used \cup {fst_empty})
    BY <1>3, <1>4, Views DEF SlotArray
  <2>. QED BY <1>1, <2>1, <2>2 DEF FreeSlotsZeroed
<1>8. SlotArray(pairs', entries_allocated') /\ entries_allocated' \in Nat \ {0} /\ ednek' \in BOOLEAN
  BY <1>1, <1>3 DEF n, Inv, TypeOK
<1>. QED BY <1>1, <1>3, <1>6, <1>7, <1>8, ArrayInv, Views

-----------------------------------------------------------------------------
(* The instance of KvMap has its own copy of KvTypes; the copies agree.    *)
LEMMA Same ==
  ASSUME NEW c
  PROVE  /\ Map!NVME_KV_MAX_KEY_SIZE = NVME_KV_MAX_KEY_SIZE
         /\ Map!KeyOfCmd(c) = KeyOfCmd(c)
         /\ Map!Status = Status
         /\ \A s : Map!Rsp(c, s) = Rsp(c, s)
         /\ \A v, n : Map!RspVal(c, v, n) = RspVal(c, v, n)
         /\ \A n, k, ks : Map!RspKeys(c, n, k, ks) = RspKeys(c, n, k, ks)
         /\ Map!ZeroVal = ZeroVal
         /\ \A v, buf, n : Map!Overlay(v, buf, n) = Overlay(v, buf, n)
         /\ Map!Cardinality(DOMAIN AbsMap) = Cardinality(DOMAIN AbsMap)
<1>1. /\ Map!NVME_KV_MAX_KEY_SIZE = NVME_KV_MAX_KEY_SIZE
      /\ Map!KeyOfCmd(c) = KeyOfCmd(c)
  BY DEF Map!NVME_KV_MAX_KEY_SIZE, NVME_KV_MAX_KEY_SIZE, Map!KeyOfCmd, KeyOfCmd,
         Map!KeyLen, KeyLen
<1>2. Map!Status = Status /\ \A s : Map!Rsp(c, s) = Rsp(c, s)
  BY <1>1 DEF Map!Status, Status, Map!Rsp, Rsp
<1>3. Map!ZeroVal = ZeroVal /\ \A v, buf, n : Map!Overlay(v, buf, n) = Overlay(v, buf, n)
  BY DEF Map!ZeroVal, ZeroVal, Map!Overlay, Overlay, Map!ValIdx, ValIdx
<1>4. \A v, n : Map!RspVal(c, v, n) = RspVal(c, v, n)
  BY <1>2 DEF Map!RspVal, RspVal, Map!Prefix, Prefix
<1>5. \A n, k, ks : Map!RspKeys(c, n, k, ks) = RspKeys(c, n, k, ks)
  BY <1>2 DEF Map!RspKeys, RspKeys
<1>6. Map!Cardinality(DOMAIN AbsMap) = Cardinality(DOMAIN AbsMap)
  BY DEF Map!Cardinality, Cardinality
<1>. QED BY <1>1, <1>2, <1>3, <1>4, <1>5, <1>6

(* A command that fails without an effect.                                 *)
LEMMA FailStep ==
  ASSUME Inv, NEW c \in Cmds, NEW s \in Status, Map!Fails(c, s), rsp' = Rsp(c, s), UNCHANGED ns
  PROVE  Inv' /\ Map!Fail(c)
<1>1. Inv' /\ AbsMap' = AbsMap
  <2>1. UNCHANGED <<pairs, entries_allocated, nuse>> /\ ednek' = ednek /\ ednek' \in BOOLEAN
    BY DEF ns, Inv, TypeOK
  <2>2. rsp'.status \in Status
    BY RspStatus
  <2>. QED BY <2>1, <2>2, Untouched
<1>2. ednek' = ednek
  BY DEF ns
<1>. QED BY <1>1, <1>2, Same DEF Map!Fail

(* kv_store with a key or a value that is too long.                        *)
LEMMA StoreInvalidStep ==
  ASSUME Inv, NEW c \in Cmds, StoreInvalid(c)
  PROVE  Inv' /\ Map!Fail(c)
<1>1. c.kl \in Nat /\ NVME_KV_MAX_KEY_SIZE \in Nat
  BY InputAssumption, Sizes DEF NvmeKVCmd
<1>2. CASE c.kl > NVME_KV_MAX_KEY_SIZE /\ rsp' = Rsp(c, "KV_INVALID_KEY_SIZE")
  <2>1. Map!Fails(c, "KV_INVALID_KEY_SIZE")
    BY <1>1, <1>2, Same DEF Map!Fails, StoreInvalid
  <2>. QED BY <1>2, <2>1, FailStep DEF Status, StoreInvalid
<1>3. CASE /\ c.kl <= NVME_KV_MAX_KEY_SIZE /\ c.hbs > MaxVal
           /\ rsp' = Rsp(c, "KV_INVALID_VAL_SIZE")
  <2>1. Map!Fails(c, "KV_INVALID_VAL_SIZE")
    BY <1>1, <1>3, Same DEF Map!Fails, StoreInvalid
  <2>. QED BY <1>3, <2>1, FailStep DEF Status, StoreInvalid
<1>. QED BY <1>2, <1>3 DEF StoreInvalid

(* kv_store on a key that is there: one value area changes, or none.       *)
LEMMA StoreExistingStep ==
  ASSUME Inv, NEW c \in Cmds, StoreExisting(c)
  PROVE  Inv' /\ (Map!Fail(c) \/ Map!Store(c))
<1>. DEFINE e == Min(Matches(c))
            k == KeyOfCmd(c)
<1>1. /\ c.opcode = "STORE" /\ c.kl <= NVME_KV_MAX_KEY_SIZE /\ c.hbs <= MaxVal
      /\ Matches(c) # {} /\ UNCHANGED <<entries_allocated, nuse, ednek>>
  BY DEF StoreExisting, StoreValid
<1>2. e \in Used /\ KeyOfPair(pairs[e]) = k /\ k \in DOMAIN AbsMap
  BY <1>1, Scan
<1>3. AbsMap[k] = pairs[e].val /\ pairs[e] \in kv_pair /\ pairs[e].used /\ pairs[e].val \in Value
  <2>1. AbsMap[k] = pairs[e].val
    BY <1>2, ArrayOf, Views, MapAt DEF SlotArray
  <2>2. pairs[e] \in kv_pair /\ pairs[e].used
    BY <1>2 DEF Used, Inv, TypeOK
  <2>. QED BY <2>1, <2>2 DEF kv_pair
<1>. HIDE DEF e
<1>4. CASE /\ "DONT_STORE_IF_KEY_EXISTS" \in c.ro
           /\ rsp' = Rsp(c, "KV_KEY_EXISTS") /\ UNCHANGED pairs
  <2>1. Map!Fails(c, "KV_KEY_EXISTS")
    BY <1>1, <1>2, <1>4, Same DEF Map!Fails
  <2>2. UNCHANGED ns
    BY <1>1, <1>4 DEF ns
  <2>. QED BY <1>4, <2>1, <2>2, FailStep DEF Status
<1>5. ASSUME "DONT_STORE_IF_KEY_EXISTS" \notin c.ro, NEW buf \in HostBufs,
             pairs' = [pairs EXCEPT ![e] = [pairs[e] EXCEPT !.val = Overlay(pairs[e].val, buf, c.hbs)]],
             rsp' = Rsp(c, "SUCCESS")
      PROVE  Inv' /\ Map!Store(c)
  <2>. DEFINE v == Overlay(pairs[e].val, buf, c.hbs)
              q == [pairs[e] EXCEPT !.val = v]
  <2>1. v \in Value
    BY <1>3, OverlayType, InputAssumption
  <2>. HIDE DEF v
  <2>2. q \in kv_pair /\ q.used /\ q.val = v /\ q.key = pairs[e].key /\ q.kl = pairs[e].kl
    BY <1>3, <2>1 DEF kv_pair
  <2>3. pairs' = SlotSet(pairs, e, q)
    BY <1>5 DEF SlotSet, v
  <2>. HIDE DEF q
  <2>4. UsedPair(q) /\ KeyOfPair(q) = k /\ KeyOfPair(q) = KeyOfPair(pairs[e])
    BY <1>2, <2>2 DEF UsedPair, KeyOfPair
  <2>5. rsp'.status \in Status
    BY <1>5, RspStatus DEF Status
  <2>6. Inv' /\ AbsMap' = With(AbsMap, k, v)
    BY <1>1, <1>2, <2>2, <2>3, <2>4, <2>5, Overwritten
  <2>7. rsp'.status = "SUCCESS"
    BY <1>5 DEF Rsp
  <2>8. AbsMap' = Map!Put(k, Map!Overlay(Map!Area(k), buf, c.hbs))
    BY <1>2, <1>3, <2>6, Same DEF Map!Put, Map!Area, With, v
  <2>. QED BY <1>1, <1>2, <1>5, <2>6, <2>7, <2>8, Same DEF Map!Store
<1>6. ASSUME "DONT_STORE_IF_KEY_EXISTS" \notin c.ro,
             rsp' = Rsp(c, "INVALID_FIELD"), UNCHANGED pairs
      PROVE  Inv' /\ Map!Store(c)
  <2>1. rsp'.status \in Status /\ rsp'.status = "INVALID_FIELD" /\ ednek' \in BOOLEAN
    BY <1>1, <1>6 DEF Rsp, Status, Inv, TypeOK
  <2>2. Inv' /\ AbsMap' = AbsMap
    BY <1>1, <1>6, <2>1, Untouched
  <2>3. AbsMap = Map!Put(k, Map!Area(k))
    BY <1>2 DEF Map!Put, Map!Area, AbsMap
  <2>. QED BY <1>1, <1>2, <1>6, <2>1, <2>2, <2>3, Same DEF Map!Store
<1>. QED BY <1>4, <1>5, <1>6 DEF StoreExisting, e

(* kv_store on a new key that is refused.                                  *)
LEMMA StoreRefusedStep ==
  ASSUME Inv, NEW c \in Cmds, StoreRefused(c)
  PROVE  Inv' /\ Map!Fail(c)
<1>1. /\ c.opcode = "STORE" /\ c.kl <= NVME_KV_MAX_KEY_SIZE /\ Matches(c) = {} /\ UNCHANGED ns
  BY DEF StoreRefused, StoreValid
<1>2. KeyOfCmd(c) \notin DOMAIN AbsMap
  BY <1>1, Scan
<1>3. CASE "DONT_STORE_IF_KEY_NOT_EXISTS" \in c.ro /\ rsp' = Rsp(c, "KV_KEY_NOT_EXISTS")
  <2>1. Map!Fails(c, "KV_KEY_NOT_EXISTS")
    BY <1>1, <1>2, <1>3, Same DEF Map!Fails
  <2>. QED BY <1>1, <1>3, <2>1, FailStep DEF Status
<1>4. CASE rsp' = Rsp(c, "CAP_EXCEEDED")
  <2>1. Map!Fails(c, "CAP_EXCEEDED")
    BY <1>1, <1>2, Same DEF Map!Fails
  <2>. QED BY <1>1, <1>4, <2>1, FailStep DEF Status
<1>. QED BY <1>3, <1>4 DEF StoreRefused

(* kv_store on a new key: one key is added to the map, with a zero area    *)
(* overlaid by the transfer, or as it is when the transfer fails.          *)
LEMMA StoreNewStep ==
  ASSUME Inv, NEW c \in Cmds, StoreNew(c)
  PROVE  Inv' /\ Map!Store(c)
<1>. DEFINE p == kv_key_store(Room[fst_empty], c)
            k == KeyOfCmd(c)
<1>1. /\ c.opcode = "STORE" /\ c.kl <= NVME_KV_MAX_KEY_SIZE /\ c.hbs <= MaxVal
      /\ Matches(c) = {} /\ "DONT_STORE_IF_KEY_NOT_EXISTS" \notin c.ro /\ ~Full
      /\ entries_allocated' = IF Empty # {} THEN entries_allocated ELSE 2 * entries_allocated
      /\ nuse' = nuse + SlotSize /\ UNCHANGED ednek
  BY DEF StoreNew, StoreValid
<1>2. k \notin DOMAIN AbsMap /\ \A i \in Used : KeyOfPair(pairs[i]) # k
  BY <1>1, Scan
<1>3. Cardinality(DOMAIN AbsMap) < MaxNumKeys
  BY <1>1, Counting, Sizes
<1>4. p \in kv_pair /\ p.used /\ p.val = ZeroVal /\ KeyOfPair(p) = k /\ ZeroVal \in Value
  <2>1. Room[fst_empty] = ZeroPair
    BY RoomMade
  <2>. QED BY <1>1, <2>1, KeyStored, ZeroPairType, InputAssumption
<1>. HIDE DEF p
<1>5. Map!Area(k) = ZeroVal
  BY <1>2, Same DEF Map!Area
<1>6. \A v : Map!Put(k, v) = With(AbsMap, k, v)
  BY DEF Map!Put, With
<1>9. ASSUME rsp' \in {Rsp(c, "SUCCESS"), Rsp(c, "INVALID_FIELD")},
             IF rsp'.status = "SUCCESS"
             THEN \E buf \in HostBufs : AbsMap' = Map!Put(k, Map!Overlay(Map!Area(k), buf, c.hbs))
             ELSE AbsMap' = Map!Put(k, Map!Area(k))
      PROVE  Map!Store(c)
  <2>1. c.opcode = "STORE" /\ c.kl <= NVME_KV_MAX_KEY_SIZE /\ c.hbs <= MaxVal
        /\ "DONT_STORE_IF_KEY_NOT_EXISTS" \notin c.ro /\ ednek' = ednek
    BY <1>1
  <2>2. Map!KeyOfCmd(c) = k /\ Map!NVME_KV_MAX_KEY_SIZE = NVME_KV_MAX_KEY_SIZE
        /\ Map!Rsp(c, "SUCCESS") = Rsp(c, "SUCCESS")
        /\ Map!Rsp(c, "INVALID_FIELD") = Rsp(c, "INVALID_FIELD")
        /\ Map!Cardinality(DOMAIN AbsMap) = Cardinality(DOMAIN AbsMap)
    BY Same
  <2>. QED BY <1>2, <1>3, <1>9, <2>1, <2>2 DEF Map!Store
<1>7. ASSUME NEW buf \in HostBufs,
             pairs' = [Room EXCEPT ![fst_empty] = [p EXCEPT !.val = Overlay(p.val, buf, c.hbs)]],
             rsp' = Rsp(c, "SUCCESS")
      PROVE  Inv' /\ Map!Store(c)
  <2>. DEFINE v == Overlay(ZeroVal, buf, c.hbs)
              q == [p EXCEPT !.val = v]
  <2>1. v \in Value
    BY <1>4, OverlayType, InputAssumption
  <2>2. pairs' = SlotSet(Room, fst_empty, q)
    BY <1>4, <1>7 DEF SlotSet
  <2>. HIDE DEF v
  <2>3. q \in kv_pair /\ q.used /\ q.val = v /\ q.key = p.key /\ q.kl = p.kl
    BY <1>4, <2>1 DEF kv_pair
  <2>. HIDE DEF q
  <2>4. UsedPair(q) /\ KeyOfPair(q) = k
    BY <1>4, <2>3 DEF UsedPair, KeyOfPair
  <2>5. rsp'.status \in Status /\ rsp'.status = "SUCCESS"
    BY <1>7 DEF Rsp, Status
  <2>6. \A i \in Used : KeyOfPair(pairs[i]) # KeyOfPair(q)
    BY <1>2, <2>4
  <2>7. Inv' /\ AbsMap' = With(AbsMap, k, v)
    BY <1>1, <2>2, <2>3, <2>4, <2>5, <2>6, Entered
  <2>8. AbsMap' = Map!Put(k, Map!Overlay(Map!Area(k), buf, c.hbs))
    BY <1>5, <1>6, <2>7, Same DEF v
  <2>. QED BY <1>7, <1>9, <2>5, <2>7, <2>8, Zenon
<1>8. ASSUME pairs' = [Room EXCEPT ![fst_empty] = p], rsp' = Rsp(c, "INVALID_FIELD")
      PROVE  Inv' /\ Map!Store(c)
  <2>1. pairs' = SlotSet(Room, fst_empty, p) /\ UsedPair(p)
    BY <1>4, <1>8 DEF SlotSet, UsedPair
  <2>2. rsp'.status \in Status /\ rsp'.status = "INVALID_FIELD"
    BY <1>8 DEF Rsp, Status
  <2>3. \A i \in Used : KeyOfPair(pairs[i]) # KeyOfPair(p)
    BY <1>2, <1>4
  <2>4. Inv' /\ AbsMap' = With(AbsMap, k, ZeroVal)
    BY <1>1, <1>4, <2>1, <2>2, <2>3, Entered
  <2>5. AbsMap' = Map!Put(k, Map!Area(k))
    BY <1>5, <1>6, <2>4
  <2>6. rsp'.status # "SUCCESS"
    BY <2>2
  <2>. QED BY <1>8, <1>9, <2>4, <2>5, <2>6, Zenon
<1>. QED BY <1>7, <1>8 DEF StoreNew, p

(* kv_retrieve answers with the area the map holds.                        *)
LEMMA RetrieveStep ==
  ASSUME Inv, NEW c \in Cmds, kv_retrieve(c)
  PROVE  Inv' /\ (Map!Fail(c) \/ Map!Retrieve(c))
<1>. DEFINE len == AtMost(c.hbs, MaxVal)
            e == Min(Matches(c))
            k == KeyOfCmd(c)
<1>1. c.opcode = "RETRIEVE" /\ UNCHANGED ns
  BY DEF kv_retrieve
<1>2. c.kl \in Nat /\ NVME_KV_MAX_KEY_SIZE \in Nat
  BY InputAssumption, Sizes DEF NvmeKVCmd
<1>3. CASE c.kl > NVME_KV_MAX_KEY_SIZE /\ rsp' = Rsp(c, "INVALID_FIELD")
  <2>1. Map!Fails(c, "INVALID_FIELD")
    BY <1>1, <1>2, <1>3, Same DEF Map!Fails
  <2>. QED BY <1>1, <1>3, <2>1, FailStep DEF Status
<1>4. ASSUME c.kl <= NVME_KV_MAX_KEY_SIZE, Matches(c) # {}, rsp' = RspVal(c, pairs[e].val, len)
      PROVE  Inv' /\ Map!Retrieve(c)
  <2>1. e \in Used /\ KeyOfPair(pairs[e]) = k /\ k \in DOMAIN AbsMap
    BY <1>4, Scan
  <2>2. AbsMap[k] = pairs[e].val
    BY <2>1, ArrayOf, Views, MapAt DEF SlotArray
  <2>3. rsp'.status \in Status
    BY <1>4, RspStatus
  <2>4. UNCHANGED <<pairs, entries_allocated, nuse>> /\ ednek' = ednek /\ ednek' \in BOOLEAN
    BY <1>1 DEF ns, Inv, TypeOK
  <2>5. Inv' /\ AbsMap' = AbsMap
    BY <2>3, <2>4, Untouched
  <2>. QED BY <1>1, <1>4, <2>1, <2>2, <2>4, <2>5, Same DEF Map!Retrieve, AtMost
<1>5. CASE c.kl <= NVME_KV_MAX_KEY_SIZE /\ Matches(c) # {} /\ rsp' = Rsp(c, "INVALID_FIELD")
  <2>1. KeyOfCmd(c) \in DOMAIN AbsMap
    BY <1>5, Scan
  <2>2. Map!Fails(c, "INVALID_FIELD")
    BY <1>1, <1>5, <2>1, Same DEF Map!Fails
  <2>. QED BY <1>1, <1>5, <2>2, FailStep DEF Status
<1>6. CASE c.kl <= NVME_KV_MAX_KEY_SIZE /\ Matches(c) = {} /\ rsp' = Rsp(c, "KV_KEY_NOT_EXISTS")
  <2>1. KeyOfCmd(c) \notin DOMAIN AbsMap
    BY <1>6, Scan
  <2>2. Map!Fails(c, "KV_KEY_NOT_EXISTS")
    BY <1>1, <1>6, <2>1, Same DEF Map!Fails
  <2>. QED BY <1>1, <1>6, <2>2, FailStep DEF Status
<1>. QED BY <1>3, <1>4, <1>5, <1>6 DEF kv_retrieve

(* kv_delete takes exactly the named key out of the map.                   *)
LEMMA DeleteStep ==
  ASSUME Inv, NEW c \in Cmds, kv_delete(c)
  PROVE  Inv' /\ (Map!Fail(c) \/ Map!Delete(c))
<1>. DEFINE e == Min(Matches(c))
            k == KeyOfCmd(c)
<1>1. c.opcode = "DELETE" /\ c.kl \in Nat /\ NVME_KV_MAX_KEY_SIZE \in Nat
  BY InputAssumption, Sizes DEF NvmeKVCmd, kv_delete
<1>2. CASE c.kl > NVME_KV_MAX_KEY_SIZE /\ rsp' = Rsp(c, "INVALID_FIELD") /\ UNCHANGED ns
  <2>1. Map!Fails(c, "INVALID_FIELD")
    BY <1>1, <1>2, Same DEF Map!Fails
  <2>. QED BY <1>2, <2>1, FailStep DEF Status
<1>3. ASSUME c.kl <= NVME_KV_MAX_KEY_SIZE, Matches(c) # {},
             pairs' = [pairs EXCEPT ![e] = ZeroPair], nuse' = nuse - SlotSize,
             rsp' = Rsp(c, "SUCCESS"), UNCHANGED <<entries_allocated, ednek>>
      PROVE  Inv' /\ Map!Delete(c)
  <2>1. e \in Used /\ KeyOfPair(pairs[e]) = k /\ k \in DOMAIN AbsMap
    BY <1>3, Scan
  <2>2. pairs' = SlotSet(pairs, e, ZeroPair) /\ rsp'.status \in Status
    BY <1>3 DEF SlotSet, Rsp, Status
  <2>. HIDE DEF e
  <2>3. Inv' /\ AbsMap' = Without(AbsMap, k)
    BY <1>3, <2>1, <2>2, Removed
  <2>. QED BY <1>1, <1>3, <2>1, <2>3, Same DEF Map!Delete, Without
<1>4. ASSUME c.kl <= NVME_KV_MAX_KEY_SIZE, Matches(c) = {}, UNCHANGED ns,
             rsp' = Rsp(c, IF ednek THEN "KV_KEY_NOT_EXISTS" ELSE "SUCCESS")
      PROVE  Inv' /\ (Map!Fail(c) \/ Map!Delete(c))
  <2>1. k \notin DOMAIN AbsMap
    BY <1>4, Scan
  <2>2. CASE ednek
    <3>1. Map!Fails(c, "KV_KEY_NOT_EXISTS")
      BY <1>1, <1>4, <2>1, <2>2, Same DEF Map!Fails
    <3>. QED BY <1>4, <2>2, <3>1, FailStep DEF Status
  <2>3. CASE ~ednek
    <3>1. rsp' = Rsp(c, "SUCCESS") /\ rsp'.status \in Status
      BY <1>4, <2>3 DEF Rsp, Status
    <3>2. UNCHANGED <<pairs, entries_allocated, nuse>> /\ ednek' = ednek /\ ednek' \in BOOLEAN
      BY <1>4 DEF ns, Inv, TypeOK
    <3>3. Inv' /\ AbsMap' = AbsMap
      BY <3>1, <3>2, Untouched
    <3>4. AbsMap = [x \in DOMAIN AbsMap \ {k} |-> AbsMap[x]]
      BY <2>1 DEF AbsMap
    <3>. QED BY <1>1, <1>4, <2>3, <3>1, <3>2, <3>3, <3>4, Same DEF Map!Delete
  <2>. QED BY <2>2, <2>3
<1>. QED BY <1>2, <1>3, <1>4 DEF kv_delete

(* kv_exist tells whether the map has the key.                             *)
LEMMA ExistStep ==
  ASSUME Inv, NEW c \in Cmds, kv_exist(c)
  PROVE  Inv' /\ (Map!Fail(c) \/ Map!Exist(c))
<1>1. /\ c.opcode = "EXIST" /\ UNCHANGED ns
      /\ c.kl \in Nat /\ NVME_KV_MAX_KEY_SIZE \in Nat
  BY InputAssumption, Sizes DEF NvmeKVCmd, kv_exist
<1>2. CASE c.kl > NVME_KV_MAX_KEY_SIZE /\ rsp' = Rsp(c, "INVALID_FIELD")
  <2>1. Map!Fails(c, "INVALID_FIELD")
    BY <1>1, <1>2, Same DEF Map!Fails
  <2>. QED BY <1>1, <1>2, <2>1, FailStep DEF Status
<1>3. CASE c.kl <= NVME_KV_MAX_KEY_SIZE /\ Matches(c) # {} /\ rsp' = Rsp(c, "SUCCESS")
  <2>1. KeyOfCmd(c) \in DOMAIN AbsMap
    BY <1>3, Scan
  <2>2. UNCHANGED <<pairs, entries_allocated, nuse>> /\ ednek' = ednek /\ ednek' \in BOOLEAN
    BY <1>1 DEF ns, Inv, TypeOK
  <2>3. rsp'.status \in Status
    BY <1>3 DEF Rsp, Status
  <2>4. Inv' /\ AbsMap' = AbsMap
    BY <2>2, <2>3, Untouched
  <2>. QED BY <1>1, <1>3, <2>1, <2>2, <2>4, Same DEF Map!Exist
<1>4. CASE c.kl <= NVME_KV_MAX_KEY_SIZE /\ Matches(c) = {} /\ rsp' = Rsp(c, "KV_KEY_NOT_EXISTS")
  <2>1. KeyOfCmd(c) \notin DOMAIN AbsMap
    BY <1>4, Scan
  <2>2. Map!Fails(c, "KV_KEY_NOT_EXISTS")
    BY <1>1, <1>4, <2>1, Same DEF Map!Fails
  <2>. QED BY <1>1, <1>4, <2>2, FailStep DEF Status
<1>. QED BY <1>2, <1>3, <1>4 DEF kv_exist

(* kv_list names keys of the map only.                                     *)
LEMMA ListStep ==
  ASSUME Inv, NEW c \in Cmds, kv_list(c)
  PROVE  Inv' /\ (Map!Fail(c) \/ Map!List(c))
<1>. DEFINE page == Listed(c)
            keys == {KeyOfPair(pairs[i]) : i \in page}
            len  == IF page = {} THEN rds_hdr ELSE rds_size(c, Max(page))
            nrk  == Cardinality(page) % NrkMod
<1>1. /\ c.opcode = "LIST" /\ UNCHANGED ns
      /\ c.kl \in Nat /\ NVME_KV_MAX_KEY_SIZE \in Nat
  BY InputAssumption, Sizes DEF NvmeKVCmd, kv_list
<1>2. CASE rsp' = Rsp(c, "INVALID_FIELD")
  <2>1. Map!Fails(c, "INVALID_FIELD")
    BY <1>1, Same DEF Map!Fails
  <2>. QED BY <1>1, <1>2, <2>1, FailStep DEF Status
<1>3. CASE c.kl <= NVME_KV_MAX_KEY_SIZE /\ rsp' = Rsp(c, "CAP_EXCEEDED")
  <2>1. Map!Fails(c, "CAP_EXCEEDED")
    BY <1>1, <1>3, Same DEF Map!Fails
  <2>. QED BY <1>1, <1>3, <2>1, FailStep DEF Status
<1>4. ASSUME c.kl <= NVME_KV_MAX_KEY_SIZE, rsp' = RspKeys(c, len, nrk, keys)
      PROVE  Inv' /\ Map!List(c)
  <2>1. keys \subseteq DOMAIN AbsMap
    BY DEF AbsMap, StoredKeys, Listed
  <2>. HIDE DEF keys, len, nrk
  <2>2. rsp'.len = len /\ rsp'.nrk = nrk /\ rsp'.keys = keys /\ rsp'.status \in Status
    BY <1>4 DEF RspKeys, Rsp, Status
  <2>3. UNCHANGED <<pairs, entries_allocated, nuse>> /\ ednek' = ednek /\ ednek' \in BOOLEAN
    BY <1>1 DEF ns, Inv, TypeOK
  <2>4. Inv' /\ AbsMap' = AbsMap
    BY <2>2, <2>3, Untouched
  <2>. QED BY <1>1, <1>4, <2>1, <2>2, <2>3, <2>4, Same DEF Map!List
<1>. QED BY <1>2, <1>3, <1>4 DEF kv_list

(* Each action of the map answers its command.                             *)
LEMMA AnsweredStep ==
  ASSUME NEW c \in Cmds,
         \/ Map!Fail(c) \/ Map!Store(c) \/ Map!Retrieve(c)
         \/ Map!Delete(c) \/ Map!Exist(c) \/ Map!List(c)
  PROVE  Map!Next
<1>1. Map!Answers(c)
  <2>1. CASE Map!Fail(c)
    BY <2>1, Same DEF Map!Fail, Map!Answers, Rsp
  <2>2. CASE Map!Store(c)
    BY <2>2, Same DEF Map!Store, Map!Answers, Rsp
  <2>3. CASE Map!Retrieve(c)
    <3>1. PICK v, n : rsp' = RspVal(c, v, n)
      BY <2>3, Same DEF Map!Retrieve
    <3>. QED BY <3>1, Same DEF Map!Answers, RspVal, Rsp
  <2>4. CASE Map!Delete(c)
    BY <2>4, Same DEF Map!Delete, Map!Answers, Rsp
  <2>5. CASE Map!Exist(c)
    BY <2>5, Same DEF Map!Exist, Map!Answers, Rsp
  <2>6. CASE Map!List(c)
    <3>1. PICK n, nrk, keys : rsp' = RspKeys(c, n, nrk, keys)
      BY <2>6, Same DEF Map!List
    <3>. QED BY <3>1, Same DEF Map!Answers, RspKeys, Rsp
  <2>. QED BY <2>1, <2>2, <2>3, <2>4, <2>5, <2>6
<1>. QED BY <1>1 DEF Map!Next

(* Every step keeps the invariant and is a step of the map.                *)
LEMMA NextStep ==
  ASSUME Inv, Next
  PROVE  Inv' /\ Map!Next
<1>1. ASSUME NEW c \in Cmds, nvme_io_kv(c)
      PROVE  Inv' /\ Map!Next
  <2>1. CASE StoreInvalid(c)
    BY <2>1, StoreInvalidStep, AnsweredStep
  <2>2. CASE StoreExisting(c)
    BY <2>2, StoreExistingStep, AnsweredStep
  <2>3. CASE StoreRefused(c)
    BY <2>3, StoreRefusedStep, AnsweredStep
  <2>4. CASE StoreNew(c)
    BY <2>4, StoreNewStep, AnsweredStep
  <2>5. CASE kv_retrieve(c)
    BY <2>5, RetrieveStep, AnsweredStep
  <2>6. CASE kv_delete(c)
    BY <2>6, DeleteStep, AnsweredStep
  <2>7. CASE kv_exist(c)
    BY <2>7, ExistStep, AnsweredStep
  <2>8. CASE kv_list(c)
    BY <2>8, ListStep, AnsweredStep
  <2>9. CASE UnknownOpcode(c)
    <3>1. Map!Fails(c, "INVALID_OPCODE")
      BY <2>9 DEF UnknownOpcode, Map!Fails
    <3>2. Inv' /\ Map!Fail(c)
      BY <2>9, <3>1, FailStep DEF UnknownOpcode, Status
    <3>. QED BY <3>2, AnsweredStep
  <2>. QED BY <1>1, <2>1, <2>2, <2>3, <2>4, <2>5, <2>6, <2>7, <2>8, <2>9
           DEF nvme_io_kv, kv_store
<1>2. ASSUME SetEdnek
      PROVE  Inv' /\ Map!Next
  <2>1. rsp'.status \in Status /\ rsp' = rsp
        /\ UNCHANGED <<pairs, entries_allocated, nuse>> /\ ednek' \in BOOLEAN
    BY <1>2 DEF SetEdnek, Inv, TypeOK
  <2>2. Inv' /\ AbsMap' = AbsMap
    BY <2>1, Untouched
  <2>. QED BY <2>1, <2>2 DEF Map!Next, Map!SetEdnek
<1>. QED BY <1>1, <1>2 DEF Next

-----------------------------------------------------------------------------
(* The invariant holds of every run of the namespace.                      *)
THEOREM Invariance == Spec => []Inv
<1>1. Init => Inv
  BY InitInv
<1>2. Inv /\ [Next]_vars => Inv'
  <2>. SUFFICES ASSUME Inv, [Next]_vars PROVE Inv'
    OBVIOUS
  <2>1. CASE Next
    BY <2>1, NextStep
  <2>2. CASE UNCHANGED vars
    <3>1. /\ UNCHANGED <<pairs, entries_allocated, nuse>> /\ ednek' \in BOOLEAN
          /\ rsp'.status \in Status
      BY <2>2 DEF vars, Inv, TypeOK
    <3>. QED BY <3>1, Untouched
  <2>. QED BY <2>1, <2>2
<1>. QED BY <1>1, <1>2, PTL DEF Spec

(* Type correctness: the array is as long as entries_allocated says, after *)
(* any number of growths, and every slot is well formed.                   *)
THEOREM TypeCorrect == Spec => []TypeOK
<1>1. Inv => TypeOK
  BY DEF Inv
<1>. QED BY <1>1, Invariance, PTL

(* kv_store never enters a key twice, whatever holes deletions have left   *)
(* in front of it and however the host pads the key words.                 *)
THEOREM KeysAreUnique == Spec => []UniqueKeys
<1>1. Inv => UniqueKeys
  BY DEF Inv
<1>. QED BY <1>1, Invariance, PTL

(* nuse is the size of the stored keys and never exceeds nsze, also after  *)
(* inserts whose transfer failed.                                          *)
THEOREM NuseIsExact == Spec => []NuseExact
<1>1. Inv => NuseExact
  BY DEF Inv
<1>. QED BY <1>1, Invariance, PTL

(* A free slot holds nothing of the key that was deleted from it.          *)
THEOREM FreeSlotsAreZeroed == Spec => []FreeSlotsZeroed
<1>1. Inv => FreeSlotsZeroed
  BY DEF Inv
<1>. QED BY <1>1, Invariance, PTL

(* The slot array implements the map of KvMap.                             *)
THEOREM ImplementsMap == Spec => MapSpec
<1>1. Init => Map!Init
  <2>. SUFFICES ASSUME Init PROVE Map!Init
    OBVIOUS
  <2>1. Used = {}
    BY DEF Init, Used, ZeroPair
  <2>2. AbsMap = <<>>
    BY <2>1 DEF AbsMap, StoredKeys
  <2>. QED BY <2>2 DEF Init, Map!Init, NoRsp, Map!NoRsp
<1>2. Inv /\ [Next]_vars => [Map!Next]_(Map!vars)
  <2>. SUFFICES ASSUME Inv, [Next]_vars PROVE [Map!Next]_(Map!vars)
    OBVIOUS
  <2>1. CASE Next
    BY <2>1, NextStep
  <2>2. CASE UNCHANGED vars
    BY <2>2, Views DEF vars, Map!vars
  <2>. QED BY <2>1, <2>2
<1>. QED BY <1>1, <1>2, Invariance, PTL DEF Spec, MapSpec, Map!Spec
-----------------------------------------------------------------------------
(* The size of a page is a sum over the slots it lists, taken one slot at  *)
(* a time.  A sum over a finite set S is a function g on its subsets with  *)
(* the equation below.  Induction on the size of a subset shows that such  *)
(* a function exists and bounds what it adds up.                           *)
Pick(s) == CHOOSE x \in s : TRUE
SumStep(P, g, s) == IF s = {} THEN 0 ELSE kds(P[Pick(s)].kl) + g[s \ {Pick(s)}]
UpTo(S, n) == {s \in SUBSET S : Cardinality(s) <= n}
SizeOf(P, S) == MapThenSumSet(LAMBDA j : kds(P[j].kl), S)
Sums(P, S, n, g) ==
  /\ DOMAIN g = UpTo(S, n)
  /\ \A s \in UpTo(S, n) : g[s] = SumStep(P, g, s)

(* A set loses one member when Pick takes one out of it.                   *)
LEMMA PickOut ==
  ASSUME NEW S, IsFiniteSet(S), NEW s \in SUBSET S, s # {}
  PROVE  /\ IsFiniteSet(s) /\ Cardinality(s) \in Nat \ {0}
         /\ Pick(s) \in S /\ s \ {Pick(s)} \in SUBSET S
         /\ Cardinality(s \ {Pick(s)}) = Cardinality(s) - 1
<1>1. Pick(s) \in s
  BY DEF Pick
<1>2. IsFiniteSet(s)
  BY FS_Subset
<1>3. Cardinality(s) \in Nat /\ Cardinality(s) # 0
  BY <1>2, FS_CardinalityType, FS_EmptySet
<1>4. Cardinality(s \ {Pick(s)}) = Cardinality(s) - 1
  BY <1>1, <1>2, FS_RemoveElement
<1>. QED BY <1>1, <1>2, <1>3, <1>4

(* There is a sum of every size.                                           *)
LEMMA SumsExist ==
  ASSUME NEW P, NEW S, IsFiniteSet(S), NEW N \in Nat
  PROVE  \E g : Sums(P, S, N, g)
<1>. DEFINE T == {n \in Nat : ~ \E g : Sums(P, S, n, g)}
<1>. SUFFICES ASSUME T # {} PROVE FALSE
  OBVIOUS
<1>. DEFINE n == Min(T)
<1>1. n \in Nat /\ ~ \E g : Sums(P, S, n, g)
  <2>. HIDE DEF T
  <2>1. n \in T
    BY MinInSet DEF T
  <2>. QED BY <2>1 DEF T
<1>2. \A m \in T : n <= m
  <2>1. T \subseteq Nat
    OBVIOUS
  <2>. HIDE DEF T
  <2>. QED BY <2>1, MinInSet
<1>. HIDE DEF n
<1>3. CASE n = 0
  <2>. DEFINE g == [s \in UpTo(S, 0) |-> 0]
  <2>1. ASSUME NEW s \in UpTo(S, 0) PROVE s = {}
    <3>1. s \in SUBSET S /\ Cardinality(s) <= 0
      BY DEF UpTo
    <3>2. ASSUME s # {} PROVE Cardinality(s) \in Nat \ {0}
      BY <3>1, <3>2, PickOut
    <3>. QED BY <3>1, <3>2
  <2>2. Sums(P, S, 0, g)
    BY <2>1 DEF Sums, SumStep
  <2>. QED BY <1>1, <1>3, <2>2
<1>4. CASE n # 0
  <2>1. n - 1 \in Nat /\ n - 1 \notin T
    <3>1. n - 1 \in Nat /\ ~(n <= n - 1)
      BY <1>1, <1>4
    <3>. HIDE DEF T
    <3>. QED BY <1>2, <3>1
  <2>2. PICK g : Sums(P, S, n - 1, g)
    BY <2>1
  <2>. DEFINE h == [s \in UpTo(S, n) |-> SumStep(P, g, s)]
  <2>3. ASSUME NEW s \in UpTo(S, n) PROVE h[s] = SumStep(P, h, s)
    <3>1. CASE s = {}
      BY <3>1 DEF SumStep
    <3>2. CASE s # {}
      <4>. DEFINE t == s \ {Pick(s)}
      <4>1. s \in SUBSET S /\ Cardinality(s) <= n
        BY DEF UpTo
      <4>2. t \in SUBSET S /\ Cardinality(s) \in Nat /\ Cardinality(t) = Cardinality(s) - 1
        BY <3>2, <4>1, PickOut
      <4>3. t \in UpTo(S, n) /\ t \in UpTo(S, n - 1)
        <5>. HIDE DEF t
        <5>1. Cardinality(t) <= n - 1 /\ Cardinality(t) <= n
          BY <4>1, <4>2, <1>1
        <5>. QED BY <5>1, <4>2 DEF UpTo
      <4>4. g[t] = h[t]
        <5>. HIDE DEF t
        <5>. QED BY <4>3, <2>2 DEF Sums
      <4>. QED BY <3>2, <4>4 DEF SumStep
    <3>. QED BY <3>1, <3>2
  <2>4. Sums(P, S, n, h)
    <3>1. DOMAIN h = UpTo(S, n)
      OBVIOUS
    <3>. HIDE DEF h
    <3>. QED BY <2>3, <3>1 DEF Sums
  <2>. QED BY <1>1, <2>4
<1>. QED BY <1>3, <1>4

(* A sum of positive sizes is at least the number of its terms.            *)
LEMMA SumsBound ==
  ASSUME NEW P, NEW S, IsFiniteSet(S), NEW N \in Nat, NEW g, Sums(P, S, N, g),
         \A j \in S : kds(P[j].kl) \in Nat \ {0}
  PROVE  \A s \in UpTo(S, N) : g[s] \in Nat /\ Cardinality(s) <= g[s]
<1>. DEFINE Bad == {s \in UpTo(S, N) : ~(g[s] \in Nat /\ Cardinality(s) <= g[s])}
            T == {Cardinality(s) : s \in Bad}
<1>. SUFFICES ASSUME Bad # {} PROVE FALSE
  OBVIOUS
<1>1. T \subseteq Nat /\ T # {}
  <2>1. ASSUME NEW s \in UpTo(S, N) PROVE Cardinality(s) \in Nat
    BY FS_Subset, FS_CardinalityType DEF UpTo
  <2>. QED BY <2>1
<1>2. Min(T) \in T /\ \A m \in T : Min(T) <= m
  <2>. HIDE DEF T
  <2>. QED BY <1>1, MinInSet
<1>3. PICK s \in Bad : Cardinality(s) = Min(T)
  BY <1>2
<1>4. \A r \in Bad : Cardinality(s) <= Cardinality(r)
  BY <1>2, <1>3
<1>. HIDE DEF T
<1>5. s \in SUBSET S /\ Cardinality(s) <= N /\ g[s] = SumStep(P, g, s)
  BY DEF UpTo, Sums
<1>6. CASE s = {}
  BY <1>5, <1>6, FS_EmptySet DEF SumStep
<1>7. CASE s # {}
  <2>. DEFINE t == s \ {Pick(s)}
              k == kds(P[Pick(s)].kl)
  <2>1. /\ t \in SUBSET S /\ Cardinality(s) \in Nat /\ Cardinality(t) = Cardinality(s) - 1
        /\ Pick(s) \in S
    BY <1>5, <1>7, PickOut
  <2>2. k \in Nat \ {0} /\ g[s] = k + g[t]
    BY <2>1, <1>5, <1>7 DEF SumStep
  <2>. HIDE DEF t, k
  <2>3. Cardinality(t) <= N /\ ~(Cardinality(s) <= Cardinality(t))
    BY <2>1, <1>5
  <2>4. t \in UpTo(S, N)
    BY <2>1, <2>3 DEF UpTo
  <2>5. t \notin Bad
    <3>. HIDE DEF Bad
    <3>. QED BY <2>3, <1>4
  <2>6. g[t] \in Nat /\ Cardinality(t) <= g[t]
    BY <2>4, <2>5
  <2>7. g[s] \in Nat /\ Cardinality(s) <= g[s]
    BY <2>1, <2>2, <2>6
  <2>. QED BY <2>7
<1>. QED BY <1>6, <1>7

(* The sum kv_list keeps in rds_size is at least the number of keys.       *)
LEMMA SizeBoundsCount ==
  ASSUME NEW P, NEW S, IsFiniteSet(S), \A j \in S : kds(P[j].kl) \in Nat \ {0}
  PROVE  SizeOf(P, S) \in Nat /\ Cardinality(S) <= SizeOf(P, S)
<1>. DEFINE Eq(g) == g = [s \in SUBSET S |->
                            IF s = {} THEN 0
                            ELSE kds(P[CHOOSE x \in s : TRUE].kl)
                                 + g[s \ {CHOOSE x \in s : TRUE}]]
            sum == CHOOSE g : Eq(g)
            N == Cardinality(S)
<1>1. SizeOf(P, S) = sum[S]
  BY DEF SizeOf, MapThenSumSet, MapThenFoldSet
<1>2. N \in Nat
  BY FS_CardinalityType
<1>3. UpTo(S, N) = SUBSET S
  BY FS_Subset DEF UpTo
<1>. HIDE DEF N
<1>4. ASSUME NEW g PROVE Sums(P, S, N, g) /\ g = [s \in SUBSET S |-> g[s]] => Eq(g)
  BY <1>3 DEF Sums, SumStep, Pick
<1>5. ASSUME NEW g, Eq(g) PROVE Sums(P, S, N, g)
  BY <1>3, <1>5 DEF Sums, SumStep, Pick
<1>6. \E g : Eq(g)
  <2>1. PICK g : Sums(P, S, N, g)
    BY <1>2, SumsExist
  <2>. DEFINE h == [s \in SUBSET S |-> g[s]]
  <2>2. h = [s \in SUBSET S |-> h[s]]
    OBVIOUS
  <2>3. Sums(P, S, N, h)
    <3>1. DOMAIN h = UpTo(S, N)
      BY <1>3
    <3>2. ASSUME NEW s \in UpTo(S, N) PROVE h[s] = SumStep(P, h, s)
      <4>1. s \in SUBSET S /\ h[s] = g[s] /\ h[s \ {Pick(s)}] = g[s \ {Pick(s)}]
        BY <1>3
      <4>2. g[s] = SumStep(P, g, s)
        BY <2>1 DEF Sums
      <4>. HIDE DEF h
      <4>. QED BY <4>1, <4>2 DEF SumStep
    <3>. HIDE DEF h
    <3>. QED BY <3>1, <3>2 DEF Sums
  <2>. HIDE DEF h
  <2>4. Eq(h)
    <3>. HIDE DEF Eq
    <3>. QED BY <2>2, <2>3, <1>4
  <2>. HIDE DEF Eq
  <2>. QED BY <2>4
<1>7. Eq(sum)
  <2>. HIDE DEF Eq
  <2>. QED BY <1>6
<1>8. Sums(P, S, N, sum)
  <2>. HIDE DEF Eq, sum
  <2>. QED BY <1>5, <1>7
<1>. HIDE DEF sum
<1>9. S \in UpTo(S, N)
  BY <1>3
<1>10. sum[S] \in Nat /\ Cardinality(S) <= sum[S]
  BY <1>2, <1>8, <1>9, SumsBound
<1>. QED BY <1>1, <1>10

-----------------------------------------------------------------------------
(* What the answers of the handlers keep, besides the slot array.          *)
Answer == ListCountsKeys /\ TransferFitsBuffer

(* The last slot of a page is a slot of the page.                          *)
LEMMA MaxInSet ==
  ASSUME NEW S, S \subseteq Nat, S # {}, NEW n \in Nat, \A x \in S : x <= n
  PROVE  Max(S) \in S /\ \A x \in S : x <= Max(S)
<1>. DEFINE T == {n - x : x \in S}
<1>1. T \subseteq Nat /\ T # {}
  <2>1. ASSUME NEW x \in S PROVE n - x \in Nat
    OBVIOUS
  <2>2. PICK x : x \in S
    OBVIOUS
  <2>3. n - x \in T
    BY <2>2
  <2>. QED BY <2>1, <2>3
<1>2. Min(T) \in T /\ \A y \in T : Min(T) <= y
  <2>. HIDE DEF T
  <2>. QED BY <1>1, MinInSet
<1>3. PICK x \in S : n - x = Min(T)
  BY <1>2
<1>4. ASSUME NEW y \in S PROVE x >= y
  <2>1. n - x <= n - y
    BY <1>2, <1>3
  <2>. QED BY <2>1
<1>5. Max(S) \in S /\ \A y \in S : Max(S) >= y
  BY <1>4 DEF Max
<1>. QED BY <1>5

(* The slots in use are finitely many naturals, and their keys have a      *)
(* length.                                                                 *)
LEMMA UsedSlots ==
  ASSUME Inv
  PROVE  /\ Used \subseteq Nat /\ IsFiniteSet(Used)
         /\ \A i \in Used : i <= entries_allocated /\ kds(pairs[i].kl) \in Nat \ {0}
         /\ entries_allocated \in Nat
<1>1. /\ entries_allocated \in Nat /\ pairs \in [0 .. entries_allocated - 1 -> kv_pair]
      /\ Used \subseteq 0 .. entries_allocated - 1
  BY DEF Inv, TypeOK, Used
<1>2. IsFiniteSet(Used)
  <2>1. IsFiniteSet(0 .. entries_allocated - 1)
    BY <1>1, FS_Interval
  <2>. QED BY <1>1, <2>1, FS_Subset
<1>3. ASSUME NEW i \in Used PROVE kds(pairs[i].kl) \in Nat \ {0}
  <2>1. pairs[i].kl \in Nat
    BY <1>1, Sizes DEF kv_pair
  <2>. HIDE <1>1
  <2>2. (2 + pairs[i].kl) % 4 \in Nat
    BY <2>1
  <2>. QED BY <2>1, <2>2 DEF kds, kls_size
<1>. QED BY <1>1, <1>2, <1>3

(* What kv_list sends: the header, or no more than the buffer holds, and   *)
(* when it could be sent, a count that fits its 16 bits and is the number of keys. *)
LEMMA PageSent ==
  ASSUME Inv, NEW c \in Cmds
  PROVE  LET page == Listed(c)
             len  == IF page = {} THEN rds_hdr ELSE rds_size(c, Max(page))
         IN  /\ len = rds_hdr \/ len <= c.hbs
             /\ TRUE \in DmaOutcome(len) =>
                  Cardinality(page) % NrkMod = Cardinality({KeyOfPair(pairs[i]) : i \in page})
<1>. DEFINE page == Listed(c)
            len  == IF page = {} THEN rds_hdr ELSE rds_size(c, Max(page))
            keys == {KeyOfPair(pairs[i]) : i \in page}
<1>1. /\ page \subseteq Used /\ page \subseteq Nat /\ IsFiniteSet(page)
      /\ \A i \in page : rds_size(c, i) <= c.hbs /\ first_entry(c) <= i
  <2>1. page \subseteq Used
    BY DEF Listed
  <2>2. \A i \in page : rds_size(c, i) <= c.hbs /\ first_entry(c) <= i
    BY DEF Listed
  <2>. HIDE DEF page
  <2>. QED BY <2>1, <2>2, UsedSlots, FS_Subset
<1>2. page # {} => Max(page) \in page /\ \A i \in page : i <= Max(page)
  <2>. HIDE DEF page
  <2>. QED BY <1>1, UsedSlots, MaxInSet
<1>3. len = rds_hdr \/ len <= c.hbs
  <2>. c.hbs \in Nat
    BY InputAssumption DEF NvmeKVCmd
  <2>1. CASE page = {}
    BY <2>1
  <2>2. CASE page # {}
    <3>. HIDE DEF page
    <3>. QED BY <2>2, <1>1, <1>2
  <2>. QED BY <2>1, <2>2
<1>4. Cardinality(keys) = Cardinality(page)
  <2>. HIDE DEF page
  <2>. DEFINE f == [i \in page |-> KeyOfPair(pairs[i])]
  <2>1. f \in Surjection(page, keys)
    BY DEF Surjection
  <2>2. \A i, j \in page : f[i] = f[j] => i = j
    BY <1>1 DEF Inv, UniqueKeys
  <2>3. f \in Injection(page, keys)
    BY <2>1, <2>2 DEF Surjection, Injection, IsInjective
  <2>4. f \in Bijection(page, keys)
    BY <2>1, <2>3 DEF Bijection
  <2>. HIDE DEF f, keys
  <2>5. ExistsBijection(page, keys)
    BY <2>4 DEF ExistsBijection
  <2>. QED BY <2>5, <1>1, FS_Bijection
<1>5. ASSUME TRUE \in DmaOutcome(len) PROVE Cardinality(page) < NrkMod
  <2>1. NrkMod \in Nat /\ MaxTransfer \in Nat /\ MaxTransfer < NrkMod
    BY EntriesAssumption
  <2>2. CASE page = {}
    <3>1. NrkMod > 0
      BY <2>1
    <3>. HIDE DEF page
    <3>. QED BY <2>2, <3>1, FS_EmptySet
  <2>3. CASE page # {}
    <3>. DEFINE last == Max(page)
                S == {j \in Used : first_entry(c) <= j /\ j <= last}
                sum == SizeOf(pairs, S)
    <3>. HIDE DEF page
    <3>1. page \subseteq S /\ S \subseteq Used
      BY <1>1, <1>2, <2>3
    <3>2. rds_size(c, last) = rds_hdr + sum
      BY DEF rds_size, SizeOf
    <3>3. len = rds_size(c, last)
      BY <2>3
    <3>. HIDE DEF S, last
    <3>4. IsFiniteSet(S) /\ \A j \in S : kds(pairs[j].kl) \in Nat \ {0}
      BY <3>1, UsedSlots, FS_Subset
    <3>5. sum \in Nat /\ Cardinality(S) <= sum
      BY <3>4, SizeBoundsCount
    <3>6. Cardinality(page) \in Nat /\ Cardinality(S) \in Nat /\ Cardinality(page) <= Cardinality(S)
      BY <3>1, <3>4, <1>1, FS_Subset, FS_CardinalityType
    <3>. HIDE DEF sum, len
    <3>7. len \in Nat /\ len # 0 /\ Cardinality(page) <= len
      BY <3>2, <3>3, <3>5, <3>6 DEF rds_hdr
    <3>8. ~(len > MaxTransfer)
      BY <1>5, <3>7 DEF DmaOutcome
    <3>. QED BY <2>1, <3>6, <3>7, <3>8
  <2>. QED BY <2>2, <2>3
<1>6. ASSUME TRUE \in DmaOutcome(len) PROVE Cardinality(page) % NrkMod = Cardinality(page)
  <2>1. Cardinality(page) < NrkMod /\ Cardinality(page) \in Nat /\ NrkMod \in Nat
    BY <1>1, <1>5, <1>6, FS_CardinalityType, EntriesAssumption
  <2>. HIDE DEF page
  <2>. QED BY <2>1
<1>. QED BY <1>3, <1>4, <1>6

(* An answer that moves no bytes.                                          *)
LEMMA PlainAnswer ==
  ASSUME NEW c \in Cmds, NEW st, rsp' = Rsp(c, st), c.opcode = "LIST" => st # "SUCCESS"
  PROVE  Answer'
<1>1. rsp'.op = c.opcode /\ rsp'.status = st /\ rsp'.hbs = 0 /\ rsp'.len = 0
  BY DEF Rsp
<1>. QED BY <1>1 DEF Answer, ListCountsKeys, TransferFitsBuffer

(* Every handler answers so.                                               *)
LEMMA AnswerStep ==
  ASSUME Inv, Answer, Next
  PROVE  Answer'
<1>1. ASSUME NEW c \in Cmds, nvme_io_kv(c)
      PROVE  Answer'
  <2>0. c.hbs \in Nat /\ MaxVal \in Nat
    BY InputAssumption, Sizes DEF NvmeKVCmd
  <2>1. CASE kv_store(c)
    BY <2>1, PlainAnswer
       DEF kv_store, StoreInvalid, StoreExisting, StoreRefused, StoreNew, StoreValid
  <2>2. CASE kv_retrieve(c)
    <3>1. CASE \E st : rsp' = Rsp(c, st)
      BY <2>2, <3>1, PlainAnswer DEF kv_retrieve
    <3>2. CASE rsp' = RspVal(c, pairs[Min(Matches(c))].val, AtMost(c.hbs, MaxVal))
      <4>1. rsp'.op # "LIST" /\ rsp'.hbs = c.hbs /\ rsp'.len = AtMost(c.hbs, MaxVal)
        BY <2>2, <3>2 DEF RspVal, Rsp, kv_retrieve
      <4>2. AtMost(c.hbs, MaxVal) <= c.hbs
        BY <2>0 DEF AtMost
      <4>. QED BY <4>1, <4>2 DEF Answer, ListCountsKeys, TransferFitsBuffer
    <3>. QED BY <2>2, <3>1, <3>2 DEF kv_retrieve
  <2>3. CASE kv_delete(c) \/ kv_exist(c) \/ UnknownOpcode(c)
    BY <2>3, PlainAnswer DEF kv_delete, kv_exist, UnknownOpcode
  <2>4. CASE kv_list(c)
    <3>. DEFINE page == Listed(c)
                len  == IF page = {} THEN rds_hdr ELSE rds_size(c, Max(page))
                nrk  == Cardinality(page) % NrkMod
                keys == {KeyOfPair(pairs[i]) : i \in page}
    <3>1. CASE rsp' = Rsp(c, "INVALID_FIELD") \/ rsp' = Rsp(c, "CAP_EXCEEDED")
      BY <3>1, PlainAnswer
    <3>2. CASE TRUE \in DmaOutcome(len) /\ rsp' = RspKeys(c, len, nrk, keys)
      <4>1. /\ len = rds_hdr \/ len <= c.hbs
            /\ nrk = Cardinality(keys)
        BY <3>2, PageSent
      <4>. HIDE DEF len, nrk, keys
      <4>2. rsp'.hbs = c.hbs /\ rsp'.len = len /\ rsp'.nrk = nrk /\ rsp'.keys = keys
            /\ rsp'.op = "LIST"
        BY <2>4, <3>2 DEF RspKeys, Rsp, kv_list
      <4>. QED BY <4>1, <4>2 DEF Answer, ListCountsKeys, TransferFitsBuffer
    <3>. QED BY <2>4, <3>1, <3>2 DEF kv_list
  <2>. QED BY <1>1, <2>1, <2>2, <2>3, <2>4 DEF nvme_io_kv
<1>2. ASSUME SetEdnek PROVE Answer'
  BY <1>2 DEF SetEdnek, Answer, ListCountsKeys, TransferFitsBuffer
<1>. QED BY <1>1, <1>2 DEF Next

(* No handler moves more bytes than the host has room for, and the count   *)
(* at the head of a page is the number of distinct keys in it.             *)
LEMMA Answers == Spec => []Answer
<1>1. Init => Answer
  BY DEF Init, NoRsp, Answer, ListCountsKeys, TransferFitsBuffer
<1>2. Inv /\ Answer /\ [Next]_vars => Answer'
  <2>. SUFFICES ASSUME Inv, Answer, [Next]_vars PROVE Answer'
    OBVIOUS
  <2>1. CASE UNCHANGED vars
    BY <2>1 DEF vars, Answer, ListCountsKeys, TransferFitsBuffer
  <2>. QED BY <2>1, AnswerStep
<1>. QED BY <1>1, <1>2, Invariance, PTL DEF Spec

(* The 16-bit count at the head of a LIST page is the number of distinct   *)
(* keys it names, for any number of keys: the two pages a transfer can     *)
(* move hold fewer keys than would wrap it, and no key is listed twice.    *)
THEOREM ListsCountKeys == Spec => []ListCountsKeys
<1>1. Answer => ListCountsKeys
  BY DEF Answer
<1>. QED BY <1>1, Answers, PTL

(* RETRIEVE and LIST move no more bytes than the host buffer holds, but    *)
(* for the header of a LIST page.                                          *)
THEOREM TransfersFit == Spec => []TransferFitsBuffer
<1>1. Answer => TransferFitsBuffer
  BY DEF Answer
<1>. QED BY <1>1, Answers, PTL
=============================================================================
