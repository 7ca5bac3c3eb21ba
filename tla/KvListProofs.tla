---------------------------- MODULE KvListProofs ----------------------------
(***************************************************************************)
(* A listing that did not jump is complete, for every number of slots and  *)
(* every page size of at least two keys.                                   *)
(***************************************************************************)
EXTENDS KvList, FiniteSetTheorems, WellFoundedInduction, TLAPS

(* A set of naturals has a least element.                                  *)
LEMMA LeastExists ==
  ASSUME NEW T \in SUBSET Nat, T # {}
  PROVE  \E m \in T : \A k \in T : m <= k
<1> DEFINE R == OpToRel(<, Nat)
<1>1. IsWellFoundedOn(R, Nat)
  BY NatLessThanWellFounded
<1>2. \E m \in T : \A k \in T : ~(<<k, m>> \in R)
  <2> HIDE DEF R
  <2> QED BY <1>1, WFMin
<1>3. PICK m \in T : \A k \in T : ~(<<k, m>> \in R)
  BY <1>2
<1>4. \A k \in T : ~(k < m)
  BY <1>3 DEF OpToRel
<1>5. \A k \in T : m <= k
  BY <1>4
<1> QED BY <1>5

-----------------------------------------------------------------------------
(* The page.                                                               *)

(* The keys a page has met when it comes to slot i.                        *)
Met(i) == {j \in Used : first_entry <= j /\ j <= i}

LEMMA FirstEntryType ==
  ASSUME TypeOK
  PROVE  /\ first_entry \in Slot
         /\ cursor \in Stored => first_entry \in Used /\ pairs[first_entry] = cursor
<1>1. 0 \in Slot
  BY PageAssumption DEF Slot
<1>2. cursor \in Stored => \E i \in Used : pairs[i] = cursor
  BY DEF Stored
<1> QED BY <1>1, <1>2 DEF first_entry, Used

LEMMA MetFinite ==
  ASSUME NEW i
  PROVE  IsFiniteSet(Met(i))
<1>1. IsFiniteSet(0 .. Slots - 1)
  BY PageAssumption, FS_Interval
<1>2. Met(i) \in SUBSET (0 .. Slots - 1)
  BY DEF Met, Used, Slot
<1> QED BY <1>1, <1>2, FS_Subset

(* A page has no gaps.                                                     *)
LEMMA PageNoGap ==
  ASSUME TypeOK, NEW i \in Page, NEW j \in Used, first_entry <= j, j <= i
  PROVE  j \in Page
<1>1. i \in Nat /\ j \in Nat /\ first_entry \in Nat
  BY FirstEntryType DEF Page, Used, Slot
<1>2. Met(j) \in SUBSET Met(i)
  BY <1>1 DEF Met, Used, Slot
<1>3. Cardinality(Met(j)) <= Cardinality(Met(i))
  BY <1>2, MetFinite, FS_Subset
<1>4. Cardinality(Met(i)) \in Nat /\ Cardinality(Met(j)) \in Nat
  BY MetFinite, FS_CardinalityType
<1>5. Cardinality(Met(i)) <= PageKeys
  BY DEF Page, Met
<1>6. Cardinality(Met(j)) <= PageKeys
  BY <1>3, <1>4, <1>5, PageAssumption
<1> QED BY <1>6 DEF Page, Met

(* A page has the first key that it comes to.                              *)
LEMMA PageHasFirst ==
  ASSUME TypeOK, NEW j \in Used, first_entry <= j
  PROVE  Page # {}
<1> DEFINE T == {i \in Used : first_entry <= i}
<1>1. T \in SUBSET Nat /\ T # {}
  BY DEF Used, Slot
<1>2. PICK m \in T : \A k \in T : m <= k
  <2> HIDE DEF T
  <2> QED BY <1>1, LeastExists
<1>3. Met(m) = {m}
  BY <1>2 DEF Met, Used, Slot
<1>4. Cardinality(Met(m)) = 1
  BY <1>3, FS_Singleton
<1>5. m \in Page
  BY <1>4, PageAssumption DEF Page, Met
<1> QED BY <1>5

(* And a second one, if there is one.                                      *)
LEMMA PageHasSecond ==
  ASSUME TypeOK, cursor \in Stored, NEW j \in Used, first_entry < j
  PROVE  \E m \in Page : first_entry < m
<1> DEFINE f == first_entry
           T == {i \in Used : f < i}
<1>1. f \in Used /\ f \in Nat
  BY FirstEntryType DEF Slot
<1>2. T \in SUBSET Nat /\ T # {}
  BY DEF Used, Slot
<1>3. PICK m \in T : \A k \in T : m <= k
  <2> HIDE DEF T
  <2> QED BY <1>2, LeastExists
<1>4. Met(m) = {f} \union {m}
  <2> HIDE DEF f
  <2>1. \A i \in Used : i \in Nat
    BY DEF Used, Slot
  <2>2. \A i : i \in Met(m) <=> i \in Used /\ f <= i /\ i <= m
    BY DEF Met, f
  <2>3. ASSUME NEW i \in Met(m) PROVE i = f \/ i = m
    <3>1. i \in Used /\ i \in Nat /\ m \in Nat /\ f <= i /\ i <= m
      BY <1>3, <2>1, <2>2
    <3>2. f < i => m <= i
      BY <1>3, <3>1
    <3> QED BY <1>1, <3>1, <3>2
  <2>4. f \in Met(m) /\ m \in Met(m)
    BY <1>1, <1>3, <2>1, <2>2
  <2> QED BY <2>3, <2>4
<1>5. Cardinality(Met(m)) <= 2
  <2>1. IsFiniteSet({f}) /\ Cardinality({f}) = 1
    BY FS_Singleton
  <2>2. Cardinality({f} \union {m}) = IF m \in {f} THEN Cardinality({f}) ELSE Cardinality({f}) + 1
    BY <2>1, FS_AddElement
  <2> QED BY <1>4, <2>1, <2>2
<1>6. m \in Page
  <2>1. Cardinality(Met(m)) \in Nat
    BY MetFinite, FS_CardinalityType
  <2>2. m \in Used /\ first_entry <= m
    BY <1>1, <1>3 DEF Used, Slot
  <2>3. Cardinality(Met(m)) <= PageKeys
    BY <1>5, <2>1, PageAssumption
  <2> QED BY <2>2, <2>3 DEF Page, Met
<1> QED BY <1>3, <1>6

-----------------------------------------------------------------------------
(* The inductive invariant: what is before upto has been listed.           *)

Covered ==
  ~jumped => \A i \in Used : pairs[i] \in steady /\ (i < upto \/ ~listing) => pairs[i] \in got

IInv == TypeOK /\ Covered

LEMMA InitInv == Init => IInv
<1> SUFFICES ASSUME Init PROVE IInv
  OBVIOUS
<1>1. Used = {}
  BY DEF Init, Used
<1>2. pairs \in [Slot -> Key \union {NoKey}] /\ upto \in 0 .. Slots
  BY PageAssumption DEF Init
<1> QED BY <1>1, <1>2, PageAssumption DEF Init, IInv, TypeOK, Covered, Stored

LEMMA StoreInv ==
  ASSUME IInv, NEW k \in Key, kv_store(k)
  PROVE  IInv'
<1>1. PICK i \in Slot \ Used : pairs' = [pairs EXCEPT ![i] = k]
  BY DEF kv_store
<1>2. pairs[i] = NoKey /\ k # NoKey /\ pairs \in [Slot -> Key \union {NoKey}]
  BY <1>1, PageAssumption DEF Used, IInv, TypeOK
<1>3. Used' = Used \union {i} /\ \A j \in Used : pairs'[j] = pairs[j] /\ j # i
  BY <1>1, <1>2 DEF Used
<1>4. pairs'[i] = k /\ k \notin Stored
  BY <1>1, <1>2 DEF kv_store
<1>5. Stored' = Stored \union {k}
  BY <1>3, <1>4 DEF Stored
<1>6. UNCHANGED <<cursor, listing, got, upto, steady, jumped>>
  BY DEF kv_store, host
<1>7. \A a, b \in Used' : pairs'[a] = pairs'[b] => a = b
  <2>1. \A a \in Used : pairs'[a] # k
    BY <1>3, <1>4 DEF Stored
  <2> QED BY <1>3, <1>4, <2>1 DEF IInv, TypeOK
<1>8. pairs' \in [Slot -> Key \union {NoKey}]
  BY <1>1, <1>2
<1>9. TypeOK'
  BY <1>5, <1>6, <1>7, <1>8 DEF IInv, TypeOK
<1>10. k \notin steady
  BY <1>4 DEF IInv, TypeOK
<1>11. Covered'
  BY <1>3, <1>4, <1>6, <1>10 DEF IInv, Covered
<1> QED BY <1>9, <1>11 DEF IInv

LEMMA DeleteInv ==
  ASSUME IInv, NEW k \in Key, kv_delete(k)
  PROVE  IInv'
<1>1. PICK i \in Used : pairs[i] = k /\ pairs' = [pairs EXCEPT ![i] = NoKey]
  BY DEF kv_delete
<1>2. pairs \in [Slot -> Key \union {NoKey}] /\ i \in Slot
  BY <1>1 DEF Used, IInv, TypeOK
<1>3. Used' = Used \ {i} /\ \A j \in Used' : pairs'[j] = pairs[j]
  BY <1>1, <1>2 DEF Used
<1>4. UNCHANGED <<cursor, listing, got, upto, jumped>> /\ steady' = steady \ {k}
  BY DEF kv_delete, host
<1>5. Stored \ {k} \subseteq Stored'
  BY <1>1, <1>3 DEF Stored
<1>6. pairs' \in [Slot -> Key \union {NoKey}]
  BY <1>1, <1>2
<1>7. TypeOK'
  BY <1>3, <1>4, <1>5, <1>6 DEF IInv, TypeOK
<1>8. Covered'
  BY <1>3, <1>4 DEF IInv, Covered
<1> QED BY <1>7, <1>8 DEF IInv

LEMMA StartInv == IInv /\ Start => IInv'
<1> SUFFICES ASSUME IInv, Start PROVE IInv'
  OBVIOUS
<1>1. Used' = Used /\ Stored' = Stored /\ UNCHANGED pairs
  BY DEF Start, Used, Stored
<1>2. upto' = 0 /\ listing' = TRUE /\ \A i \in Used : ~(i < 0)
  BY DEF Start, Used, Slot
<1>3. Covered'
  BY <1>1, <1>2 DEF Covered
<1>4. TypeOK'
  <2>1. upto' \in 0 .. Slots /\ cursor' \in Key
    BY PageAssumption DEF Start
  <2>2. listing' = TRUE /\ got' = {} /\ steady' = Stored /\ jumped' = FALSE
    BY DEF Start
  <2> QED BY <1>1, <2>1, <2>2 DEF IInv, TypeOK
<1> QED BY <1>3, <1>4 DEF IInv

(* A page adds the keys from first_entry to its last slot.  What is before *)
(* first_entry was listed, unless the page jumped.                         *)
LEMMA ListInv == IInv /\ kv_list => IInv'
<1> SUFFICES ASSUME IInv, kv_list PROVE IInv'
  OBVIOUS
<1> DEFINE f == first_entry
<1>1. UNCHANGED <<pairs, steady>> /\ listing /\ got' = got \union {pairs[i] : i \in Page}
      /\ jumped' = (jumped \/ f > upto)
  BY DEF kv_list
<1>2. Used' = Used /\ Stored' = Stored
  BY <1>1 DEF Used, Stored
<1>3. TypeOK /\ Covered /\ f \in Nat /\ upto \in Nat /\ \A i \in Used : i \in Nat
  BY FirstEntryType DEF IInv, Slot, TypeOK, Used
<1>4. ASSUME NEW i \in Page PROVE i \in Used /\ pairs[i] \in Key /\ i \in Nat
  <2>1. i \in Used
    BY DEF Page
  <2>2. i \in Slot /\ pairs[i] # NoKey
    BY <2>1 DEF Used
  <2> QED BY <1>3, <2>1, <2>2 DEF TypeOK
<1>5. got' \subseteq Key /\ jumped' \in BOOLEAN
  BY <1>1, <1>3, <1>4 DEF TypeOK
<1>6. ASSUME ~jumped', NEW i \in Used, pairs[i] \in steady, i < f
      PROVE  pairs[i] \in got'
  <2>1. ~jumped /\ ~(f > upto)
    BY <1>1, <1>6, Zenon DEF kv_list
  <2>2. i < upto
    BY <1>3, <1>6, <2>1
  <2> HIDE DEF f
  <2> QED BY <1>1, <1>3, <1>6, <2>1, <2>2 DEF Covered
<1>7. CASE Page = {} /\ listing' = FALSE /\ UNCHANGED <<cursor, upto>>
  <2>1. \A i \in Used : ~(f <= i)
    BY <1>3, <1>7, PageHasFirst
  <2>2. \A i \in Used : i < f
    BY <1>3, <2>1
  <2>3. Covered'
    BY <1>1, <1>2, <1>6, <2>2 DEF Covered
  <2>4. TypeOK'
    BY <1>1, <1>2, <1>3, <1>5, <1>7 DEF TypeOK
  <2> QED BY <2>3, <2>4 DEF IInv
<1>8. ASSUME NEW last \in Page, \A i \in Page : i <= last, cursor' = pairs[last],
             upto' = last + 1, listing' = (pairs[last] # cursor)
      PROVE  IInv'
  <2>1. TypeOK'
    <3>1. cursor' \in Key /\ upto' \in 0 .. Slots /\ listing' \in BOOLEAN
      BY <1>4, <1>8, PageAssumption DEF Used, Slot
    <3> QED BY <1>1, <1>2, <1>3, <1>5, <3>1 DEF TypeOK
  <2>2. ASSUME NEW i \in Used, f <= i, i <= last
        PROVE  pairs[i] \in got'
    BY <1>1, <1>3, <2>2, PageNoGap
  <2>3. ASSUME ~listing', NEW i \in Used PROVE i <= last
    <3>1. pairs[last] = cursor /\ last \in Used
      BY <1>4, <1>8, <2>3
    <3>2. cursor \in Stored
      BY <3>1 DEF Stored
    <3>3. pairs[f] = cursor /\ f \in Used
      BY <1>3, <3>2, FirstEntryType
    <3>4. f = last
      BY <1>3, <3>1, <3>3 DEF TypeOK
    <3>5. ~(f < i)
      <4>1. \A m \in Page : ~(f < m)
        BY <1>3, <1>4, <1>8, <3>4
      <4> QED BY <1>3, <3>2, <4>1, PageHasSecond
    <3> QED BY <1>3, <3>4, <3>5
  <2>4. ASSUME ~jumped', NEW i \in Used, pairs[i] \in steady, i < upto' \/ ~listing'
        PROVE  pairs[i] \in got'
    <3>1. i <= last
      BY <1>3, <1>4, <1>8, <2>3, <2>4
    <3>2. i < f \/ f <= i
      BY <1>3
    <3> QED BY <1>6, <2>2, <2>4, <3>1, <3>2
  <2>5. Covered'
    BY <1>1, <1>2, <2>4 DEF Covered
  <2> QED BY <2>1, <2>5 DEF IInv
<1> QED BY <1>7, <1>8 DEF kv_list

LEMMA Invariance == Spec => []IInv
<1>1. Init => IInv
  BY InitInv
<1>2. ASSUME IInv, [Next]_vars PROVE IInv'
  <2>1. CASE UNCHANGED vars
    <3>1. UNCHANGED <<pairs, cursor, listing, got, upto, steady, jumped>>
      BY <2>1 DEF vars, host
    <3>2. Used' = Used /\ Stored' = Stored
      BY <3>1 DEF Used, Stored
    <3>3. TypeOK' /\ Covered'
      BY <1>2, <3>1, <3>2 DEF IInv, TypeOK, Covered
    <3> QED BY <3>3 DEF IInv
  <2> QED BY <1>2, <2>1, StoreInv, DeleteInv, StartInv, ListInv DEF Next
<1> QED BY <1>1, <1>2, PTL DEF Spec

(* The listing keeps its types, and keys stay unique.                      *)
THEOREM TypeCorrect == Spec => []TypeOK
<1>1. IInv => TypeOK
  BY DEF IInv
<1> QED BY <1>1, Invariance, PTL

(* A finished listing that did not jump has every key that was there all   *)
(* the time.                                                               *)
THEOREM ListingIsComplete == Spec => []ListingComplete
<1>1. ASSUME IInv PROVE ListingComplete
  <2> SUFFICES ASSUME ~listing, ~jumped, NEW k \in steady PROVE k \in got
    BY DEF ListingComplete
  <2>1. PICK i \in Used : pairs[i] = k
    BY <1>1 DEF IInv, TypeOK, Stored
  <2> QED BY <1>1, <2>1 DEF IInv, Covered
<1> QED BY <1>1, Invariance, PTL
=============================================================================
