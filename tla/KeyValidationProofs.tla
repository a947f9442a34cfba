------------------------ MODULE KeyValidationProofs ------------------------
(***************************************************************************)
(* Proofs about KeyStorage and KeyValidation: the storage of router keys,  *)
(* the registration of updates under the keys they need, and the           *)
(* validation of updates whose keys changed, for every number of keys,     *)
(* updates, routers and announcements.                                     *)
(***************************************************************************)
EXTENDS KeyValidation, NaturalsInduction, FiniteSetTheorems, SequenceTheorems, WellFoundedInduction,
        TLAPS

\* Elements whose keys are known ones.
ElementOf ==
  {e \in [asn : Nat, ski : {k.ski : k \in Key}, der : Seq({k.der : k \in Key} \cup {NoKey}),
          prev : BOOLEAN] :
     \A j \in DOMAIN e.der :
       e.der[j] # NoKey => [asn |-> e.asn, ski |-> e.ski, der |-> e.der[j]] \in Key}

Buckets == Seq(ElementOf)

\* The storage without collisions: the elements are sorted, have one key each
\* and know the element in front.
Ordered(b) ==
  /\ b \in Buckets
  /\ \A i \in DOMAIN b : /\ Len(b[i].der) = 1 /\ b[i].der[1] # NoKey
                         /\ b[i].prev <=> i > 1
  /\ \A i, j \in DOMAIN b : i < j => b[i].asn < b[j].asn

-----------------------------------------------------------------------------
(* The key storage.                                                        *)

LEMMA LeastNatural ==
  ASSUME NEW S \in SUBSET Nat, S # {}
  PROVE  /\ Min(S) \in S
         /\ \A n \in S : Min(S) <= n
<1>1. PICK m \in S : \A n \in S : ~ (<<n, m>> \in OpToRel(<, Nat))
  BY NatLessThanWellFounded, WFMin
<1>2. ASSUME NEW n \in S PROVE m <= n
  <2>1. n \in Nat /\ m \in Nat
    OBVIOUS
  <2>2. n < m => <<n, m>> \in OpToRel(<, Nat)
    BY <2>1 DEF OpToRel
  <2>3. ~ (n < m)
    BY <1>1, <2>2, Zenon
  <2> QED
    BY <2>1, <2>3
<1>3. \E x \in S : \A y \in S : x <= y
  BY <1>2
<1> QED
  BY <1>3 DEF Min

LEMMA KeyIsKey ==
  ASSUME NEW k \in Key
  PROVE  /\ k = [asn |-> k.asn, ski |-> k.ski, der |-> k.der]
         /\ k.asn \in Nat
         /\ k.der # NoKey
BY KeyAssumption

LEMMA NewElement ==
  ASSUME NEW k \in Key, NEW prev \in BOOLEAN
  PROVE  /\ Element(k, prev) \in ElementOf
         /\ Element(k, prev).asn = k.asn
         /\ Element(k, prev).ski = k.ski
         /\ Element(k, prev).der = <<k.der>>
         /\ Element(k, prev).prev = prev
BY KeyIsKey DEF Element, ElementOf

LEMMA PrevSet ==
  ASSUME NEW e \in ElementOf, NEW prev \in BOOLEAN
  PROVE  /\ [e EXCEPT !.prev = prev] \in ElementOf
         /\ [e EXCEPT !.prev = prev].asn = e.asn
         /\ [e EXCEPT !.prev = prev].ski = e.ski
         /\ [e EXCEPT !.prev = prev].der = e.der
         /\ [e EXCEPT !.prev = prev].prev = prev
BY DEF ElementOf

\* Where the walk of ks_storeKey ends.
LEMMA StopFound ==
  ASSUME NEW b \in Buckets, b # <<>>, NEW k \in Key
  PROVE  /\ Stop(b, k) \in DOMAIN b
         /\ \/ b[Stop(b, k)].asn > k.asn
            \/ Matches(b[Stop(b, k)], k)
            \/ Stop(b, k) = Len(b)
         /\ \A j \in DOMAIN b :
              j < Stop(b, k) => ~(b[j].asn > k.asn) /\ ~Matches(b[j], k)
<1> DEFINE S == {i \in DOMAIN b : \/ b[i].asn > k.asn
                                  \/ Matches(b[i], k)
                                  \/ i = Len(b)}
<1>1. DOMAIN b = 1 .. Len(b) /\ Len(b) \in Nat /\ Len(b) # 0
  BY DEF Buckets
<1>2. Len(b) \in S /\ S \subseteq Nat
  BY <1>1
<1>3. Stop(b, k) = Min(S)
  BY DEF Stop
<1>4. Min(S) \in S /\ \A n \in S : Min(S) <= n
  <2> HIDE DEF S
  <2> QED
    BY <1>2, LeastNatural
<1>5. ASSUME NEW j \in DOMAIN b, j < Stop(b, k) PROVE j \notin S
  <2> HIDE DEF S
  <2>1. SUFFICES ASSUME j \in S PROVE FALSE
    OBVIOUS
  <2>2. Stop(b, k) <= j
    BY <1>3, <1>4, <2>1
  <2>3. Stop(b, k) \in Nat /\ j \in Nat
    BY <1>2, <1>3, <1>4, <2>1
  <2> QED
    BY <1>5, <2>2, <2>3
<1>6. Stop(b, k) \in S
  BY <1>3, <1>4
<1> QED
  BY <1>5, <1>6

\* InsertBefore keeps the elements in front unless the i-th is taken for the head.
LEMMA InsertTyped ==
  ASSUME NEW b \in Buckets, NEW i \in DOMAIN b, NEW k \in Key
  PROVE  InsertBefore(b, i, k) \in Buckets
<1>1. b[i] \in ElementOf /\ i \in 1 .. Len(b) /\ Len(b) \in Nat
  BY DEF Buckets
<1>2. b[i].prev \in BOOLEAN
  BY <1>1 DEF ElementOf
<1>3. Element(k, b[i].prev) \in ElementOf /\ [b[i] EXCEPT !.prev = TRUE] \in ElementOf
  BY <1>1, <1>2, NewElement, PrevSet
<1>4. SubSeq(b, 1, i - 1) \in Seq(ElementOf) /\ SubSeq(b, i + 1, Len(b)) \in Seq(ElementOf)
  BY <1>1 DEF Buckets
<1>5. <<Element(k, b[i].prev), [b[i] EXCEPT !.prev = TRUE]>> \in Seq(ElementOf)
  BY <1>3
<1> QED
  BY <1>4, <1>5 DEF InsertBefore, Buckets

LEMMA OneElement ==
  ASSUME NEW S, NEW e \in S
  PROVE  <<e>> \in Seq(S)
OBVIOUS

LEMMA StoreTyped ==
  ASSUME NEW b \in Buckets, NEW k \in Key
  PROVE  StoreKey(b, k) \in Buckets
<1>1. CASE b = <<>>
  <2>1. StoreKey(b, k) = <<Element(k, FALSE)>>
    BY <1>1 DEF StoreKey
  <2>2. Element(k, FALSE) \in ElementOf
    BY NewElement
  <2> QED
    BY <2>1, <2>2, OneElement DEF Buckets
<1>2. CASE b # <<>>
  <2> DEFINE i == Stop(b, k)
  <2>1. i \in DOMAIN b
    BY <1>2, StopFound
  <2>2. b[i] \in ElementOf /\ b \in Seq(ElementOf)
    BY <2>1 DEF Buckets
  <2>3. b[i].asn \in Nat /\ k.asn \in Nat /\ b[i].der \in Seq({l.der : l \in Key} \cup {NoKey})
    BY <2>2, KeyIsKey DEF ElementOf
  <2>4. CASE b[i].asn > k.asn
    <3>1. StoreKey(b, k) = InsertBefore(b, i, k)
      BY <1>2, <2>3, <2>4 DEF StoreKey, Matches
    <3> QED
      BY <3>1, <2>1, InsertTyped
  <2>5. CASE ~(b[i].asn > k.asn) /\ Matches(b[i], k)
    <3> DEFINE e == [b[i] EXCEPT !.der = Append(@, k.der)]
    <3>1. StoreKey(b, k) \in {b, [b EXCEPT ![i].der = Append(@, k.der)]}
      BY <1>2, <2>5 DEF StoreKey
    <3>2. e \in ElementOf
      <4>1. Append(b[i].der, k.der) \in Seq({l.der : l \in Key} \cup {NoKey})
        BY <2>3
      <4>2. ASSUME NEW j \in DOMAIN Append(b[i].der, k.der), Append(b[i].der, k.der)[j] # NoKey
            PROVE  [asn |-> b[i].asn, ski |-> b[i].ski, der |-> Append(b[i].der, k.der)[j]] \in Key
        <5>1. CASE j \in DOMAIN b[i].der
          BY <2>2, <2>3, <5>1, <4>2 DEF ElementOf
        <5>2. CASE j = Len(b[i].der) + 1
          BY <2>3, <2>5, <5>2, KeyIsKey DEF Matches
        <5> QED
          BY <2>3, <5>1, <5>2
      <4> QED
        BY <2>2, <4>1, <4>2 DEF ElementOf
    <3>3. [b EXCEPT ![i].der = Append(@, k.der)] = [b EXCEPT ![i] = e]
      OBVIOUS
    <3>4. [b EXCEPT ![i] = e] \in Seq(ElementOf)
      BY <2>1, <2>2, <3>2
    <3> QED
      BY <3>1, <3>3, <3>4 DEF Buckets
  <2>6. CASE ~(b[i].asn > k.asn) /\ ~Matches(b[i], k)
    <3>1. StoreKey(b, k) = Append(b, Element(k, b[i].asn < k.asn))
      BY <1>2, <2>6 DEF StoreKey
    <3>2. Element(k, b[i].asn < k.asn) \in ElementOf
      <4> DEFINE prev == b[i].asn < k.asn
      <4>1. prev \in BOOLEAN
        OBVIOUS
      <4> HIDE DEF prev
      <4>2. Element(k, prev) \in ElementOf
        BY <4>1, NewElement
      <4> QED
        BY <4>2 DEF prev
    <3> QED
      BY <3>1, <3>2, <2>2 DEF Buckets
  <2> QED
    BY <2>4, <2>5, <2>6
<1> QED
  BY <1>1, <1>2
LEMMA FreeTyped ==
  ASSUME NEW b \in Buckets, NEW i \in DOMAIN b
  PROVE  FreeElement(b, i) \in Buckets
<1>1. b[i] \in ElementOf /\ i \in 1 .. Len(b) /\ Len(b) \in Nat
  BY DEF Buckets
<1>2. b[i].prev \in BOOLEAN
  BY <1>1 DEF ElementOf
<1> DEFINE after == SubSeq(b, i + 1, Len(b))
           kept == IF after = <<>> THEN after ELSE [after EXCEPT ![1].prev = b[i].prev]
<1>3. SubSeq(b, 1, i - 1) \in Seq(ElementOf) /\ after \in Seq(ElementOf)
  BY <1>1 DEF Buckets
<1>4. kept \in Seq(ElementOf)
  <2>1. CASE after = <<>>
    BY <2>1, <1>3
  <2>2. CASE after # <<>>
    <3> HIDE DEF after
    <3>1. 1 \in DOMAIN after /\ after[1] \in ElementOf
      BY <1>3, <2>2
    <3>2. [after[1] EXCEPT !.prev = b[i].prev] \in ElementOf
      BY <1>2, <3>1, PrevSet
    <3>3. [after EXCEPT ![1].prev = b[i].prev] = [after EXCEPT ![1] = [after[1] EXCEPT !.prev = b[i].prev]]
      OBVIOUS
    <3>4. [after EXCEPT ![1] = [after[1] EXCEPT !.prev = b[i].prev]] \in Seq(ElementOf)
      BY <1>3, <3>1, <3>2
    <3> QED
      BY <2>2, <3>3, <3>4
  <2> QED
    BY <2>1, <2>2
<1>5. FreeElement(b, i) = (IF b[i].prev THEN SubSeq(b, 1, i - 1) ELSE <<>>) \o kept
  BY DEF FreeElement
<1> HIDE DEF kept
<1> QED
  BY <1>3, <1>4, <1>5 DEF Buckets

LEMMA HolderFound ==
  ASSUME NEW b \in Buckets, NEW asn, NEW ski, Holder(b, asn, ski) # {}
  PROVE  /\ Min(Holder(b, asn, ski)) \in DOMAIN b
         /\ b[Min(Holder(b, asn, ski))].asn = asn
         /\ b[Min(Holder(b, asn, ski))].ski = ski
<1>1. Holder(b, asn, ski) \in SUBSET Nat
  BY DEF Holder, Buckets
<1>2. Min(Holder(b, asn, ski)) \in Holder(b, asn, ski)
  BY <1>1, LeastNatural
<1> QED
  BY <1>2 DEF Holder

\* Removing a key from an element leaves keys of the element, or none.
LEMMA ShiftTyped ==
  ASSUME NEW e \in ElementOf, NEW j \in DOMAIN e.der
  PROVE  [e EXCEPT !.der = Shift(@, j)] \in ElementOf
<1> DEFINE D == {k.der : k \in Key} \cup {NoKey}
           shifted == Shift(e.der, j)
<1>1. e.der \in Seq(D) /\ Len(e.der) \in Nat /\ DOMAIN e.der = 1 .. Len(e.der) /\ j \in Nat
  BY DEF ElementOf
<1>2. /\ DOMAIN shifted = 1 .. Len(e.der) - 1
      /\ \A i \in DOMAIN shifted :
           shifted[i] = NoKey \/ \E m \in DOMAIN e.der : shifted[i] = e.der[m]
  <2>1. DOMAIN shifted = 1 .. Len(e.der) - 1
    BY DEF Shift
  <2>2. ASSUME NEW i \in 1 .. Len(e.der) - 1
        PROVE  shifted[i] = NoKey \/ \E m \in DOMAIN e.der : shifted[i] = e.der[m]
    <3>1. i \in DOMAIN e.der /\ i + 1 \in DOMAIN e.der
      BY <1>1
    <3>2. shifted[i] \in {e.der[i], e.der[i + 1], NoKey}
      BY DEF Shift
    <3> QED
      BY <3>1, <3>2
  <2> QED
    BY <2>1, <2>2
<1>3. shifted = [i \in 1 .. Len(e.der) - 1 |-> shifted[i]]
  BY DEF Shift
<1> HIDE DEF shifted
<1>4. \A i \in 1 .. Len(e.der) - 1 : shifted[i] \in D
  BY <1>1, <1>2
<1>5. shifted \in Seq(D)
  BY <1>1, <1>3, <1>4
<1>6. ASSUME NEW i \in DOMAIN shifted, shifted[i] # NoKey
      PROVE  [asn |-> e.asn, ski |-> e.ski, der |-> shifted[i]] \in Key
  BY <1>2, <1>6 DEF ElementOf
<1>7. [e EXCEPT !.der = shifted] \in ElementOf
  BY <1>5, <1>6 DEF ElementOf
<1> QED
  BY <1>7 DEF shifted

LEMMA DelTyped ==
  ASSUME NEW b \in Buckets, NEW k \in Key
  PROVE  DelKey(b, k) \in Buckets
<1> DEFINE holder == Holder(b, k.asn, k.ski)
           i == Min(holder)
           places == {j \in DOMAIN b[i].der : b[i].der[j] = k.der}
<1>1. CASE holder = {}
  BY <1>1 DEF DelKey
<1>2. CASE holder # {}
  <2>1. i \in DOMAIN b
    BY <1>2, HolderFound
  <2>2. b[i] \in ElementOf /\ b \in Seq(ElementOf)
    BY <2>1 DEF Buckets
  <2>3. CASE k.der \notin ToSet(b[i].der)
    <3>1. DelKey(b, k) = b
      BY <1>2, <2>3 DEF DelKey
    <3> QED
      BY <3>1
  <2>4. CASE k.der \in ToSet(b[i].der) /\ Len(b[i].der) = 1
    <3>1. DelKey(b, k) = FreeElement(b, i)
      BY <1>2, <2>4 DEF DelKey
    <3> QED
      BY <3>1, <2>1, FreeTyped
  <2>5. CASE k.der \in ToSet(b[i].der) /\ Len(b[i].der) # 1
    <3>1. DelKey(b, k) = [b EXCEPT ![i].der = Shift(@, Min(places))]
      BY <1>2, <2>5 DEF DelKey
    <3>2. places \in SUBSET Nat /\ places # {}
      BY <2>2, <2>5 DEF ElementOf, ToSet
    <3>3. Min(places) \in DOMAIN b[i].der
      BY <3>2, LeastNatural
    <3>4. [b[i] EXCEPT !.der = Shift(@, Min(places))] \in ElementOf
      BY <2>2, <3>3, ShiftTyped
    <3>5. [b EXCEPT ![i].der = Shift(@, Min(places))]
            = [b EXCEPT ![i] = [b[i] EXCEPT !.der = Shift(@, Min(places))]]
      OBVIOUS
    <3> QED
      BY <2>1, <2>2, <3>1, <3>4, <3>5 DEF Buckets
  <2> QED
    BY <2>3, <2>4, <2>5
<1> QED
  BY <1>1, <1>2

LEMMA StoredTyped ==
  ASSUME NEW b \in Buckets
  PROVE  Stored(b) \subseteq Key
<1>1. SUFFICES ASSUME NEW i \in DOMAIN b, NEW d \in ToSet(b[i].der) \ {NoKey}
               PROVE  [asn |-> b[i].asn, ski |-> b[i].ski, der |-> d] \in Key
  BY DEF Stored
<1>2. b[i] \in ElementOf
  BY DEF Buckets
<1>3. PICK j \in DOMAIN b[i].der : b[i].der[j] = d
  BY DEF ToSet
<1> QED
  BY <1>2, <1>3 DEF ElementOf

-----------------------------------------------------------------------------
(* The key storage without collisions.                                     *)

KeyAt(b, i) == [asn |-> b[i].asn, ski |-> b[i].ski, der |-> b[i].der[1]]

LEMMA OrderedStored ==
  ASSUME NEW b, Ordered(b)
  PROVE  /\ b \in Seq(ElementOf) /\ Len(b) \in Nat /\ DOMAIN b = 1 .. Len(b)
         /\ \A i \in DOMAIN b : /\ b[i] \in ElementOf /\ b[i].asn \in Nat
                                /\ KeyAt(b, i) \in Key
                                /\ DOMAIN b[i].der = {1}
                                /\ ToSet(b[i].der) = {b[i].der[1]}
         /\ Stored(b) = {KeyAt(b, i) : i \in DOMAIN b}
<1>1. b \in Seq(ElementOf) /\ Len(b) \in Nat /\ DOMAIN b = 1 .. Len(b)
  BY DEF Ordered, Buckets
<1>2. ASSUME NEW i \in DOMAIN b
      PROVE  /\ b[i] \in ElementOf /\ b[i].asn \in Nat
             /\ KeyAt(b, i) \in Key
             /\ DOMAIN b[i].der = {1}
             /\ ToSet(b[i].der) = {b[i].der[1]}
             /\ b[i].der[1] # NoKey
  <2>1. b[i] \in ElementOf
    BY <1>1
  <2>2. Len(b[i].der) = 1 /\ b[i].der[1] # NoKey
    BY DEF Ordered
  <2>3. b[i].asn \in Nat /\ b[i].der \in Seq({l.der : l \in Key} \cup {NoKey})
    BY <2>1 DEF ElementOf
  <2>4. DOMAIN b[i].der = {1}
    BY <2>2, <2>3
  <2>5. ToSet(b[i].der) = {b[i].der[1]}
    BY <2>4 DEF ToSet
  <2> QED
    BY <2>1, <2>2, <2>3, <2>4, <2>5 DEF ElementOf, KeyAt
<1>3. ASSUME NEW i \in DOMAIN b
      PROVE  {[asn |-> b[i].asn, ski |-> b[i].ski, der |-> d] : d \in ToSet(b[i].der) \ {NoKey}}
               = {KeyAt(b, i)}
  BY <1>2, <1>3 DEF KeyAt
<1>4. Stored(b) = {KeyAt(b, i) : i \in DOMAIN b}
  BY <1>3 DEF Stored
<1> QED
  BY <1>1, <1>2, <1>4

\* Two keys of one AS are one.
LEMMA SameKey ==
  ASSUME OneKeyPerAS, NEW b, Ordered(b), NEW i \in DOMAIN b, NEW k \in Key
  PROVE  /\ b[i].asn = k.asn => KeyAt(b, i) = k /\ Matches(b[i], k) /\ b[i].der[1] = k.der
         /\ KeyAt(b, i) = k => b[i].asn = k.asn
<1>1. KeyAt(b, i) \in Key
  BY OrderedStored
<1>2. /\ KeyAt(b, i).asn = b[i].asn /\ KeyAt(b, i).ski = b[i].ski
      /\ KeyAt(b, i).der = b[i].der[1]
  BY DEF KeyAt
<1>3. b[i].asn = k.asn => KeyAt(b, i) = k
  BY <1>1, <1>2 DEF OneKeyPerAS
<1> QED
  BY <1>2, <1>3 DEF Matches

\* What lies in front of and behind a place of a sequence.
Around(b, i, s, t) ==
  /\ Len(s) = i - 1 /\ \A j \in 1 .. i - 1 : s[j] = b[j]
  /\ Len(t) = Len(b) - i /\ \A j \in 1 .. Len(b) - i : t[j] = b[j + i]

LEMMA AroundPlace ==
  ASSUME NEW S, NEW b \in Seq(S), NEW i \in 1 .. Len(b)
  PROVE  /\ SubSeq(b, 1, i - 1) \in Seq(S) /\ SubSeq(b, i + 1, Len(b)) \in Seq(S)
         /\ Around(b, i, SubSeq(b, 1, i - 1), SubSeq(b, i + 1, Len(b)))
<1>1. Len(b) \in Nat
  OBVIOUS
<1>2. /\ SubSeq(b, 1, i - 1) \in Seq(S) /\ Len(SubSeq(b, 1, i - 1)) = i - 1
      /\ \A j \in 1 .. i - 1 : SubSeq(b, 1, i - 1)[j] = b[j]
  BY <1>1
<1>3. /\ SubSeq(b, i + 1, Len(b)) \in Seq(S) /\ Len(SubSeq(b, i + 1, Len(b))) = Len(b) - i
      /\ \A j \in 1 .. Len(b) - i : SubSeq(b, i + 1, Len(b))[j] = b[j + i]
  BY <1>1
<1> QED
  BY <1>2, <1>3 DEF Around

LEMMA Sizes ==
  ASSUME NEW S, NEW b \in Seq(S), NEW i \in 1 .. Len(b)
  PROVE  \E m, q \in Nat : i = m + 1 /\ Len(b) = m + 1 + q
<1>1. Len(b) \in Nat
  OBVIOUS
<1>2. i - 1 \in Nat /\ Len(b) - i \in Nat /\ i = (i - 1) + 1 /\ Len(b) = (i - 1) + 1 + (Len(b) - i)
  BY <1>1
<1> QED
  BY <1>2

\* r is b without what is at place i.
Removal(S, b, i, r) ==
  /\ r \in Seq(S) /\ DOMAIN r = 1 .. Len(b) - 1
  /\ \A j \in 1 .. Len(b) - 1 : r[j] = IF j < i THEN b[j] ELSE b[j + 1]

LEMMA Removed ==
  ASSUME NEW S, NEW b \in Seq(S), NEW i \in 1 .. Len(b), NEW s \in Seq(S), NEW t \in Seq(S),
         Around(b, i, s, t)
  PROVE  Removal(S, b, i, s \o t)
<1>p. PICK m, q \in Nat : i = m + 1 /\ Len(b) = m + 1 + q
  BY Sizes
<1>1. /\ Len(s) = m /\ \A j \in 1 .. m : s[j] = b[j]
      /\ Len(t) = q /\ \A j \in 1 .. q : t[j] = b[j + (m + 1)]
  <2>1. i - 1 = m /\ Len(b) - i = q
    BY <1>p
  <2> QED
    BY <1>p, <2>1 DEF Around
<1>2. /\ s \o t \in Seq(S) /\ Len(s \o t) = m + q
      /\ \A j \in 1 .. m + q : (s \o t)[j] = IF j <= m THEN s[j] ELSE t[j - m]
  <2>1. /\ s \o t \in Seq(S) /\ Len(s \o t) = Len(s) + Len(t)
        /\ \A j \in 1 .. Len(s) + Len(t) :
             (s \o t)[j] = IF j <= Len(s) THEN s[j] ELSE t[j - Len(s)]
    BY ConcatProperties
  <2> QED
    BY <1>1, <2>1
<1>3. Len(b) - 1 = m + q
  BY <1>p
<1>4. ASSUME NEW j \in 1 .. m + q, j < i PROVE (s \o t)[j] = b[j]
  BY <1>p, <1>1, <1>2, <1>4
<1>5. ASSUME NEW j \in 1 .. m + q, ~(j < i) PROVE (s \o t)[j] = b[j + 1]
  <2>1. PICK l \in 1 .. q : l = j - m /\ l + (m + 1) = j + 1
    <3>1. j - m \in 1 .. q /\ (j - m) + (m + 1) = j + 1
      BY <1>p, <1>5
    <3> QED
      BY <3>1
  <2>2. ~(j <= m)
    BY <1>p, <1>5
  <2>3. (s \o t)[j] = t[l]
    BY <1>2, <2>1, <2>2
  <2> QED
    BY <1>1, <2>1, <2>3
<1>6. DOMAIN (s \o t) = 1 .. Len(b) - 1
  BY <1>2, <1>3
<1> QED
  BY <1>2, <1>3, <1>4, <1>5, <1>6 DEF Removal

LEMMA Extended ==
  ASSUME NEW S, NEW s \in Seq(S), NEW x \in S, NEW y \in S
  PROVE  /\ s \o <<x, y>> \in Seq(S) /\ Len(s \o <<x, y>>) = Len(s) + 2
         /\ \A j \in 1 .. Len(s) : (s \o <<x, y>>)[j] = s[j]
         /\ (s \o <<x, y>>)[Len(s) + 1] = x /\ (s \o <<x, y>>)[Len(s) + 2] = y
<1>0. PICK m \in Nat : m = Len(s)
  OBVIOUS
<1>1. <<x, y>> \in Seq(S) /\ Len(<<x, y>>) = 2 /\ <<x, y>>[1] = x /\ <<x, y>>[2] = y
  OBVIOUS
<1>2. /\ s \o <<x, y>> \in Seq(S) /\ Len(s \o <<x, y>>) = m + 2
      /\ \A j \in 1 .. m + 2 : (s \o <<x, y>>)[j] = IF j <= m THEN s[j] ELSE <<x, y>>[j - m]
  BY <1>0, <1>1, ConcatProperties
<1>3. /\ m + 1 \in 1 .. m + 2 /\ ~(m + 1 <= m) /\ (m + 1) - m = 1
      /\ m + 2 \in 1 .. m + 2 /\ ~(m + 2 <= m) /\ (m + 2) - m = 2
  OBVIOUS
<1>4. (s \o <<x, y>>)[m + 1] = x /\ (s \o <<x, y>>)[m + 2] = y
  BY <1>1, <1>2, <1>3
<1> QED
  BY <1>0, <1>2, <1>4

\* r is b with x put in front of place i, and y for what was there.
Insertion(S, b, i, x, y, r) ==
  /\ r \in Seq(S) /\ DOMAIN r = 1 .. Len(b) + 1
  /\ \A j \in 1 .. Len(b) + 1 : j < i => r[j] = b[j]
  /\ r[i] = x /\ r[i + 1] = y
  /\ \A j \in 1 .. Len(b) + 1 : j > i + 1 => r[j] = b[j - 1]

LEMMA Inserted ==
  ASSUME NEW S, NEW b \in Seq(S), NEW i \in 1 .. Len(b), NEW s \in Seq(S), NEW t \in Seq(S),
         Around(b, i, s, t), NEW x \in S, NEW y \in S, NEW r, r = s \o <<x, y>> \o t
  PROVE  Insertion(S, b, i, x, y, r)
<1>p. PICK m, q \in Nat : i = m + 1 /\ Len(b) = m + 1 + q
  BY Sizes
<1>s. /\ Len(s) = m /\ \A j \in 1 .. m : s[j] = b[j]
      /\ Len(t) = q /\ \A j \in 1 .. q : t[j] = b[j + (m + 1)]
  <2>1. i - 1 = m /\ Len(b) - i = q
    BY <1>p
  <2> QED
    BY <1>p, <2>1 DEF Around
<1>2. PICK n \in Nat : n = m + 2
  OBVIOUS
<1>3. PICK f \in Seq(S) : f = s \o <<x, y>>
  BY Extended
<1>4. /\ Len(f) = n /\ r = f \o t
      /\ \A j \in 1 .. m : f[j] = b[j]
      /\ f[m + 1] = x /\ f[m + 2] = y
  <2>1. /\ Len(f) = Len(s) + 2
        /\ \A j \in 1 .. Len(s) : f[j] = s[j]
        /\ f[Len(s) + 1] = x /\ f[Len(s) + 2] = y
    BY <1>3, Extended
  <2> QED
    BY <1>2, <1>3, <1>s, <2>1
<1>5. /\ r \in Seq(S) /\ Len(r) = n + q
      /\ \A j \in 1 .. n + q : r[j] = IF j <= n THEN f[j] ELSE t[j - n]
  <2>1. Len(f) = n /\ Len(t) = q /\ r = f \o t
    BY <1>4, <1>s
  <2>2. /\ f \o t \in Seq(S) /\ Len(f \o t) = Len(f) + Len(t)
        /\ \A j \in 1 .. Len(f) + Len(t) :
             (f \o t)[j] = IF j <= Len(f) THEN f[j] ELSE t[j - Len(f)]
    BY ConcatProperties
  <2> QED
    BY <2>1, <2>2
<1>6. ASSUME NEW j \in 1 .. n PROVE r[j] = f[j]
  BY <1>5
<1>7. ASSUME NEW j \in m + 3 .. m + 2 + q PROVE r[j] = b[j - 1]
  <2>1. PICK l \in 1 .. q : l = j - n /\ l + (m + 1) = j - 1
    <3>1. j - n \in 1 .. q /\ (j - n) + (m + 1) = j - 1
      BY <1>2
    <3> QED
      BY <3>1
  <2>2. j \in 1 .. n + q /\ ~(j <= n)
    BY <1>2
  <2>3. r[j] = t[l]
    BY <1>5, <2>1, <2>2
  <2> QED
    BY <1>s, <2>1, <2>3
<1>8. Len(b) + 1 = n + q
  BY <1>p, <1>2
<1>9. ASSUME NEW j \in 1 .. Len(b) + 1, j < i PROVE r[j] = b[j]
  <2>1. j \in 1 .. m /\ j \in 1 .. n
    BY <1>p, <1>2, <1>9
  <2> QED
    BY <1>4, <1>6, <2>1
<1>10. r[i] = x /\ r[i + 1] = y
  <2>1. m + 1 \in 1 .. n /\ m + 2 \in 1 .. n /\ i = m + 1 /\ i + 1 = m + 2
    BY <1>p, <1>2
  <2> QED
    BY <1>4, <1>6, <2>1
<1>11. ASSUME NEW j \in 1 .. Len(b) + 1, j > i + 1 PROVE r[j] = b[j - 1]
  <2>1. j \in m + 3 .. m + 2 + q
    BY <1>p, <1>8, <1>2, <1>11
  <2> QED
    BY <1>7, <2>1
<1>12. DOMAIN r = 1 .. Len(b) + 1 /\ Len(r) = Len(b) + 1
  BY <1>5, <1>8
<1> QED
  BY <1>5, <1>12, <1>9, <1>10, <1>11 DEF Insertion
\* A key that is new is put in its place.
LEMMA OrderedInsert ==
  ASSUME OneKeyPerAS, NEW b, Ordered(b), NEW k \in Key, NEW i \in DOMAIN b, b[i].asn > k.asn,
         \A j \in DOMAIN b : j < i => ~(b[j].asn > k.asn) /\ ~Matches(b[j], k)
  PROVE  /\ Ordered(InsertBefore(b, i, k))
         /\ Stored(InsertBefore(b, i, k)) = Stored(b) \cup {k}
<1> DEFINE s == SubSeq(b, 1, i - 1)
           t == SubSeq(b, i + 1, Len(b))
           x == Element(k, b[i].prev)
           y == [b[i] EXCEPT !.prev = TRUE]
           r == InsertBefore(b, i, k)
<1>1. /\ b \in Seq(ElementOf) /\ Len(b) \in Nat /\ DOMAIN b = 1 .. Len(b)
      /\ i \in 1 .. Len(b) /\ b[i] \in ElementOf /\ b[i].prev \in BOOLEAN
      /\ b[i].prev <=> i > 1
  BY OrderedStored DEF Ordered, ElementOf
<1>2. /\ s \in Seq(ElementOf) /\ t \in Seq(ElementOf) /\ Around(b, i, s, t)
  BY <1>1, AroundPlace
<1>3. /\ x \in ElementOf /\ x.asn = k.asn /\ x.ski = k.ski /\ x.der = <<k.der>> /\ x.prev = b[i].prev
  BY <1>1, NewElement
<1>4. y \in ElementOf /\ y.asn = b[i].asn /\ y.ski = b[i].ski /\ y.der = b[i].der /\ y.prev = TRUE
  BY <1>1, PrevSet
<1>5. r = s \o <<x, y>> \o t
  <2>1. CASE i > 1
    BY <1>1, <2>1 DEF InsertBefore
  <2>2. CASE ~(i > 1)
    <3>1. s = <<>>
      <4>1. Len(s) = 0
        BY <1>1, <1>2, <2>2 DEF Around
      <4> QED
        BY <1>2, <4>1, EmptySeq
    <3> QED
      BY <1>1, <2>2, <3>1 DEF InsertBefore
  <2> QED
    BY <2>1, <2>2
<1> HIDE DEF s, t, x, y, r
<1>6. /\ r \in Seq(ElementOf) /\ DOMAIN r = 1 .. Len(b) + 1
      /\ \A j \in 1 .. Len(b) + 1 : j < i => r[j] = b[j]
      /\ r[i] = x /\ r[i + 1] = y
      /\ \A j \in 1 .. Len(b) + 1 : j > i + 1 => r[j] = b[j - 1]
  <2>1. Insertion(ElementOf, b, i, x, y, r)
    BY <1>1, <1>2, <1>3, <1>4, <1>5, Inserted
  <2> QED
    BY <2>1 DEF Insertion
<1>7. ASSUME NEW j \in 1 .. Len(b) + 1
      PROVE  /\ j < i => j \in DOMAIN b /\ r[j] = b[j]
             /\ j = i => r[j] = x
             /\ j > i => /\ j - 1 \in DOMAIN b /\ r[j].asn = b[j - 1].asn
                         /\ r[j].ski = b[j - 1].ski /\ r[j].der = b[j - 1].der
                         /\ r[j].prev = TRUE
  <2>1. CASE j > i + 1
    <3>1. j - 1 \in DOMAIN b /\ j - 1 > 1 /\ ~(j < i) /\ j # i
      BY <1>1, <2>1
    <3>2. r[j] = b[j - 1] /\ b[j - 1].prev \in BOOLEAN /\ (b[j - 1].prev <=> j - 1 > 1)
      BY <1>6, <2>1, <3>1, OrderedStored DEF Ordered, ElementOf
    <3> QED
      BY <3>1, <3>2
  <2>2. CASE j = i + 1
    <3>1. j - 1 = i /\ ~(j < i) /\ j # i
      BY <1>1, <2>2
    <3> QED
      BY <1>4, <1>6, <2>2, <3>1
  <2>3. CASE j <= i
    BY <1>1, <1>6, <2>3
  <2>4. j > i + 1 \/ j = i + 1 \/ j <= i
    BY <1>1
  <2> QED
    BY <2>1, <2>2, <2>3, <2>4
<1>8. ASSUME NEW j \in DOMAIN b, j < i PROVE b[j].asn < k.asn
  BY <1>1, <1>8, OrderedStored, SameKey, KeyIsKey
<1>9. k.asn \in Nat /\ \A j \in DOMAIN b : b[j].asn \in Nat
  BY OrderedStored, KeyIsKey
<1>10. ASSUME NEW j \in 1 .. Len(b) + 1
       PROVE  /\ Len(r[j].der) = 1 /\ r[j].der[1] # NoKey
              /\ r[j].prev <=> j > 1
  <2>1. CASE j < i
    <3>1. j \in DOMAIN b /\ r[j] = b[j]
      BY <1>7, <2>1
    <3> QED
      BY <3>1 DEF Ordered
  <2>2. CASE j = i
    <3>1. r[j] = x /\ x.der = <<k.der>> /\ x.prev = b[i].prev /\ (b[i].prev <=> i > 1)
      BY <1>1, <1>3, <1>7, <2>2
    <3>2. Len(<<k.der>>) = 1 /\ <<k.der>>[1] = k.der
      OBVIOUS
    <3>3. k.der # NoKey
      BY KeyIsKey
    <3> QED
      BY <2>2, <3>1, <3>2, <3>3
  <2>3. CASE j > i
    <3>1. j > 1
      BY <1>1, <2>3
    <3>2. j - 1 \in DOMAIN b /\ r[j].der = b[j - 1].der /\ r[j].prev = TRUE
      BY <1>7, <2>3
    <3> QED
      BY <3>1, <3>2 DEF Ordered
  <2> QED
    BY <1>1, <2>1, <2>2, <2>3
<1>11. ASSUME NEW j \in 1 .. Len(b) + 1, NEW l \in 1 .. Len(b) + 1, j < l
       PROVE  r[j].asn < r[l].asn
  <2>1. CASE l < i
    <3>1. j < i
      BY <1>1, <1>11, <2>1
    <3>2. j \in DOMAIN b /\ l \in DOMAIN b /\ r[j] = b[j] /\ r[l] = b[l]
      BY <1>7, <2>1, <3>1
    <3> QED
      BY <1>11, <3>2 DEF Ordered
  <2>2. CASE l = i
    BY <1>1, <1>3, <1>7, <1>8, <1>11, <2>2
  <2>3. CASE l > i /\ j > i
    <3>1. j - 1 < l - 1 /\ j - 1 \in DOMAIN b /\ l - 1 \in DOMAIN b
      BY <1>1, <1>7, <1>11, <2>3
    <3>2. b[j - 1].asn < b[l - 1].asn
      BY <3>1 DEF Ordered
    <3> QED
      BY <1>7, <2>3, <3>2
  <2>4. CASE l > i /\ j = i
    <3>1. i <= l - 1 /\ l - 1 \in DOMAIN b
      BY <1>1, <1>7, <2>4
    <3>2. b[i].asn <= b[l - 1].asn
      BY <1>1, <1>9, <3>1 DEF Ordered
    <3>3. r[j] = x /\ r[l].asn = b[l - 1].asn
      BY <1>7, <2>4
    <3>4. k.asn < b[l - 1].asn
      BY <1>9, <3>1, <3>2
    <3> QED
      BY <1>3, <3>3, <3>4
  <2>5. CASE l > i /\ j < i
    <3>1. j < l - 1 /\ l - 1 \in DOMAIN b /\ j \in DOMAIN b
      BY <1>1, <1>7, <2>5
    <3>2. b[j].asn < b[l - 1].asn
      BY <3>1 DEF Ordered
    <3> QED
      BY <1>7, <2>5, <3>2
  <2> QED
    BY <1>1, <2>1, <2>2, <2>3, <2>4, <2>5
<1>12. Ordered(r)
  BY <1>6, <1>10, <1>11 DEF Ordered, Buckets
<1>13. ASSUME NEW j \in 1 .. Len(b) + 1
       PROVE  /\ j < i => KeyAt(r, j) = KeyAt(b, j)
              /\ j = i => KeyAt(r, j) = k
              /\ j > i => KeyAt(r, j) = KeyAt(b, j - 1)
  <2>1. j = i => KeyAt(r, j) = k
    <3>1. <<k.der>>[1] = k.der /\ k = [asn |-> k.asn, ski |-> k.ski, der |-> k.der]
      BY KeyIsKey
    <3> QED
      BY <1>3, <1>7, <3>1 DEF KeyAt
  <2> QED
    BY <1>7, <2>1 DEF KeyAt
<1>14. {KeyAt(r, j) : j \in DOMAIN r} \subseteq {KeyAt(b, j) : j \in DOMAIN b} \cup {k}
  <2> SUFFICES ASSUME NEW j \in 1 .. Len(b) + 1
               PROVE  KeyAt(r, j) \in {KeyAt(b, l) : l \in DOMAIN b} \cup {k}
    BY <1>6
  <2> QED
    BY <1>1, <1>7, <1>13
<1>15. k \in {KeyAt(r, j) : j \in DOMAIN r}
  <2>1. i \in DOMAIN r
    BY <1>1, <1>6
  <2> QED
    BY <1>6, <1>13, <2>1
<1>16. ASSUME NEW j \in DOMAIN b PROVE KeyAt(b, j) \in {KeyAt(r, l) : l \in DOMAIN r}
  <2>1. CASE j < i
    <3>1. j \in DOMAIN r
      BY <1>1, <1>6
    <3> QED
      BY <1>6, <1>13, <2>1, <3>1
  <2>2. CASE ~(j < i)
    <3>1. j + 1 \in DOMAIN r /\ j + 1 > i /\ (j + 1) - 1 = j
      BY <1>1, <1>6, <2>2
    <3> QED
      BY <1>6, <1>13, <3>1
  <2> QED
    BY <2>1, <2>2
<1>17. Stored(r) = Stored(b) \cup {k}
  <2>1. Stored(r) = {KeyAt(r, j) : j \in DOMAIN r} /\ Stored(b) = {KeyAt(b, j) : j \in DOMAIN b}
    BY <1>12, OrderedStored
  <2>2. {KeyAt(b, j) : j \in DOMAIN b} \subseteq {KeyAt(r, j) : j \in DOMAIN r}
    BY <1>16
  <2> QED
    BY <1>14, <1>15, <2>1, <2>2
<1> QED
  BY <1>12, <1>17 DEF r

LEMMA OrderedAppend ==
  ASSUME OneKeyPerAS, NEW b, Ordered(b), NEW k \in Key, NEW prev \in BOOLEAN, prev <=> b # <<>>,
         \A j \in DOMAIN b : b[j].asn < k.asn
  PROVE  /\ Ordered(Append(b, Element(k, prev)))
         /\ Stored(Append(b, Element(k, prev))) = Stored(b) \cup {k}
<1> DEFINE x == Element(k, prev)
           r == Append(b, x)
<1>1. b \in Seq(ElementOf) /\ Len(b) \in Nat /\ DOMAIN b = 1 .. Len(b)
  BY OrderedStored
<1>2. x \in ElementOf /\ x.asn = k.asn /\ x.ski = k.ski /\ x.der = <<k.der>> /\ x.prev = prev
  BY NewElement
<1> HIDE DEF x
<1>3. /\ r \in Seq(ElementOf) /\ DOMAIN r = 1 .. Len(b) + 1
      /\ \A j \in DOMAIN b : r[j] = b[j]
      /\ r[Len(b) + 1] = x
  BY <1>1, <1>2
<1>4. prev <=> Len(b) + 1 > 1
  BY <1>1
<1>5. Len(<<k.der>>) = 1 /\ <<k.der>>[1] = k.der /\ k.der # NoKey
  BY KeyIsKey
<1> HIDE DEF r
<1>6. ASSUME NEW j \in DOMAIN r
      PROVE  /\ Len(r[j].der) = 1 /\ r[j].der[1] # NoKey
             /\ r[j].prev <=> j > 1
  <2>1. CASE j \in DOMAIN b
    BY <1>3, <2>1 DEF Ordered
  <2>2. CASE j = Len(b) + 1
    BY <1>2, <1>3, <1>4, <1>5, <2>2
  <2> QED
    BY <1>1, <1>3, <2>1, <2>2
<1>7. ASSUME NEW j \in DOMAIN r, NEW l \in DOMAIN r, j < l PROVE r[j].asn < r[l].asn
  <2>1. j \in DOMAIN b
    BY <1>1, <1>3, <1>7
  <2>2. CASE l \in DOMAIN b
    BY <1>3, <1>7, <2>1, <2>2 DEF Ordered
  <2>3. CASE l = Len(b) + 1
    BY <1>2, <1>3, <2>1, <2>3
  <2> QED
    BY <1>1, <1>3, <2>2, <2>3
<1>8. Ordered(r)
  BY <1>3, <1>6, <1>7 DEF Ordered, Buckets
<1>9. \A j \in DOMAIN b : KeyAt(r, j) = KeyAt(b, j)
  BY <1>3 DEF KeyAt
<1>10. KeyAt(r, Len(b) + 1) = k
  BY <1>2, <1>3, <1>5, KeyIsKey DEF KeyAt
<1>11. DOMAIN r = DOMAIN b \cup {Len(b) + 1}
  BY <1>1, <1>3
<1>12. Stored(r) = {KeyAt(r, j) : j \in DOMAIN r} /\ Stored(b) = {KeyAt(b, j) : j \in DOMAIN b}
  BY <1>8, OrderedStored
<1>13. Stored(r) = Stored(b) \cup {k}
  BY <1>9, <1>10, <1>11, <1>12
<1> QED
  BY <1>8, <1>13 DEF r, x

\* ks_storeKey: the key is found afterwards, and no other one is lost.
LEMMA OrderedStoreKey ==
  ASSUME OneKeyPerAS, NEW b, Ordered(b), NEW k \in Key
  PROVE  Ordered(StoreKey(b, k)) /\ Stored(StoreKey(b, k)) = Stored(b) \cup {k}
<1>1. b \in Seq(ElementOf) /\ b \in Buckets /\ DOMAIN b = 1 .. Len(b) /\ Len(b) \in Nat
  BY OrderedStored DEF Buckets
<1>2. CASE b = <<>>
  <2>1. StoreKey(b, k) = <<Element(k, FALSE)>>
    BY <1>2 DEF StoreKey
  <2>2. \A e : <<e>> = Append(<<>>, e)
    OBVIOUS
  <2>3. StoreKey(b, k) = Append(b, Element(k, FALSE))
    BY <1>2, <2>1, <2>2
  <2>4. \A j \in DOMAIN b : b[j].asn < k.asn
    BY <1>2
  <2> QED
    BY <1>2, <2>3, <2>4, OrderedAppend
<1>3. CASE b # <<>>
  <2> DEFINE i == Stop(b, k)
  <2>1. /\ i \in DOMAIN b
        /\ b[i].asn > k.asn \/ Matches(b[i], k) \/ i = Len(b)
        /\ \A j \in DOMAIN b : j < i => ~(b[j].asn > k.asn) /\ ~Matches(b[j], k)
    BY <1>1, <1>3, StopFound
  <2>2. b[i].asn \in Nat /\ k.asn \in Nat
    BY <2>1, OrderedStored, KeyIsKey
  <2>3. CASE b[i].asn > k.asn
    <3>1. StoreKey(b, k) = InsertBefore(b, i, k)
      BY <1>3, <2>2, <2>3 DEF StoreKey, Matches
    <3> HIDE DEF i
    <3> QED
      BY <2>1, <2>3, <3>1, OrderedInsert
  <2>4. CASE ~(b[i].asn > k.asn) /\ Matches(b[i], k)
    <3>1. KeyAt(b, i) = k /\ b[i].der[1] = k.der
      BY <2>1, <2>4, SameKey DEF Matches
    <3>2. k.der \in ToSet(b[i].der)
      <4>1. ToSet(b[i].der) = {b[i].der[1]}
        BY <2>1, OrderedStored
      <4> QED
        BY <3>1, <4>1
    <3>3. StoreKey(b, k) = b
      BY <1>3, <2>4, <3>2 DEF StoreKey
    <3>4. k \in Stored(b)
      BY <2>1, <3>1, OrderedStored
    <3> QED
      BY <3>3, <3>4
  <2>5. CASE ~(b[i].asn > k.asn) /\ ~Matches(b[i], k)
    <3>1. i = Len(b)
      BY <2>1, <2>5
    <3>2. b[i].asn < k.asn
      <4>1. b[i].asn # k.asn
        BY <2>1, <2>5, SameKey
      <4> QED
        BY <2>2, <2>5, <4>1
    <3>3. ASSUME NEW j \in DOMAIN b PROVE b[j].asn < k.asn
      <4>1. j < i \/ j = i
        BY <1>1, <3>1
      <4>2. j < i => b[j].asn < b[i].asn
        BY <2>1 DEF Ordered
      <4>3. b[j].asn \in Nat
        BY OrderedStored
      <4> QED
        BY <2>2, <3>2, <4>1, <4>2, <4>3
    <3>4. StoreKey(b, k) = Append(b, Element(k, b[i].asn < k.asn))
      BY <1>3, <2>5 DEF StoreKey
    <3>5. StoreKey(b, k) = Append(b, Element(k, TRUE))
      BY <3>2, <3>4
    <3> DEFINE prev == TRUE
    <3>6. prev \in BOOLEAN /\ (prev <=> b # <<>>)
      BY <1>3
    <3>7. StoreKey(b, k) = Append(b, Element(k, prev))
      BY <3>5
    <3> HIDE DEF i, prev
    <3>8. /\ Ordered(Append(b, Element(k, prev)))
          /\ Stored(Append(b, Element(k, prev))) = Stored(b) \cup {k}
      BY <3>3, <3>6, OrderedAppend
    <3> QED
      BY <3>7, <3>8
  <2> QED
    BY <2>3, <2>4, <2>5
<1> QED
  BY <1>2, <1>3

\* _ks_freeKS_Elem: the element is unlinked, and its neighbours stay.
LEMMA OrderedFree ==
  ASSUME NEW b, Ordered(b), NEW i \in DOMAIN b
  PROVE  /\ Ordered(FreeElement(b, i))
         /\ Stored(FreeElement(b, i)) = Stored(b) \ {KeyAt(b, i)}
<1> DEFINE s == SubSeq(b, 1, i - 1)
           t == SubSeq(b, i + 1, Len(b))
           kept == IF t = <<>> THEN t ELSE [t EXCEPT ![1].prev = b[i].prev]
           c == [j \in 1 .. Len(b) |-> IF j = i + 1 THEN [b[j] EXCEPT !.prev = b[i].prev] ELSE b[j]]
           r == FreeElement(b, i)
<1>1. /\ b \in Seq(ElementOf) /\ Len(b) \in Nat /\ DOMAIN b = 1 .. Len(b)
      /\ i \in 1 .. Len(b) /\ b[i] \in ElementOf /\ b[i].prev \in BOOLEAN
      /\ b[i].prev <=> i > 1
  BY OrderedStored DEF Ordered, ElementOf
<1>2. s \in Seq(ElementOf) /\ t \in Seq(ElementOf) /\ Around(b, i, s, t)
  BY <1>1, AroundPlace
<1>3. ASSUME NEW j \in 1 .. Len(b)
      PROVE  /\ c[j] \in ElementOf /\ c[j].asn = b[j].asn /\ c[j].ski = b[j].ski /\ c[j].der = b[j].der
             /\ c[j].prev = IF j = i + 1 THEN b[i].prev ELSE b[j].prev
             /\ j # i + 1 => c[j] = b[j]
  <2>1. b[j] \in ElementOf
    BY <1>1
  <2> QED
    BY <1>1, <2>1, PrevSet
<1>4. c \in Seq(ElementOf) /\ Len(c) = Len(b) /\ DOMAIN c = 1 .. Len(b)
  BY <1>1, <1>3
<1> HIDE DEF c
<1>5. kept \in Seq(ElementOf) /\ Around(c, i, s, kept)
  <2>1. CASE t = <<>>
    <3>1. kept = t /\ Len(t) = 0
      BY <2>1
    <3> HIDE DEF kept, s, t
    <3>2. Len(b) = i
      BY <1>1, <1>2, <3>1 DEF Around
    <3> QED
      BY <1>1, <1>2, <1>3, <1>4, <3>1, <3>2 DEF Around
  <2>2. CASE t # <<>>
    <3>1. kept = [t EXCEPT ![1].prev = b[i].prev]
      BY <2>2
    <3> HIDE DEF s, t
    <3>2. Len(t) = Len(b) - i /\ \A j \in 1 .. Len(b) - i : t[j] = b[j + i]
      BY <1>2 DEF Around
    <3>3. 1 \in DOMAIN t /\ DOMAIN t = 1 .. Len(b) - i
      BY <1>2, <2>2, <3>2
    <3>4. 1 \in 1 .. Len(b) - i /\ 1 + i = i + 1 /\ i + 1 \in 1 .. Len(b)
      BY <1>1, <3>3
    <3>5. t[1] = b[i + 1]
      BY <3>2, <3>4
    <3>6. [b[i + 1] EXCEPT !.prev = b[i].prev] = c[i + 1]
      BY <3>4 DEF c
    <3>7. kept = [t EXCEPT ![1] = c[i + 1]]
      BY <3>1, <3>5, <3>6
    <3> HIDE DEF kept
    <3>8. kept \in Seq(ElementOf) /\ Len(kept) = Len(b) - i
      BY <1>2, <1>3, <3>2, <3>4, <3>7
    <3>9. ASSUME NEW j \in 1 .. Len(b) - i PROVE kept[j] = c[j + i]
      <4>1. CASE j = 1
        BY <3>3, <3>4, <3>7, <4>1
      <4>2. CASE j # 1
        <5>1. j + i \in 1 .. Len(b) /\ j + i # i + 1
          BY <1>1, <4>2
        <5>2. kept[j] = t[j] /\ t[j] = b[j + i]
          BY <3>2, <3>3, <3>7, <4>2
        <5> QED
          BY <1>3, <5>1, <5>2
      <4> QED
        BY <4>1, <4>2
    <3>10. Len(s) = i - 1 /\ \A j \in 1 .. i - 1 : s[j] = b[j]
      BY <1>2 DEF Around
    <3>11. ASSUME NEW j \in 1 .. i - 1 PROVE s[j] = c[j]
      BY <1>1, <1>3, <3>10
    <3> QED
      BY <1>4, <3>8, <3>9, <3>10, <3>11 DEF Around
  <2> QED
    BY <2>1, <2>2
<1>6. r = s \o kept
  <2>1. CASE i > 1
    BY <1>1, <2>1 DEF FreeElement
  <2>2. CASE ~(i > 1)
    <3>1. s = <<>>
      <4>1. Len(s) = 0
        BY <1>1, <1>2, <2>2 DEF Around
      <4> QED
        BY <1>2, <4>1, EmptySeq
    <3> QED
      BY <1>1, <2>2, <3>1 DEF FreeElement
  <2> QED
    BY <2>1, <2>2
<1> HIDE DEF s, t, kept, r
<1>7. i \in 1 .. Len(c)
  BY <1>1, <1>4
<1>8. Removal(ElementOf, c, i, s \o kept)
  BY <1>2, <1>4, <1>5, <1>7, Removed
<1>9. /\ r \in Seq(ElementOf) /\ DOMAIN r = 1 .. Len(b) - 1
      /\ \A j \in 1 .. Len(b) - 1 : r[j] = IF j < i THEN c[j] ELSE c[j + 1]
  BY <1>4, <1>6, <1>8 DEF Removal
<1>10. ASSUME NEW j \in 1 .. Len(b) - 1
       PROVE  /\ j < i => j \in DOMAIN b /\ r[j] = b[j]
              /\ ~(j < i) => /\ j + 1 \in DOMAIN b /\ r[j].asn = b[j + 1].asn
                             /\ r[j].ski = b[j + 1].ski /\ r[j].der = b[j + 1].der
                             /\ r[j].prev <=> j > 1
  <2>1. CASE j < i
    <3>1. j \in 1 .. Len(b) /\ j # i + 1
      BY <1>1, <2>1
    <3> QED
      BY <1>1, <1>3, <1>9, <2>1, <3>1
  <2>2. CASE ~(j < i)
    <3>1. j + 1 \in 1 .. Len(b) /\ j + 1 > 1 /\ (j + 1 = i + 1 => j = i) /\ (j + 1 # i + 1 => j > 1)
      BY <1>1, <2>2
    <3>2. r[j] = c[j + 1]
      BY <1>9, <2>2
    <3>3. b[j + 1].prev <=> j + 1 > 1
      BY <1>1, <3>1 DEF Ordered
    <3>4. c[j + 1].prev <=> j > 1
      <4>1. CASE j + 1 = i + 1
        BY <1>1, <1>3, <3>1, <4>1
      <4>2. CASE j + 1 # i + 1
        BY <1>3, <3>1, <3>3, <4>2
      <4> QED
        BY <4>1, <4>2
    <3> QED
      BY <1>1, <1>3, <2>2, <3>1, <3>2, <3>4
  <2> QED
    BY <2>1, <2>2
<1>11. ASSUME NEW j \in 1 .. Len(b) - 1
       PROVE  /\ Len(r[j].der) = 1 /\ r[j].der[1] # NoKey
              /\ r[j].prev <=> j > 1
  <2>1. CASE j < i
    <3>1. j \in DOMAIN b /\ r[j] = b[j]
      BY <1>10, <2>1
    <3> QED
      BY <3>1 DEF Ordered
  <2>2. CASE ~(j < i)
    <3>1. j + 1 \in DOMAIN b /\ r[j].der = b[j + 1].der /\ (r[j].prev <=> j > 1)
      BY <1>10, <2>2
    <3> QED
      BY <3>1 DEF Ordered
  <2> QED
    BY <2>1, <2>2
<1>12. ASSUME NEW j \in 1 .. Len(b) - 1, NEW l \in 1 .. Len(b) - 1, j < l
       PROVE  r[j].asn < r[l].asn
  <2>1. CASE l < i
    <3>1. j < i
      BY <1>1, <1>12, <2>1
    <3>2. j \in DOMAIN b /\ l \in DOMAIN b /\ r[j] = b[j] /\ r[l] = b[l]
      BY <1>10, <2>1, <3>1
    <3> QED
      BY <1>12, <3>2 DEF Ordered
  <2>2. CASE ~(l < i) /\ j < i
    <3>1. j \in DOMAIN b /\ l + 1 \in DOMAIN b /\ r[j] = b[j] /\ r[l].asn = b[l + 1].asn
      BY <1>10, <2>2
    <3>2. j < l + 1
      BY <1>12
    <3> QED
      BY <3>1, <3>2 DEF Ordered
  <2>3. CASE ~(l < i) /\ ~(j < i)
    <3>1. /\ j + 1 \in DOMAIN b /\ l + 1 \in DOMAIN b
          /\ r[j].asn = b[j + 1].asn /\ r[l].asn = b[l + 1].asn
      BY <1>10, <2>3
    <3>2. j + 1 < l + 1
      BY <1>12
    <3> QED
      BY <3>1, <3>2 DEF Ordered
  <2> QED
    BY <2>1, <2>2, <2>3
<1>13. Ordered(r)
  BY <1>9, <1>11, <1>12 DEF Ordered, Buckets
<1>14. ASSUME NEW j \in 1 .. Len(b) - 1
       PROVE  KeyAt(r, j) = IF j < i THEN KeyAt(b, j) ELSE KeyAt(b, j + 1)
  BY <1>10 DEF KeyAt
<1>15. ASSUME NEW j \in DOMAIN b, j # i PROVE KeyAt(b, j) # KeyAt(b, i)
  <2>1. b[j].asn # b[i].asn
    <3>1. j < i \/ i < j
      BY <1>1, <1>15
    <3>2. b[j].asn < b[i].asn \/ b[i].asn < b[j].asn
      BY <3>1 DEF Ordered
    <3>3. b[j].asn \in Nat /\ b[i].asn \in Nat
      BY OrderedStored
    <3> QED
      BY <3>2, <3>3
  <2> QED
    BY <2>1 DEF KeyAt
<1>16. ASSUME NEW j \in 1 .. Len(b) - 1 PROVE KeyAt(r, j) \in {KeyAt(b, l) : l \in DOMAIN b} \ {KeyAt(b, i)}
  <2>1. CASE j < i
    <3>1. j \in DOMAIN b /\ j # i
      BY <1>1, <2>1
    <3> QED
      BY <1>14, <1>15, <2>1, <3>1
  <2>2. CASE ~(j < i)
    <3>1. j + 1 \in DOMAIN b /\ j + 1 # i
      BY <1>1, <2>2
    <3> QED
      BY <1>14, <1>15, <2>2, <3>1
  <2> QED
    BY <2>1, <2>2
<1>17. ASSUME NEW j \in DOMAIN b, j # i PROVE KeyAt(b, j) \in {KeyAt(r, l) : l \in DOMAIN r}
  <2>1. CASE j < i
    <3>1. j \in 1 .. Len(b) - 1
      BY <1>1, <2>1
    <3> QED
      BY <1>9, <1>14, <2>1, <3>1
  <2>2. CASE ~(j < i)
    <3>1. PICK l \in 1 .. Len(b) - 1 : l + 1 = j /\ ~(l < i)
      <4>1. j - 1 \in 1 .. Len(b) - 1 /\ (j - 1) + 1 = j /\ ~(j - 1 < i)
        BY <1>1, <1>17, <2>2
      <4> QED
        BY <4>1
    <3> QED
      BY <1>9, <1>14, <3>1
  <2> QED
    BY <2>1, <2>2
<1>18. Stored(r) = Stored(b) \ {KeyAt(b, i)}
  <2>1. Stored(r) = {KeyAt(r, j) : j \in DOMAIN r} /\ Stored(b) = {KeyAt(b, j) : j \in DOMAIN b}
    BY <1>13, OrderedStored
  <2>2. Stored(r) \subseteq Stored(b) \ {KeyAt(b, i)}
    BY <1>9, <1>16, <2>1
  <2>3. Stored(b) \ {KeyAt(b, i)} \subseteq Stored(r)
    BY <1>17, <2>1
  <2> QED
    BY <2>2, <2>3
<1> QED
  BY <1>13, <1>18 DEF r

\* Sorted elements are found.
LEMMA HeldBy ==
  ASSUME NEW b, Ordered(b), NEW j \in DOMAIN b, NEW k, KeyAt(b, j) = k
  PROVE  /\ j \in Holder(b, k.asn, k.ski)
         /\ b[j].asn = k.asn /\ b[j].ski = k.ski /\ b[j].der[1] = k.der
<1>1. b[j].asn = k.asn /\ b[j].ski = k.ski /\ b[j].der[1] = k.der
  BY DEF KeyAt
<1>2. ASSUME NEW l \in 1 .. j - 1 PROVE b[l].asn <= k.asn
  <2>1. l \in DOMAIN b /\ l < j
    BY OrderedStored
  <2>2. b[l].asn < b[j].asn /\ b[l].asn \in Nat /\ b[j].asn \in Nat
    BY <2>1, OrderedStored DEF Ordered
  <2> QED
    BY <1>1, <2>2
<1> QED
  BY <1>1, <1>2 DEF Holder

\* ks_delKey: the key is gone, and no other one is lost.
LEMMA OrderedDelKey ==
  ASSUME OneKeyPerAS, NEW b, Ordered(b), NEW k \in Key
  PROVE  Ordered(DelKey(b, k)) /\ Stored(DelKey(b, k)) = Stored(b) \ {k}
<1> DEFINE holder == Holder(b, k.asn, k.ski)
           i == Min(holder)
<1>1. b \in Buckets
  BY DEF Ordered
<1>2. CASE holder = {}
  <2>1. DelKey(b, k) = b
    BY <1>2 DEF DelKey
  <2>2. ASSUME k \in Stored(b) PROVE FALSE
    <3>1. PICK j \in DOMAIN b : KeyAt(b, j) = k
      BY <2>2, OrderedStored
    <3>2. j \in holder
      BY <3>1, HeldBy
    <3> QED
      BY <1>2, <3>2
  <2> QED
    BY <2>1, <2>2
<1>3. CASE holder # {}
  <2>1. i \in DOMAIN b /\ b[i].asn = k.asn /\ b[i].ski = k.ski
    BY <1>1, <1>3, HolderFound
  <2>2. KeyAt(b, i) = k /\ b[i].der[1] = k.der
    BY <2>1, SameKey
  <2>3. k.der \in ToSet(b[i].der) /\ Len(b[i].der) = 1
    <3> HIDE DEF i
    <3>1. ToSet(b[i].der) = {b[i].der[1]} /\ Len(b[i].der) = 1
      BY <2>1, OrderedStored DEF Ordered
    <3> QED
      BY <2>2, <3>1
  <2>4. DelKey(b, k) = FreeElement(b, i)
    BY <1>3, <2>3 DEF DelKey
  <2> HIDE DEF i
  <2> QED
    BY <2>1, <2>2, <2>4, OrderedFree
<1> QED
  BY <1>2, <1>3

\* No array of keys has a gap that storing or deleting would run into.
LEMMA NeverNull ==
  ASSUME NEW b, Ordered(b), NEW k \in Key
  PROVE  ~ReadsNull(b, k)
<1>1. SUFFICES ASSUME NEW i \in DOMAIN b, NEW j \in DOMAIN b[i].der, b[i].der[j] = NoKey
               PROVE  FALSE
  BY DEF ReadsNull, Holder
<1>2. DOMAIN b[i].der = {1} /\ b[i].der[1] # NoKey
  BY OrderedStored DEF Ordered
<1> QED
  BY <1>1, <1>2

\* validate() accepts exactly the signatures made with keys of the storage.
LEMMA VerifyStored ==
  ASSUME NEW b, Ordered(b), NEW S,
         \A s \in S : s = [asn |-> s.asn, ski |-> s.ski, der |-> s.der]
  PROVE  Verify(b, S) <=> S \subseteq Stored(b)
<1>1. ASSUME NEW s \in S,
             NEW i \in Holder(b, s.asn, s.ski), NEW j \in DOMAIN b[i].der, b[i].der[j] = s.der
      PROVE  s \in Stored(b)
  <2>1. i \in DOMAIN b /\ b[i].asn = s.asn /\ b[i].ski = s.ski
    BY DEF Holder
  <2>2. DOMAIN b[i].der = {1}
    BY <2>1, OrderedStored
  <2>3. KeyAt(b, i) = s
    BY <1>1, <2>1, <2>2 DEF KeyAt
  <2> QED
    BY <2>1, <2>3, OrderedStored
<1>2. ASSUME NEW s \in Stored(b)
      PROVE  \E i \in Holder(b, s.asn, s.ski) :
               \E j \in DOMAIN b[i].der :
                 b[i].der[j] = s.der /\ \A l \in 1 .. j - 1 : b[i].der[l] = NoKey
  <2>1. PICK i \in DOMAIN b : KeyAt(b, i) = s
    BY OrderedStored
  <2>2. i \in Holder(b, s.asn, s.ski) /\ b[i].der[1] = s.der
    BY <2>1, HeldBy
  <2>3. 1 \in DOMAIN b[i].der /\ \A l \in 1 .. 1 - 1 : b[i].der[l] = NoKey
    BY OrderedStored
  <2> QED
    BY <2>2, <2>3
<1> QED
  BY <1>1, <1>2 DEF Verify

-----------------------------------------------------------------------------
(* Types, and what is known of updates that were never requested.          *)

Unrequested(u) ==
  /\ holds[u] = {} /\ requests[u] = 0 /\ handling.update # u
  /\ result[u] = "UNDEFINED" /\ computed[u] = "UNDEFINED"
  /\ \A c \in Client : told[c][u] = "UNDEFINED"
  /\ \A n \in Name : uid[n][u] = 0
  /\ queue[u] = {}

KTyped ==
  /\ TypeOK
  /\ bucket \in Buckets
  /\ \A u \in Update \ stored : Unrequested(u)

LEMMA Constants ==
  /\ CounterMod \in Nat \ {0} /\ MaxRequests \in Nat \ {0} /\ None \notin Update
  /\ \A k \in Key : MaxCount[k] \in Nat /\ NameOf(k) \in Name
  /\ \A u \in Update :
       /\ Path[u] \in Seq(Nat) /\ Len(Path[u]) \in Nat \ {0}
       /\ DOMAIN Path[u] = 1 .. Len(Path[u])
       /\ Len(Blocks[u]) \in Nat /\ DOMAIN Blocks[u] = 1 .. Len(Blocks[u])
       /\ \A b \in DOMAIN Blocks[u] : Len(Blocks[u][b].ski) = Len(Path[u])
<1>1. CounterMod \in Nat \ {0} /\ MaxRequests \in Nat \ {0} /\ None \notin Update
  BY KeyAssumption
<1>2. ASSUME NEW k \in Key PROVE MaxCount[k] \in Nat /\ NameOf(k) \in Name
  <2>1. MaxCount[k] \in Nat
    BY KeyAssumption
  <2>2. NameOf(k) \in {NameOf(l) : l \in Key}
    OBVIOUS
  <2> DEFINE entered == UNION {{NameAt(u, s[1], s[2], o) : s \in Segments(u),
                                  o \in 0 .. Len(Blocks[u]) * Len(Path[u]) - 1} : u \in Update}
  <2>3. Name = {NameOf(l) : l \in Key} \cup entered
    BY DEF Name
  <2> HIDE DEF entered
  <2> QED
    BY <2>1, <2>2, <2>3
<1>3. ASSUME NEW u \in Update
      PROVE  /\ Path[u] \in Seq(Nat) /\ Len(Path[u]) \in Nat \ {0}
             /\ DOMAIN Path[u] = 1 .. Len(Path[u])
  <2>1. Path[u] \in Seq(Nat) /\ Path[u] # <<>>
    BY KeyAssumption

  <2> QED
    BY <2>1
<1>4. ASSUME NEW u \in Update
      PROVE  Len(Blocks[u]) \in Nat /\ DOMAIN Blocks[u] = 1 .. Len(Blocks[u])
  <2>1. Blocks[u] \in Seq(Range(Blocks[u]))
    BY KeyAssumption
  <2> QED
    BY <2>1
<1>5. ASSUME NEW u \in Update, NEW b \in DOMAIN Blocks[u]
      PROVE  Len(Blocks[u][b].ski) = Len(Path[u])
  BY KeyAssumption
<1> QED
  BY <1>1, <1>2, <1>3, <1>4, <1>5

LEMMA SegmentsFinite ==
  ASSUME NEW u \in Update, NEW S \in SUBSET Segments(u)
  PROVE  IsFiniteSet(S) /\ Cardinality(S) \in Nat /\ (S # {} => Cardinality(S) > 0)
<1>1. IsFiniteSet(0 .. Len(Blocks[u]) - 1) /\ IsFiniteSet(0 .. Len(Path[u]) - 1)
  <2>1. 0 \in Int /\ Len(Blocks[u]) - 1 \in Int /\ Len(Path[u]) - 1 \in Int
    BY Constants
  <2> QED
    BY <2>1, FS_Interval
<1>2. IsFiniteSet(Segments(u))
  BY <1>1, FS_Product DEF Segments
<1>3. IsFiniteSet(S)
  BY <1>2, FS_Subset
<1> QED
  BY <1>3, FS_CardinalityType, FS_EmptySet

LEMMA PlacesAreNat ==
  ASSUME NEW u \in Update, NEW n \in Name
  PROVE  Entered[u][n] \in Nat /\ TakenOut[u][n] \in Nat
<1>1. Cardinality({s \in Segments(u) : NameAt(u, s[1], s[2], s[2] + s[2] * s[1]) = n}) \in Nat
  BY SegmentsFinite
<1>2. Cardinality({s \in Segments(u) : NameAt(u, s[1], s[2], s[1] * Len(Path[u]) + s[2]) = n}) \in Nat
  BY SegmentsFinite
<1> QED
  BY <1>1, <1>2 DEF Entered, TakenOut

-----------------------------------------------------------------------------
(* What the server's types say, one step after the other.                  *)

LEMMA UidTyped ==
  ASSUME TypeOK, NEW u \in Update
  PROVE  /\ ski_registerUpdate(u) => uid' \in [Name -> [Update -> Nat]]
         /\ ski_unregisterUpdate(u) => uid' \in [Name -> [Update -> Nat]]
<1>1. ASSUME NEW n \in Name
      PROVE  /\ uid[n] \in [Update -> Nat]
             /\ Entered[u][n] \in Nat /\ TakenOut[u][n] \in Nat
  BY PlacesAreNat DEF TypeOK
<1>2. ASSUME NEW n \in Name
      PROVE  [uid[n] EXCEPT ![u] = @ + Entered[u][n]] \in [Update -> Nat]
  BY <1>1
<1>3. ASSUME NEW n \in Name
      PROVE  [uid[n] EXCEPT ![u] = IF @ > TakenOut[u][n] THEN @ - TakenOut[u][n] ELSE 0] \in [Update -> Nat]
  BY <1>1
<1> QED
  BY <1>2, <1>3 DEF ski_registerUpdate, ski_unregisterUpdate

LEMMA QueueTyped ==
  ASSUME TypeOK, NEW r \in Reason
  PROVE  /\ \A u \in Update : Queued(queue[u], r) \in SUBSET Reason
         /\ \A U : QueueKey(U) => queue' \in [Update -> SUBSET Reason]
  BY DEF TypeOK, Queued, QueueKey, Reason

LEMMA CounterTyped ==
  ASSUME TypeOK, NEW n \in Name
  PROVE  /\ ski_registerKey(n) => counter' \in [Name -> 0 .. CounterMod - 1]
         /\ ski_unregisterKey(n) => counter' \in [Name -> 0 .. CounterMod - 1]
<1>1. counter \in [Name -> 0 .. CounterMod - 1] /\ CounterMod \in Nat \ {0}
  BY Constants DEF TypeOK
<1>2. (counter[n] + 1) % CounterMod \in 0 .. CounterMod - 1
  BY <1>1
<1>3. counter[n] # 0 => counter[n] - 1 \in 0 .. CounterMod - 1
  BY <1>1
<1>4. 0 \in 0 .. CounterMod - 1
  BY <1>1
<1> QED
  BY <1>1, <1>2, <1>3, <1>4 DEF ski_registerKey, ski_unregisterKey

LEMMA AnswersTyped ==
  ASSUME TypeOK, NEW u \in Update
  PROVE  /\ validateSignature(u) \in Result
         /\ \A r \in Result : Tell(u, r) \in [Client -> [Update -> Result]]
  BY DEF TypeOK, validateSignature, Tell, Result

LEMMA KTypedInit == Init => KTyped
<1> SUFFICES ASSUME Init PROVE KTyped
  OBVIOUS
<1>1. bucket \in Buckets
  BY DEF Init, Buckets
<1>2. Stored(bucket) \subseteq Key
  BY <1>1, StoredTyped
<1>3. counter \in [Name -> 0 .. CounterMod - 1] /\ requests \in [Update -> 0 .. MaxRequests]
  BY Constants DEF Init
<1>4. TypeOK
  BY <1>2, <1>3 DEF Init, TypeOK, Reason, Result, Idle
<1>5. ASSUME NEW u \in Update PROVE Unrequested(u)
  BY Constants DEF Init, Unrequested, Idle
<1> QED
  BY <1>1, <1>4, <1>5 DEF KTyped

\* What stays of an update that was not requested, when nothing of it changes.
LEMMA UnrequestedStays ==
  ASSUME NEW u \in Update, Unrequested(u),
         holds'[u] = holds[u], requests'[u] = requests[u], handling'.update # u,
         result'[u] = result[u], computed'[u] = computed[u],
         \A c \in Client : told'[c][u] = told[c][u],
         \A n \in Name : uid'[n][u] = uid[n][u],
         queue'[u] = queue[u]
  PROVE  Unrequested(u)'
  BY DEF Unrequested


LEMMA KTypedRequestNew ==
  ASSUME KTyped, NEW c \in Client, NEW u \in Update, RequestNew(c, u)
  PROVE  KTyped'
<1>1. TypeOK /\ Unrequested(u) /\ MaxRequests \in Nat \ {0}
  BY Constants DEF KTyped, RequestNew
<1>2. uid' \in [Name -> [Update -> Nat]]
  BY <1>1, UidTyped DEF RequestNew
<1>3. requests' \in [Update -> 0 .. MaxRequests]
  <2>1. requests[u] + 1 \in 0 .. MaxRequests
    BY <1>1 DEF Unrequested
  <2> QED
    BY <1>1, <2>1 DEF RequestNew, TypeOK
<1>4. TypeOK'
  BY <1>1, <1>2, <1>3 DEF RequestNew, TypeOK, keys
<1>5. ASSUME NEW v \in Update \ stored' PROVE Unrequested(v)'
  <2>1. v # u /\ Unrequested(v)
    BY DEF RequestNew, KTyped
  <2>2. ASSUME NEW n \in Name PROVE uid'[n][v] = uid[n][v]
    BY <2>1, <1>1 DEF RequestNew, ski_registerUpdate, TypeOK
  <2>3. holds'[v] = holds[v] /\ requests'[v] = requests[v]
    BY <2>1, <1>1 DEF RequestNew, TypeOK
  <2> QED
    BY <2>1, <2>2, <2>3, UnrequestedStays DEF RequestNew, Unrequested
<1> QED
  BY <1>4, <1>5 DEF KTyped, RequestNew, keys

LEMMA KTypedRequestKnown ==
  ASSUME KTyped, NEW c \in Client, NEW u \in Update, RequestKnown(c, u)
  PROVE  KTyped'
<1>1. TypeOK /\ MaxRequests \in Nat
  BY Constants DEF KTyped
<1>2. requests' \in [Update -> 0 .. MaxRequests]
  <2>1. requests[u] + 1 \in 0 .. MaxRequests
    BY <1>1 DEF RequestKnown, TypeOK
  <2> QED
    BY <1>1, <2>1 DEF RequestKnown, TypeOK
<1>3. TypeOK'
  BY <1>1, <1>2 DEF RequestKnown, TypeOK, keys, cache
<1>4. ASSUME NEW v \in Update \ stored' PROVE Unrequested(v)'
  <2>1. v # u /\ Unrequested(v)
    BY DEF RequestKnown, KTyped
  <2>2. holds'[v] = holds[v] /\ requests'[v] = requests[v]
    BY <2>1, <1>1 DEF RequestKnown, TypeOK
  <2>3. \A d \in Client : told'[d][v] = told[d][v]
    BY <2>1, <1>1 DEF RequestKnown, TypeOK
  <2> QED
    BY <2>1, <2>2, <2>3, UnrequestedStays DEF RequestKnown, Unrequested, cache
<1> QED
  BY <1>3, <1>4 DEF KTyped, RequestKnown, keys

LEMMA KTypedDeleteUpdate ==
  ASSUME KTyped, NEW c \in Client, NEW u \in Update, DeleteUpdate(c, u)
  PROVE  KTyped'
<1>1. TypeOK
  BY DEF KTyped
<1>2. uid' \in [Name -> [Update -> Nat]]
  BY <1>1, UidTyped DEF DeleteUpdate
<1>3. TypeOK'
  BY <1>1, <1>2 DEF DeleteUpdate, TypeOK, keys
<1>4. ASSUME NEW v \in Update \ stored' PROVE Unrequested(v)'
  <2>1. v # u /\ Unrequested(v)
    BY DEF DeleteUpdate, KTyped, Unrequested
  <2>2. ASSUME NEW n \in Name PROVE uid'[n][v] = uid[n][v]
    BY <2>1, <1>1 DEF DeleteUpdate, ski_unregisterUpdate, TypeOK
  <2>3. holds'[v] = holds[v]
    BY <2>1, <1>1 DEF DeleteUpdate, TypeOK
  <2> QED
    BY <2>1, <2>2, <2>3, UnrequestedStays DEF DeleteUpdate, Unrequested
<1> QED
  BY <1>3, <1>4 DEF KTyped, DeleteUpdate, keys

LEMMA KTypedValidation ==
  ASSUME KTyped, NEW u \in Update, SkipValidation(u) \/ BeginValidation(u)
  PROVE  KTyped'
<1>1. TypeOK /\ MaxRequests \in Nat /\ validateSignature(u) \in Result
  BY Constants, AnswersTyped DEF KTyped
<1>2. ~Unrequested(u)
  BY <1>1 DEF SkipValidation, BeginValidation, Unrequested
<1>3. requests' \in [Update -> 0 .. MaxRequests]
  <2>1. requests[u] - 1 \in 0 .. MaxRequests
    BY <1>1 DEF SkipValidation, BeginValidation, TypeOK
  <2> QED
    BY <1>1, <2>1 DEF SkipValidation, BeginValidation, TypeOK
<1>4. TypeOK'
  <2>1. computed' \in [Update -> Result]
    BY <1>1 DEF SkipValidation, BeginValidation, TypeOK
  <2>2. handling' \in [update : Update \cup {None}, result : Result]
    <3>1. CASE SkipValidation(u)
      BY <1>1, <3>1 DEF SkipValidation, TypeOK
    <3>2. CASE BeginValidation(u)
      BY <1>1, <3>2 DEF BeginValidation
    <3> QED
      BY <3>1, <3>2
  <2> QED
    BY <1>1, <1>3, <2>1, <2>2 DEF SkipValidation, BeginValidation, TypeOK, keys, cache
<1>5. ASSUME NEW v \in Update \ stored' PROVE Unrequested(v)'
  <2>1. v # u /\ Unrequested(v)
    BY <1>2 DEF SkipValidation, BeginValidation, KTyped
  <2>2. requests'[v] = requests[v] /\ computed'[v] = computed[v] /\ handling'.update # v
    BY <2>1, <1>1 DEF SkipValidation, BeginValidation, TypeOK, Unrequested
  <2> QED
    BY <2>1, <2>2, UnrequestedStays DEF SkipValidation, BeginValidation, cache
<1> QED
  BY <1>4, <1>5 DEF KTyped, SkipValidation, BeginValidation, keys

LEMMA ToldElsewhere ==
  ASSUME TypeOK, NEW u \in Update, NEW v \in Update, v # u, NEW r, NEW c \in Client
  PROVE  Tell(u, r)[c][v] = told[c][v]
BY DEF Tell, TypeOK

LEMMA KTypedFinishValidation ==
  ASSUME KTyped, FinishValidation
  PROVE  KTyped'
<1>1. /\ TypeOK /\ handling.update \in Update /\ handling.result \in Result
      /\ ~Unrequested(handling.update)
  BY DEF KTyped, TypeOK, FinishValidation, Unrequested
<1>2. /\ told' \in [Client -> [Update -> Result]]
      /\ result' \in [Update -> Result]
      /\ handling' \in [update : Update \cup {None}, result : Result]
  BY <1>1, AnswersTyped DEF FinishValidation, TypeOK, Idle, Result
<1>3. TypeOK'
  BY <1>1, <1>2 DEF FinishValidation, TypeOK, keys, cache
<1>4. ASSUME NEW v \in Update \ stored' PROVE Unrequested(v)'
  <2>1. v # handling.update /\ Unrequested(v)
    BY <1>1 DEF FinishValidation, KTyped
  <2>2. result'[v] = result[v] /\ handling'.update # v /\ \A c \in Client : told'[c][v] = told[c][v]
    BY <2>1, <1>1, ToldElsewhere, Constants DEF FinishValidation, TypeOK, Idle
  <2> QED
    BY <2>1, <2>2, UnrequestedStays DEF FinishValidation, cache
<1> QED
  BY <1>3, <1>4 DEF KTyped, FinishValidation, keys

LEMMA KTypedAnnounceKey ==
  ASSUME KTyped, NEW k \in Key, AnnounceKey(k) \/ WithdrawKey(k)
  PROVE  KTyped'
<1>1. TypeOK /\ NameOf(k) \in Name /\ "KEY" \in Reason
  BY Constants DEF KTyped, Reason
<1>2. bucket' \in Buckets
  BY StoreTyped, DelTyped DEF AnnounceKey, WithdrawKey, KTyped
<1>3. Stored(bucket') \subseteq Key
  BY <1>2, StoredTyped
<1>4. counter' \in [Name -> 0 .. CounterMod - 1]
  BY <1>1, CounterTyped DEF AnnounceKey, WithdrawKey, TypeOK
<1>5. queue' \in [Update -> SUBSET Reason]
  BY <1>1, QueueTyped DEF AnnounceKey, WithdrawKey, TypeOK, ski_registerKey, ski_unregisterKey
<1>6. inForce' \subseteq Key /\ up' \in BOOLEAN
  BY <1>1 DEF AnnounceKey, WithdrawKey, TypeOK
<1>7. TypeOK'
  BY <1>1, <1>3, <1>4, <1>5, <1>6 DEF AnnounceKey, WithdrawKey, TypeOK, paths
<1>8. ASSUME NEW v \in Update \ stored' PROVE Unrequested(v)'
  <2>1. Unrequested(v)
    BY DEF AnnounceKey, WithdrawKey, KTyped, paths
  <2>2. v \notin Users(NameOf(k))
    BY <1>1, <2>1 DEF Unrequested, Users
  <2>3. queue'[v] = queue[v]
    BY <1>1, <2>2 DEF AnnounceKey, WithdrawKey, ski_registerKey, ski_unregisterKey, QueueKey
  <2> QED
    BY <2>1, <2>3 DEF AnnounceKey, WithdrawKey, paths, Unrequested
<1> QED
  BY <1>2, <1>7, <1>8 DEF KTyped

LEMMA KTypedQueueRoa ==
  ASSUME KTyped, NEW u \in Update, QueueRoa(u)
  PROVE  KTyped'
<1>1. TypeOK /\ "ROA" \in Reason
  BY DEF KTyped, Reason
<1>2. queue' \in [Update -> SUBSET Reason]
  <2>1. Queued(queue[u], "ROA") \in SUBSET Reason
    BY <1>1, QueueTyped
  <2> QED
    BY <1>1, <2>1 DEF QueueRoa, TypeOK
<1>3. TypeOK'
  BY <1>1, <1>2 DEF QueueRoa, TypeOK, keys, cache, paths
<1>4. ASSUME NEW v \in Update \ stored' PROVE Unrequested(v)'
  BY <1>1, UnrequestedStays DEF QueueRoa, KTyped, TypeOK, cache, paths, Unrequested
<1> QED
  BY <1>3, <1>4 DEF KTyped, QueueRoa, keys

LEMMA KTypedEndOfData ==
  ASSUME KTyped, EndOfData
  PROVE  KTyped'
BY DEF KTyped, EndOfData, TypeOK, Unrequested, keys, cache, paths

LEMMA KTypedRevalidate ==
  ASSUME KTyped, NEW u \in Update, Revalidate(u)
  PROVE  KTyped'
<1>1. TypeOK /\ validateSignature(u) \in Result /\ ~Unrequested(u)
  BY AnswersTyped DEF KTyped, Revalidate, Unrequested
<1>2. queue' \in [Update -> SUBSET Reason] /\ draining' \in BOOLEAN
  BY <1>1 DEF Revalidate, TypeOK
<1>3. computed' \in [Update -> Result]
  BY <1>1 DEF Revalidate, TypeOK
<1>4. told' \in [Client -> [Update -> Result]]
  <2>1. Tell(u, validateSignature(u)) \in [Client -> [Update -> Result]]
    BY <1>1, AnswersTyped
  <2> QED
    BY <1>1, <2>1 DEF Revalidate, TypeOK
<1>5. TypeOK'
  BY <1>1, <1>2, <1>3, <1>4 DEF Revalidate, TypeOK, keys, cache
<1>6. ASSUME NEW v \in Update \ stored' PROVE Unrequested(v)'
  <2>1. v # u /\ Unrequested(v)
    BY <1>1 DEF Revalidate, KTyped
  <2>2. queue'[v] = queue[v] /\ computed'[v] = computed[v]
    BY <2>1, <1>1 DEF Revalidate, TypeOK
  <2>3. \A c \in Client : told'[c][v] = told[c][v]
    BY <2>1, <1>1, ToldElsewhere DEF Revalidate
  <2> QED
    BY <2>1, <2>2, <2>3, UnrequestedStays DEF Revalidate, Unrequested, cache
<1> QED
  BY <1>5, <1>6 DEF KTyped, Revalidate, keys

LEMMA KTypedNext ==
  ASSUME KTyped, [Next]_vars
  PROVE  KTyped'
<1>1. CASE vars' = vars
  BY <1>1 DEF vars, keys, cache, paths, KTyped, TypeOK, Unrequested
<1>2. CASE \E c \in Client, u \in Update : RequestNew(c, u) \/ RequestKnown(c, u) \/ DeleteUpdate(c, u)
  BY <1>2, KTypedRequestNew, KTypedRequestKnown, KTypedDeleteUpdate
<1>3. CASE \E u \in Update : SkipValidation(u) \/ BeginValidation(u) \/ QueueRoa(u) \/ Revalidate(u)
  BY <1>3, KTypedValidation, KTypedQueueRoa, KTypedRevalidate
<1>4. CASE FinishValidation
  BY <1>4, KTypedFinishValidation
<1>5. CASE \E k \in Key : AnnounceKey(k) \/ WithdrawKey(k)
  BY <1>5, KTypedAnnounceKey
<1>6. CASE EndOfData
  BY <1>6, KTypedEndOfData
<1> QED
  BY <1>1, <1>2, <1>3, <1>4, <1>5, <1>6 DEF Next

\* The variables keep their types.  A key in the storage is a key that was
\* announced, whatever the announced keys share: keys get lost, none appears.
THEOREM KeyTypesCorrect == Spec => []TypeOK
<1>1. Init => KTyped
  BY KTypedInit
<1>2. KTyped /\ [Next]_vars => KTyped'
  BY KTypedNext
<1>3. KTyped => TypeOK
  BY DEF KTyped
<1> QED
  BY <1>1, <1>2, <1>3, PTL DEF Spec

-----------------------------------------------------------------------------
(* Registration: entering and taking out find the same places of the keys  *)
(* an update needs, if its ECDSA block is the first one.                   *)

LEMMA Offsets ==
  ASSUME NEW n \in Nat, NEW x \in 0 .. n - 1
  PROVE  x \div n = 0 /\ x % n = x
<1>1. n > 0 /\ x >= 0 /\ x < n
  OBVIOUS
<1> QED
  BY <1>1

LEMMA NeededName ==
  ASSUME ECDSAFirst, NEW u \in Update, NEW n \in Needs[u]
  PROVE  /\ n.algo = ECDSA
         /\ \E t \in 0 .. Len(Path[u]) - 1 :
              <<0, t>> \in Segments(u) /\ NameAt(u, 0, t, t) = n
<1>1. PICK i \in DOMAIN Path[u], b \in {c \in DOMAIN Blocks[u] : Blocks[u][c].algo = ECDSA} :
        n = [asn |-> Path[u][i], ski |-> Blocks[u][b].ski[i], algo |-> ECDSA]
  BY DEF Needs, Signatures
<1>2. b = 1 /\ 1 \in DOMAIN Blocks[u] /\ Blocks[u][1].algo = ECDSA
  BY DEF ECDSAFirst
<1>3. /\ Len(Path[u]) \in Nat /\ i \in 1 .. Len(Path[u])
      /\ Len(Blocks[u]) \in Nat /\ 1 <= Len(Blocks[u])
  BY <1>2, Constants
<1>4. PICK t \in 0 .. Len(Path[u]) - 1 : i = t + 1
  <2>1. i - 1 \in 0 .. Len(Path[u]) - 1 /\ i = (i - 1) + 1
    BY <1>3
  <2> QED
    BY <2>1
<1>5. t \div Len(Path[u]) = 0 /\ t % Len(Path[u]) = t
  BY <1>3, Offsets
<1>6. NameAt(u, 0, t, t) = [asn |-> Path[u][t + 1], ski |-> Blocks[u][0 + 1].ski[t + 1],
                            algo |-> Blocks[u][0 + 1].algo]
  BY <1>5 DEF NameAt, SkiAt
<1>7. NameAt(u, 0, t, t) = n
  BY <1>1, <1>2, <1>4, <1>6
<1>8. <<0, t>> \in Segments(u)
  BY <1>3 DEF Segments
<1> QED
  BY <1>1, <1>7, <1>8

LEMMA Multiple ==
  ASSUME NEW a \in Nat, a > 0, NEW m \in Nat
  PROVE  a * m \in Nat /\ m <= a * m
<1>1. PICK d \in Nat : a = d + 1
  <2>1. a - 1 \in Nat /\ a = (a - 1) + 1
    OBVIOUS
  <2> QED
    BY <2>1
<1>2. d * m \in Nat /\ (d + 1) * m = d * m + m
  OBVIOUS
<1> QED
  BY <1>1, <1>2

LEMMA NeededPlaces ==
  ASSUME ECDSAFirst, NEW u \in Update, NEW n \in Needs[u]
  PROVE  /\ n \in Name
         /\ Entered[u][n] \in Nat /\ Entered[u][n] > 0
         /\ TakenOut[u][n] = Entered[u][n]
<1> DEFINE in == {s \in Segments(u) : NameAt(u, s[1], s[2], s[2] + s[2] * s[1]) = n}
           out == {s \in Segments(u) : NameAt(u, s[1], s[2], s[1] * Len(Path[u]) + s[2]) = n}
<1>1. PICK t \in 0 .. Len(Path[u]) - 1 : <<0, t>> \in Segments(u) /\ NameAt(u, 0, t, t) = n
  BY NeededName
<1>2. Len(Path[u]) \in Nat \ {0} /\ Len(Blocks[u]) \in Nat /\ 0 < Len(Blocks[u])
  BY <1>1, Constants DEF Segments
<1>3. n \in Name
  <2>1. Len(Path[u]) <= Len(Blocks[u]) * Len(Path[u]) /\ Len(Blocks[u]) * Len(Path[u]) \in Nat
    BY <1>2, Multiple
  <2>2. t \in 0 .. Len(Blocks[u]) * Len(Path[u]) - 1
    <3> DEFINE p == Len(Blocks[u]) * Len(Path[u])
    <3>1. Len(Path[u]) <= p /\ p \in Nat
      BY <2>1
    <3> HIDE DEF p
    <3>2. t \in 0 .. p - 1
      BY <1>2, <3>1
    <3> QED
      BY <3>2 DEF p
  <2> DEFINE entered(v) == {NameAt(v, s[1], s[2], o) : s \in Segments(v),
                              o \in 0 .. Len(Blocks[v]) * Len(Path[v]) - 1}
  <2>3. n \in entered(u)
    <3> DEFINE p == Len(Blocks[u]) * Len(Path[u]) - 1
               s == <<0, t>>
    <3>1. s \in Segments(u) /\ NameAt(u, s[1], s[2], t) = n /\ t \in 0 .. p
      BY <1>1, <2>2
    <3>2. entered(u) = {NameAt(u, r[1], r[2], o) : r \in Segments(u), o \in 0 .. p}
      OBVIOUS
    <3> HIDE DEF entered, s, p
    <3> QED
      BY <3>1, <3>2
  <2>4. Name = {NameOf(l) : l \in Key} \cup UNION {entered(v) : v \in Update}
    BY DEF Name
  <2> HIDE DEF entered
  <2> QED
    BY <2>3, <2>4
<1>4. ASSUME NEW s \in Segments(u), NEW o, NameAt(u, s[1], s[2], o) = n
      PROVE  s[1] = 0 /\ s[2] \in Nat
  <2>1. s[1] \in 0 .. Len(Blocks[u]) - 1 /\ s[2] \in 0 .. Len(Path[u]) - 1
    BY DEF Segments
  <2>2. Blocks[u][s[1] + 1].algo = ECDSA
    BY <1>4, NeededName DEF NameAt
  <2>3. s[1] + 1 \in DOMAIN Blocks[u]
    BY <1>2, <2>1, Constants
  <2>4. s[1] + 1 = 1
    BY <2>2, <2>3 DEF ECDSAFirst
  <2> QED
    BY <1>2, <2>1, <2>4
<1>5. in = out
  <2>1. ASSUME NEW s \in Segments(u)
        PROVE  s \in in <=> s \in out
    <3>1. CASE s[1] = 0 /\ s[2] \in Nat
      <4>1. s[2] + s[2] * s[1] = s[2] /\ s[1] * Len(Path[u]) + s[2] = s[2]
        BY <1>2, <3>1
      <4> QED
        BY <4>1
    <3>2. CASE ~(s[1] = 0 /\ s[2] \in Nat)
      BY <1>4, <3>2
    <3> QED
      BY <3>1, <3>2
  <2> QED
    BY <2>1
<1>6. Cardinality(in) \in Nat /\ Cardinality(in) > 0
  <2>1. t + t * 0 = t
    BY <1>2
  <2>2. <<0, t>> \in in
    BY <1>1, <2>1
  <2>3. in \in SUBSET Segments(u) /\ in # {}
    BY <2>2
  <2> HIDE DEF in
  <2> QED
    BY <2>3, SegmentsFinite
<1>7. Entered[u][n] = Cardinality(in) /\ TakenOut[u][n] = Cardinality(out)
  BY <1>3 DEF Entered, TakenOut
<1> HIDE DEF in, out
<1> QED
  BY <1>3, <1>5, <1>6, <1>7

\* An update is entered under all names it needs as often as it was entered
\* when it was requested, or under none.
EnteredOrNot(u) ==
  \/ \A n \in Needs[u] : uid[n][u] = Entered[u][n]
  \/ \A n \in Needs[u] : uid[n][u] = 0

RInv == KTyped /\ \A u \in Update : EnteredOrNot(u)

LEMMA RInvNext ==
  ASSUME ECDSAFirst, RInv, [Next]_vars
  PROVE  RInv'
<1>1. KTyped /\ TypeOK /\ KTyped'
  BY KTypedNext DEF RInv, KTyped
<1>2. ASSUME NEW v \in Update PROVE EnteredOrNot(v)'
  <2>1. EnteredOrNot(v) /\ \A n \in Needs[v] : n \in Name
    BY NeededPlaces DEF RInv
  <2>2. CASE uid' = uid
    BY <2>1, <2>2 DEF EnteredOrNot
  <2>3. ASSUME NEW c \in Client, NEW u \in Update, RequestNew(c, u) PROVE EnteredOrNot(v)'
    <3>1. CASE u = v
      <4>1. ASSUME NEW n \in Needs[v] PROVE uid'[n][v] = Entered[v][n]
        <5>1. n \in Name /\ uid[n] \in [Update -> Nat] /\ Entered[v][n] \in Nat
          BY <1>1, <2>1, NeededPlaces DEF TypeOK
        <5>2. uid[n][v] = 0
          BY <1>1, <2>3, <3>1, <5>1 DEF KTyped, Unrequested, RequestNew
        <5>3. uid'[n][v] = uid[n][v] + Entered[v][n]
          BY <2>3, <3>1, <5>1 DEF RequestNew, ski_registerUpdate
        <5> QED
          BY <5>1, <5>2, <5>3
      <4> QED
        BY <4>1 DEF EnteredOrNot
    <3>2. CASE u # v
      <4>1. ASSUME NEW n \in Needs[v] PROVE uid'[n][v] = uid[n][v]
        BY <1>1, <2>1, <2>3, <3>2 DEF RequestNew, ski_registerUpdate, TypeOK
      <4> QED
        BY <2>1, <4>1 DEF EnteredOrNot
    <3> QED
      BY <3>1, <3>2
  <2>4. ASSUME NEW c \in Client, NEW u \in Update, DeleteUpdate(c, u) PROVE EnteredOrNot(v)'
    <3>1. CASE u = v
      <4>1. ASSUME NEW n \in Needs[v] PROVE uid'[n][v] = 0
        <5>1. /\ n \in Name /\ uid[n] \in [Update -> Nat] /\ Entered[v][n] \in Nat
              /\ TakenOut[v][n] = Entered[v][n]
          BY <1>1, <2>1, NeededPlaces DEF TypeOK
        <5>2. uid[n][v] = 0 \/ uid[n][v] = Entered[v][n]
          BY <2>1 DEF EnteredOrNot
        <5>3. uid'[n][v] = IF uid[n][v] > TakenOut[v][n] THEN uid[n][v] - TakenOut[v][n] ELSE 0
          BY <2>4, <3>1, <5>1 DEF DeleteUpdate, ski_unregisterUpdate
        <5> QED
          BY <5>1, <5>2, <5>3
      <4> QED
        BY <4>1 DEF EnteredOrNot
    <3>2. CASE u # v
      <4>1. ASSUME NEW n \in Needs[v] PROVE uid'[n][v] = uid[n][v]
        BY <1>1, <2>1, <2>4, <3>2 DEF DeleteUpdate, ski_unregisterUpdate, TypeOK
      <4> QED
        BY <2>1, <4>1 DEF EnteredOrNot
    <3> QED
      BY <3>1, <3>2
  <2>5. \/ uid' = uid
        \/ \E c \in Client, u \in Update : RequestNew(c, u) \/ DeleteUpdate(c, u)
    BY DEF Next, vars, cache, RequestKnown, SkipValidation, BeginValidation, QueueRoa, Revalidate,
           FinishValidation, AnnounceKey, WithdrawKey, EndOfData
  <2> QED
    BY <2>2, <2>3, <2>4, <2>5
<1> QED
  BY <1>1, <1>2 DEF RInv

\* With the ECDSA block in front, an update is registered under all keys its
\* validation needs, or under none (ski_registerUpdate, ski_unregisterUpdate).
THEOREM UpdatesRegisteredUnderAll ==
  ASSUME ECDSAFirst
  PROVE  Spec => []RegisteredUnderAll
<1>1. Init => RInv
  <2> SUFFICES ASSUME Init PROVE RInv
    OBVIOUS
  <2>1. ASSUME NEW u \in Update, NEW n \in Needs[u] PROVE uid[n][u] = 0
    BY NeededPlaces DEF Init
  <2> QED
    BY <2>1, KTypedInit DEF RInv, EnteredOrNot
<1>2. RInv /\ [Next]_vars => RInv'
  BY RInvNext
<1>3. RInv => RegisteredUnderAll
  BY NeededPlaces DEF RInv, EnteredOrNot, RegisteredUnderAll, IsRegistered
<1> QED
  BY <1>1, <1>2, <1>3, PTL DEF Spec

-----------------------------------------------------------------------------
(* The storage and the keys in force.                                      *)

StorageInv == up /\ inForce \subseteq Key /\ Ordered(bucket) /\ Stored(bucket) = inForce

LEMMA StorageAnnounce ==
  ASSUME OneKeyPerAS, StorageInv, NEW k \in Key, AnnounceKey(k)
  PROVE  /\ StorageInv' /\ inForce' = inForce \cup {k}
         /\ ski_registerKey(NameOf(k)) /\ uid' = uid /\ UNCHANGED paths
<1>1. ~ReadsNull(bucket, k)
  BY NeverNull DEF StorageInv
<1>2. /\ bucket' = StoreKey(bucket, k) /\ up' = up /\ inForce' = inForce \cup {k}
      /\ ski_registerKey(NameOf(k)) /\ uid' = uid /\ UNCHANGED paths
  BY <1>1 DEF AnnounceKey
<1>3. Ordered(StoreKey(bucket, k)) /\ Stored(StoreKey(bucket, k)) = Stored(bucket) \cup {k}
  BY OrderedStoreKey DEF StorageInv
<1> QED
  BY <1>2, <1>3 DEF StorageInv

LEMMA StorageWithdraw ==
  ASSUME OneKeyPerAS, StorageInv, NEW k \in Key, WithdrawKey(k)
  PROVE  /\ StorageInv' /\ k \in inForce /\ inForce' = inForce \ {k}
         /\ ski_unregisterKey(NameOf(k)) /\ uid' = uid /\ UNCHANGED paths
<1>1. ~ReadsNull(bucket, k)
  BY NeverNull DEF StorageInv
<1>2. /\ bucket' = DelKey(bucket, k) /\ up' = up /\ k \in inForce /\ inForce' = inForce \ {k}
      /\ ski_unregisterKey(NameOf(k)) /\ uid' = uid /\ UNCHANGED paths
  BY <1>1 DEF WithdrawKey
<1>3. Ordered(DelKey(bucket, k)) /\ Stored(DelKey(bucket, k)) = Stored(bucket) \ {k}
  BY OrderedDelKey DEF StorageInv
<1> QED
  BY <1>2, <1>3 DEF StorageInv

\* Only a router key changes the storage.
LEMMA StorageElsewhere ==
  ASSUME [Next]_vars, ~(\E k \in Key : AnnounceKey(k) \/ WithdrawKey(k))
  PROVE  UNCHANGED <<bucket, inForce, counter, up>>
BY DEF Next, vars, keys, cache, RequestNew, RequestKnown, DeleteUpdate, SkipValidation, BeginValidation,
       QueueRoa, Revalidate, FinishValidation, EndOfData

LEMMA StorageInit == Init => StorageInv
<1>1. Init => Ordered(<<>>) /\ Stored(<<>>) = {}
  BY DEF Ordered, Buckets, Stored
<1> QED
  BY <1>1 DEF Init, StorageInv

LEMMA StorageNext ==
  ASSUME OneKeyPerAS, StorageInv, [Next]_vars
  PROVE  StorageInv'
<1>1. CASE \E k \in Key : AnnounceKey(k) \/ WithdrawKey(k)
  BY <1>1, StorageAnnounce, StorageWithdraw
<1>2. CASE ~(\E k \in Key : AnnounceKey(k) \/ WithdrawKey(k))
  BY <1>2, StorageElsewhere DEF StorageInv
<1> QED
  BY <1>1, <1>2

\* With one key per AS number, the storage holds exactly the keys that were
\* announced and not withdrawn, after any number of announcements and
\* withdrawals (ks_storeKey, ks_delKey), and the process does not run into a
\* position without a key.
THEOREM StorageHoldsKeysInForce ==
  ASSUME OneKeyPerAS
  PROVE  Spec => [](up /\ StoresKeysInForce)
<1>1. Init => StorageInv
  BY StorageInit
<1>2. StorageInv /\ [Next]_vars => StorageInv'
  BY StorageNext
<1>3. StorageInv => up /\ StoresKeysInForce
  BY DEF StorageInv, StoresKeysInForce
<1> QED
  BY <1>1, <1>2, <1>3, PTL DEF Spec

-----------------------------------------------------------------------------
(* Results and what the routers were told.                                 *)

Counted == \A k \in inForce : counter[NameOf(k)] > 0

\* As ToldCurrentOrStored, for updates queued for another reason as well.
ToldCurrent ==
  \A u \in Update : \A c \in holds[u] :
    IsRegistered(u) /\ "KEY" \notin queue[u] => told[c][u] \in {validateSignature(u), result[u]}

ResultInv == RInv /\ StorageInv /\ Counted /\ ChangeNotMissed /\ ToldCurrent

\* A signature is accepted if its key is in force.
LEMMA Verdict ==
  ASSUME NEW b, Ordered(b), NEW u \in Update
  PROVE  Verify(b, Signatures[u]) <=> Signatures[u] \subseteq Stored(b)
<1>1. \A s \in Signatures[u] : s = [asn |-> s.asn, ski |-> s.ski, der |-> s.der]
  BY DEF Signatures
<1> QED
  BY <1>1, VerifyStored

\* A key that is not among an update's signatures does not change its result.
LEMMA OtherKey ==
  ASSUME StorageInv, StorageInv', NEW k, inForce' \in {inForce \cup {k}, inForce \ {k}},
         NEW u \in Update, k \notin Signatures[u]
  PROVE  validateSignature(u)' = validateSignature(u)
<1>1. Verify(bucket, Signatures[u]) <=> Signatures[u] \subseteq inForce
  BY Verdict DEF StorageInv
<1>2. Verify(bucket', Signatures[u]) <=> Signatures[u] \subseteq inForce'
  BY Verdict DEF StorageInv
<1>3. Signatures[u] \subseteq inForce' <=> Signatures[u] \subseteq inForce
  OBVIOUS
<1> QED
  BY <1>1, <1>2, <1>3 DEF validateSignature

\* An update that needs a key is queued when the key changes.
LEMMA Notified ==
  ASSUME RInv, ECDSAFirst, NEW k \in Key, NEW u \in Update, QueueKey(Users(NameOf(k)))
  PROVE  /\ IsRegistered(u) /\ k \in Signatures[u] => "KEY" \in queue'[u]
         /\ "KEY" \in queue[u] => "KEY" \in queue'[u]
<1>1. queue'[u] = IF u \in Users(NameOf(k)) THEN Queued(queue[u], "KEY") ELSE queue[u]
  BY DEF QueueKey
<1>2. "KEY" \in Queued(queue[u], "KEY")
  BY DEF Queued, Reason
<1>3. ASSUME IsRegistered(u), k \in Signatures[u] PROVE u \in Users(NameOf(k))
  <2>1. NameOf(k) \in Needs[u]
    BY <1>3 DEF Needs, NameOf
  <2>2. NameOf(k) \in Name /\ Entered[u][NameOf(k)] > 0
    BY <2>1, NeededPlaces
  <2>3. uid[NameOf(k)][u] > 0
    <3>1. \A n \in Needs[u] : uid[n][u] = Entered[u][n]
      BY <1>3 DEF RInv, EnteredOrNot, IsRegistered
    <3> QED
      BY <2>1, <2>2, <3>1
  <2> QED
    BY <2>3 DEF Users
<1> QED
  BY <1>1, <1>2, <1>3

\* The counter of a key in force counts it, and a withdrawn key is noticed.
LEMMA CountedStep ==
  ASSUME OneKeyPerAS, NoCounterWrap, TypeOK, StorageInv, Counted, NEW k \in Key,
         AnnounceKey(k) \/ WithdrawKey(k)
  PROVE  Counted' /\ QueueKey(Users(NameOf(k)))
<1>1. NameOf(k) \in Name /\ counter[NameOf(k)] \in 0 .. CounterMod - 1 /\ CounterMod \in Nat \ {0}
  BY Constants DEF TypeOK
<1>2. ASSUME NEW l \in Key, l # k PROVE NameOf(l) # NameOf(k) /\ NameOf(l) \in Name
  <2>1. l.asn # k.asn
    BY <1>2 DEF OneKeyPerAS
  <2> QED
    BY <2>1, Constants DEF NameOf
<1>3. CASE AnnounceKey(k)
  <2>1. ski_registerKey(NameOf(k)) /\ inForce' = inForce \cup {k}
    BY <1>3, StorageAnnounce
  <2>2. counter[NameOf(k)] + 1 < CounterMod
    <3>1. counter[NameOf(k)] < MaxCount[k] /\ MaxCount[k] < CounterMod /\ MaxCount[k] \in Nat
      BY <1>3, Constants DEF AnnounceKey, NoCounterWrap
    <3> QED
      BY <1>1, <3>1
  <2>3. (counter[NameOf(k)] + 1) % CounterMod = counter[NameOf(k)] + 1
    <3> DEFINE x == counter[NameOf(k)] + 1
    <3>1. x \in 0 .. CounterMod - 1
      BY <1>1, <2>2
    <3> HIDE DEF x
    <3>2. x % CounterMod = x
      BY <1>1, <3>1, Offsets
    <3> QED
      BY <3>2 DEF x
  <2>4. counter'[NameOf(k)] > 0
    BY <1>1, <2>1, <2>3 DEF ski_registerKey, TypeOK
  <2>5. ASSUME NEW l \in inForce', l # k PROVE counter'[NameOf(l)] > 0
    <3>1. l \in inForce /\ l \in Key
      BY <2>1, <2>5 DEF StorageInv
    <3>2. counter'[NameOf(l)] = counter[NameOf(l)]
      BY <1>2, <2>1, <2>5, <3>1 DEF ski_registerKey, TypeOK
    <3> QED
      BY <3>1, <3>2 DEF Counted
  <2> QED
    BY <2>1, <2>4, <2>5 DEF Counted, ski_registerKey
<1>4. CASE WithdrawKey(k)
  <2>1. ski_unregisterKey(NameOf(k)) /\ k \in inForce /\ inForce' = inForce \ {k}
    BY <1>4, StorageWithdraw
  <2>2. counter[NameOf(k)] # 0
    BY <1>1, <2>1 DEF Counted
  <2>3. /\ counter' = [counter EXCEPT ![NameOf(k)] = IF Users(NameOf(k)) = {} THEN 0 ELSE @ - 1]
        /\ QueueKey(Users(NameOf(k)))
    BY <2>1, <2>2 DEF ski_unregisterKey
  <2>4. ASSUME NEW l \in inForce' PROVE counter'[NameOf(l)] > 0
    <3>1. l \in inForce /\ l \in Key /\ l # k
      BY <2>1 DEF StorageInv
    <3>2. counter'[NameOf(l)] = counter[NameOf(l)]
      BY <1>2, <2>3, <3>1 DEF TypeOK
    <3> QED
      BY <3>1, <3>2 DEF Counted
  <2> QED
    BY <2>3, <2>4 DEF Counted
<1> QED
  BY <1>3, <1>4

LEMMA ResultKeyStep ==
  ASSUME OneKeyPerAS, NoCounterWrap, ECDSAFirst, ResultInv, NEW k \in Key,
         AnnounceKey(k) \/ WithdrawKey(k)
  PROVE  ChangeNotMissed' /\ ToldCurrent'
<1>1. TypeOK /\ RInv /\ StorageInv
  BY DEF ResultInv, RInv, KTyped
<1>2. /\ StorageInv' /\ inForce' \in {inForce \cup {k}, inForce \ {k}}
      /\ uid' = uid /\ UNCHANGED paths
  BY <1>1, StorageAnnounce, StorageWithdraw
<1>3. QueueKey(Users(NameOf(k)))
  BY <1>1, CountedStep DEF ResultInv
<1>4. ASSUME NEW u \in Update
      PROVE  /\ IsRegistered(u)' <=> IsRegistered(u)
             /\ IsRegistered(u) /\ "KEY" \notin queue'[u] =>
                  "KEY" \notin queue[u] /\ validateSignature(u)' = validateSignature(u)
  <2>1. IsRegistered(u)' <=> IsRegistered(u)
    BY <1>2 DEF IsRegistered
  <2>2. ASSUME IsRegistered(u), "KEY" \notin queue'[u]
        PROVE  "KEY" \notin queue[u] /\ validateSignature(u)' = validateSignature(u)
    <3>1. k \notin Signatures[u] /\ "KEY" \notin queue[u]
      BY <1>1, <1>3, <2>2, Notified
    <3> QED
      BY <1>1, <1>2, <3>1, OtherKey
  <2> QED
    BY <2>1, <2>2
<1>5. ChangeNotMissed'
  <2> SUFFICES ASSUME NEW u \in Update, IsRegistered(u)', computed'[u] # "UNDEFINED",
                      "KEY" \notin queue'[u]
               PROVE  validateSignature(u)' = computed'[u]
    BY DEF ChangeNotMissed
  <2>1. computed'[u] = computed[u]
    BY <1>2 DEF paths
  <2> QED
    BY <1>1, <1>4, <2>1 DEF ResultInv, ChangeNotMissed, StorageInv
<1>6. ToldCurrent'
  <2> SUFFICES ASSUME NEW u \in Update, NEW c \in holds'[u], IsRegistered(u)', "KEY" \notin queue'[u]
               PROVE  told'[c][u] \in {validateSignature(u)', result'[u]}
    BY DEF ToldCurrent
  <2>1. told' = told /\ result' = result /\ holds' = holds
    BY <1>2 DEF paths
  <2> QED
    BY <1>4, <2>1 DEF ResultInv, ToldCurrent
<1> QED
  BY <1>5, <1>6

\* A step changes nothing an update's result and the answers to it depend on.
SameFor(u) ==
  /\ queue'[u] = queue[u] /\ computed'[u] = computed[u] /\ result'[u] = result[u]
  /\ holds'[u] = holds[u] /\ \A c \in Client : told'[c][u] = told[c][u]
  /\ \A n \in Needs[u] : uid'[n][u] = uid[n][u]

\* What the two properties say of one update.
Noticed(u) ==
  IsRegistered(u) /\ computed[u] # "UNDEFINED" =>
    "KEY" \in queue[u] \/ validateSignature(u) = computed[u]

ToldOf(u) ==
  \A c \in holds[u] :
    IsRegistered(u) /\ "KEY" \notin queue[u] => told[c][u] \in {validateSignature(u), result[u]}

LEMMA SameStays ==
  ASSUME TypeOK, NEW u \in Update, bucket' = bucket, SameFor(u), Noticed(u), ToldOf(u)
  PROVE  Noticed(u)' /\ ToldOf(u)'
<1>1. holds[u] \subseteq Client
  BY DEF TypeOK
<1>2. validateSignature(u)' = validateSignature(u) /\ (IsRegistered(u)' <=> IsRegistered(u))
  BY DEF validateSignature, IsRegistered, SameFor
<1> QED
  BY <1>1, <1>2 DEF SameFor, Noticed, ToldOf

\* All steps but those of router keys, for an update the step is about and for
\* the others.
LEMMA ResultOtherStep ==
  ASSUME ECDSAFirst, ResultInv, [Next]_vars, ~(\E k \in Key : AnnounceKey(k) \/ WithdrawKey(k)),
         NEW v \in Update
  PROVE  Noticed(v)' /\ ToldOf(v)'
<1>1. /\ TypeOK /\ KTyped /\ Noticed(v) /\ ToldOf(v) /\ \A n \in Needs[v] : n \in Name
      /\ holds[v] \subseteq Client
  BY NeededPlaces DEF ResultInv, RInv, StorageInv, KTyped, TypeOK, ChangeNotMissed, ToldCurrent,
                      Noticed, ToldOf
<1>2. bucket' = bucket
  BY StorageElsewhere
<1>3. validateSignature(v)' = validateSignature(v)
  BY <1>2 DEF validateSignature
<1>4. CASE SameFor(v)
  BY <1>1, <1>2, <1>4, SameStays
<1>5. ASSUME NEW c \in Client, NEW u \in Update, RequestNew(c, u) PROVE Noticed(v)' /\ ToldOf(v)'
  <2>1. CASE u = v
    <3>1. Unrequested(v)
      BY <1>1, <1>5, <2>1 DEF KTyped, RequestNew
    <3>2. computed'[v] = "UNDEFINED" /\ \A d \in Client : told'[d][v] = result'[v]
      BY <1>5, <3>1 DEF RequestNew, Unrequested
    <3>3. holds'[v] \subseteq Client
      BY <1>1, <1>5, <2>1 DEF RequestNew, TypeOK
    <3> QED
      BY <3>2, <3>3 DEF Noticed, ToldOf
  <2>2. CASE u # v
    BY <1>1, <1>4, <1>5, <2>2 DEF RequestNew, ski_registerUpdate, SameFor, TypeOK
  <2> QED
    BY <2>1, <2>2
<1>6. ASSUME NEW c \in Client, NEW u \in Update, RequestKnown(c, u) PROVE Noticed(v)' /\ ToldOf(v)'
  <2>1. CASE u = v
    <3>1. /\ uid' = uid /\ queue' = queue /\ computed' = computed /\ result' = result
          /\ holds'[v] = holds[v] \cup {c}
      BY <1>1, <1>6, <2>1 DEF RequestKnown, TypeOK, cache
    <3>2. \A d \in Client : told'[d][v] = IF d = c THEN result[v] ELSE told[d][v]
      BY <1>1, <1>6, <2>1 DEF RequestKnown, TypeOK
    <3>3. IsRegistered(v)' <=> IsRegistered(v)
      BY <3>1 DEF IsRegistered
    <3>4. Noticed(v)'
      BY <1>1, <1>3, <3>1, <3>3 DEF Noticed
    <3>5. ToldOf(v)'
      BY <1>1, <1>3, <3>1, <3>2, <3>3 DEF ToldOf
    <3> QED
      BY <3>4, <3>5
  <2>2. CASE u # v
    BY <1>1, <1>4, <1>6, <2>2 DEF RequestKnown, SameFor, TypeOK, cache
  <2> QED
    BY <2>1, <2>2
<1>7. ASSUME NEW c \in Client, NEW u \in Update, DeleteUpdate(c, u) PROVE Noticed(v)' /\ ToldOf(v)'
  <2>1. CASE u = v
    <3>1. /\ queue' = queue /\ computed' = computed /\ result' = result /\ told' = told
          /\ holds'[v] = holds[v] \ {c}
      BY <1>1, <1>7, <2>1 DEF DeleteUpdate, TypeOK
    <3>2. IsRegistered(v)' => IsRegistered(v)
      <4>1. ASSUME NEW n \in Needs[v], uid'[n][v] > 0 PROVE uid[n][v] > 0
        <5>1. n \in Name /\ uid[n] \in [Update -> Nat] /\ TakenOut[v][n] \in Nat
          BY <1>1, PlacesAreNat DEF TypeOK
        <5>2. uid'[n][v] = IF uid[n][v] > TakenOut[v][n] THEN uid[n][v] - TakenOut[v][n] ELSE 0
          BY <1>7, <2>1, <5>1 DEF DeleteUpdate, ski_unregisterUpdate
        <5> QED
          BY <4>1, <5>1, <5>2
      <4> QED
        BY <4>1 DEF IsRegistered
    <3>3. Noticed(v)'
      BY <1>1, <1>3, <3>1, <3>2 DEF Noticed
    <3>4. ToldOf(v)'
      BY <1>1, <1>3, <3>1, <3>2 DEF ToldOf
    <3> QED
      BY <3>3, <3>4
  <2>2. CASE u # v
    BY <1>1, <1>4, <1>7, <2>2 DEF DeleteUpdate, ski_unregisterUpdate, SameFor, TypeOK
  <2> QED
    BY <2>1, <2>2
<1>8. ASSUME NEW u \in Update, SkipValidation(u) PROVE Noticed(v)' /\ ToldOf(v)'
  BY <1>4, <1>8 DEF SkipValidation, SameFor, cache
<1>9. ASSUME NEW u \in Update, BeginValidation(u) PROVE Noticed(v)' /\ ToldOf(v)'
  <2>1. CASE u = v
    <3>1. computed'[v] = validateSignature(v)
      BY <1>1, <1>9, <2>1 DEF BeginValidation, TypeOK
    <3>2. Noticed(v)'
      BY <1>3, <3>1 DEF Noticed
    <3>3. uid' = uid /\ queue' = queue /\ result' = result /\ told' = told /\ holds' = holds
      BY <1>9 DEF BeginValidation, cache
    <3>4. IsRegistered(v)' <=> IsRegistered(v)
      BY <3>3 DEF IsRegistered
    <3>5. ToldOf(v)'
      BY <1>1, <1>3, <3>3, <3>4 DEF ToldOf
    <3> QED
      BY <3>2, <3>5
  <2>2. CASE u # v
    BY <1>1, <1>4, <1>9, <2>2 DEF BeginValidation, SameFor, TypeOK, cache
  <2> QED
    BY <2>1, <2>2
<1>10. ASSUME FinishValidation PROVE Noticed(v)' /\ ToldOf(v)'
  <2> DEFINE u == handling.update
  <2>1. u \in Update /\ u # None
    BY <1>1, <1>10 DEF FinishValidation, TypeOK
  <2>2. CASE u = v
    <3>1. /\ uid' = uid /\ queue' = queue /\ computed' = computed /\ holds' = holds
          /\ result'[v] = handling.result
      BY <1>1, <1>10, <2>2 DEF FinishValidation, TypeOK, cache
    <3>2. \A c \in holds[v] : told'[c][v] = handling.result
      BY <1>1, <1>10, <2>2 DEF FinishValidation, TypeOK, Tell
    <3>3. IsRegistered(v)' <=> IsRegistered(v)
      BY <3>1 DEF IsRegistered
    <3>4. Noticed(v)'
      BY <1>1, <1>3, <3>1, <3>3 DEF Noticed
    <3>5. ToldOf(v)'
      BY <3>1, <3>2 DEF ToldOf
    <3> QED
      BY <3>4, <3>5
  <2>3. CASE u # v
    <3>1. \A c \in Client : told'[c][v] = told[c][v]
      BY <1>1, <1>10, <2>1, <2>3, ToldElsewhere DEF FinishValidation
    <3>2. result'[v] = result[v]
      BY <1>1, <1>10, <2>3 DEF FinishValidation, TypeOK
    <3> QED
      BY <1>4, <1>10, <3>1, <3>2 DEF FinishValidation, SameFor, cache
  <2> QED
    BY <2>2, <2>3
<1>11. ASSUME NEW u \in Update, QueueRoa(u) PROVE Noticed(v)' /\ ToldOf(v)'
  <2>1. CASE u = v
    <3>1. "KEY" \in queue[v] => "KEY" \in queue'[v]
      BY <1>1, <1>11, <2>1 DEF QueueRoa, Queued, Reason, TypeOK
    <3>2. UNCHANGED <<uid, computed, result, told, holds>>
      BY <1>11 DEF QueueRoa, cache, paths
    <3>3. IsRegistered(v)' <=> IsRegistered(v)
      BY <3>2 DEF IsRegistered
    <3>4. Noticed(v)'
      BY <1>1, <1>3, <3>1, <3>2, <3>3 DEF Noticed
    <3>5. ToldOf(v)'
      BY <1>1, <1>3, <3>1, <3>2, <3>3 DEF ToldOf
    <3> QED
      BY <3>4, <3>5
  <2>2. CASE u # v
    BY <1>1, <1>4, <1>11, <2>2 DEF QueueRoa, SameFor, TypeOK, cache, paths
  <2> QED
    BY <2>1, <2>2
<1>12. ASSUME NEW u \in Update, Revalidate(u) PROVE Noticed(v)' /\ ToldOf(v)'
  <2>1. CASE u = v
    <3>1. UNCHANGED <<uid, result, holds>>
      BY <1>12 DEF Revalidate, cache
    <3>2. IsRegistered(v)' <=> IsRegistered(v)
      BY <3>1 DEF IsRegistered
    <3>3. CASE "KEY" \in queue[v]
      <4>1. computed'[v] = validateSignature(v) /\ told' = Tell(v, validateSignature(v))
        BY <1>1, <1>12, <2>1, <3>3 DEF Revalidate, TypeOK
      <4>2. \A c \in holds[v] : told'[c][v] = validateSignature(v)
        BY <1>1, <4>1 DEF Tell, TypeOK
      <4>3. Noticed(v)'
        BY <1>3, <4>1 DEF Noticed
      <4>4. ToldOf(v)'
        BY <1>3, <3>1, <4>2 DEF ToldOf
      <4> QED
        BY <4>3, <4>4
    <3>4. CASE "KEY" \notin queue[v]
      <4>1. UNCHANGED <<computed, told>>
        BY <1>12, <2>1, <3>4 DEF Revalidate
      <4>2. Noticed(v)'
        BY <1>1, <1>3, <3>1, <3>2, <3>4, <4>1 DEF Noticed
      <4>3. ToldOf(v)'
        BY <1>1, <1>3, <3>1, <3>2, <3>4, <4>1 DEF ToldOf
      <4> QED
        BY <4>2, <4>3
    <3> QED
      BY <3>3, <3>4
  <2>2. CASE u # v
    <3>1. \A c \in Client : told'[c][v] = told[c][v]
      BY <1>1, <1>12, <2>2, ToldElsewhere DEF Revalidate
    <3>2. queue'[v] = queue[v] /\ computed'[v] = computed[v]
      BY <1>1, <1>12, <2>2 DEF Revalidate, TypeOK
    <3> QED
      BY <1>4, <1>12, <3>1, <3>2 DEF Revalidate, SameFor, cache
  <2> QED
    BY <2>1, <2>2
<1>13. CASE EndOfData
  BY <1>4, <1>13 DEF EndOfData, SameFor, cache, paths
<1>14. CASE vars' = vars
  BY <1>4, <1>14 DEF vars, SameFor, cache, paths
<1> QED
  BY <1>5, <1>6, <1>7, <1>8, <1>9, <1>10, <1>11, <1>12, <1>13, <1>14 DEF Next

LEMMA ResultInvNext ==
  ASSUME OneKeyPerAS, NoCounterWrap, ECDSAFirst, ResultInv, [Next]_vars
  PROVE  ResultInv'
<1>1. RInv' /\ StorageInv' /\ TypeOK
  BY RInvNext, StorageNext DEF ResultInv, RInv, KTyped
<1>2. CASE \E k \in Key : AnnounceKey(k) \/ WithdrawKey(k)
  <2>1. Counted'
    BY <1>1, <1>2, CountedStep DEF ResultInv
  <2>2. ChangeNotMissed' /\ ToldCurrent'
    BY <1>2, ResultKeyStep
  <2> QED
    BY <1>1, <2>1, <2>2 DEF ResultInv
<1>3. CASE ~(\E k \in Key : AnnounceKey(k) \/ WithdrawKey(k))
  <2>1. Counted'
    BY <1>3, StorageElsewhere DEF ResultInv, Counted
  <2>2. \A u \in Update : Noticed(u)' /\ ToldOf(u)'
    BY <1>3, ResultOtherStep
  <2>3. ChangeNotMissed'
    BY <2>2 DEF ChangeNotMissed, Noticed
  <2>4. ToldCurrent'
    BY <2>2 DEF ToldCurrent, ToldOf
  <2> QED
    BY <1>1, <2>1, <2>3, <2>4 DEF ResultInv
<1> QED
  BY <1>2, <1>3

LEMMA ResultInvCorrect ==
  ASSUME OneKeyPerAS, NoCounterWrap, ECDSAFirst
  PROVE  Spec => []ResultInv
<1>1. Init => ResultInv
  <2> SUFFICES ASSUME Init PROVE ResultInv
    OBVIOUS
  <2>1. RInv
    <3>1. ASSUME NEW u \in Update, NEW n \in Needs[u] PROVE uid[n][u] = 0
      BY NeededPlaces DEF Init
    <3> QED
      BY <3>1, KTypedInit DEF RInv, EnteredOrNot
  <2>2. Counted /\ ChangeNotMissed /\ ToldCurrent
    BY DEF Init, Counted, ChangeNotMissed, ToldCurrent
  <2> QED
    BY <2>1, <2>2, StorageInit DEF ResultInv
<1>2. ResultInv /\ [Next]_vars => ResultInv'
  BY ResultInvNext
<1> QED
  BY <1>1, <1>2, PTL DEF Spec

\* A registered update whose validation would give another result than it gave
\* last is in the RPKI queue: no announcement or withdrawal of a router key is
\* missed (ski_registerKey, ski_unregisterKey, handleRouterKey).
THEOREM KeyChangesNotMissed ==
  ASSUME OneKeyPerAS, NoCounterWrap, ECDSAFirst
  PROVE  Spec => []ChangeNotMissed
<1>1. ResultInv => ChangeNotMissed
  BY DEF ResultInv
<1> QED
  BY <1>1, ResultInvCorrect, PTL

\* What a router was told of a registered update that is not queued is what the
\* keys say now or what the update cache stores: a key change reaches all
\* routers that hold the update, whoever asked in between.
THEOREM RoutersToldCurrentOrStored ==
  ASSUME OneKeyPerAS, NoCounterWrap, ECDSAFirst
  PROVE  Spec => []ToldCurrentOrStored
<1>1. ResultInv => ToldCurrentOrStored
  BY DEF ResultInv, ToldCurrent, ToldCurrentOrStored
<1> QED
  BY <1>1, ResultInvCorrect, PTL
=============================================================================
