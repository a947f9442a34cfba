----------------------------- MODULE KeyStorage -----------------------------
(***************************************************************************)
(* The storage of public keys of the SRx crypto API                        *)
(* (srx-crypto-api/bgpsec_openssl/key_storage.c): a bucket is a doubly     *)
(* linked list of elements sorted by AS number; an element holds the keys  *)
(* that share an AS number and an SKI.                                     *)
(*                                                                         *)
(* A bucket is the sequence of the elements reachable from its head.  The  *)
(* field prev says whether the pointer to the previous element is set;     *)
(* where it is not, the code takes the element for the head of the list.   *)
(* Buckets share nothing, so one is modelled.                              *)
(***************************************************************************)
EXTENDS Naturals, FiniteSets, SequencesExt

CONSTANT NoKey   \* a position of KS_Key_Element.derKey that is NULL

Element(key, prev) ==
  [asn |-> key.asn, ski |-> key.ski, der |-> <<key.der>>, prev |-> prev]

Matches(elem, key) == elem.asn = key.asn /\ elem.ski = key.ski

\* The keys that can be found in a bucket.
Stored(bucket) ==
  UNION {{[asn |-> bucket[i].asn, ski |-> bucket[i].ski, der |-> d] :
            d \in ToSet(bucket[i].der) \ {NoKey}} : i \in DOMAIN bucket}

-----------------------------------------------------------------------------
(* ks_storeKey *)

\* Where the walk to the key's place ends in a bucket that is not empty.
Stop(bucket, key) ==
  Min({i \in DOMAIN bucket : \/ bucket[i].asn > key.asn
                             \/ Matches(bucket[i], key)
                             \/ i = Len(bucket)})

\* The new element takes the place of the i-th one.  It becomes the head if
\* that one has no previous element.
InsertBefore(bucket, i, key) ==
  LET before == IF bucket[i].prev THEN SubSeq(bucket, 1, i - 1) ELSE <<>>
  IN before \o <<Element(key, bucket[i].prev), [bucket[i] EXCEPT !.prev = TRUE]>>
            \o SubSeq(bucket, i + 1, Len(bucket))

\* A key is stored once.  An element appended to one of the same AS number is
\* not given its pointer to the previous element.
StoreKey_bug(bucket, key) ==
  IF bucket = <<>> THEN <<Element(key, FALSE)>>
  ELSE LET i == Stop(bucket, key) IN
    CASE bucket[i].asn > key.asn -> InsertBefore([bucket EXCEPT ![i].prev = FALSE], i, key)
      [] Matches(bucket[i], key) ->
           IF key.der \in ToSet(bucket[i].der) THEN bucket
           ELSE [bucket EXCEPT ![i].der = Append(@, key.der)]
      [] OTHER -> Append(bucket, Element(key, bucket[i].asn < key.asn))

StoreKey(bucket, key) ==
  IF bucket = <<>> THEN <<Element(key, FALSE)>>
  ELSE LET i == Stop(bucket, key) IN
    CASE bucket[i].asn > key.asn -> InsertBefore(bucket, i, key)
      [] Matches(bucket[i], key) ->
           IF key.der \in ToSet(bucket[i].der) THEN bucket
           ELSE [bucket EXCEPT ![i].der = Append(@, key.der)]
      [] OTHER -> Append(bucket, Element(key, bucket[i].asn < key.asn))

-----------------------------------------------------------------------------
(* ks_delKey *)

\* The element of a key's AS number and SKI; the set is empty if there is none.
Holder(bucket, asn, ski) ==
  {i \in DOMAIN bucket : /\ bucket[i].asn = asn /\ bucket[i].ski = ski
                         /\ \A j \in 1 .. i - 1 : bucket[j].asn <= asn}

\* Taking the j-th of n keys out of the array: the loop that closes the gap is
\* bounded by the number of keys left, so the last key is not moved.
Shift(der, j) ==
  [i \in 1 .. Len(der) - 1 |->
     IF i < j THEN der[i] ELSE IF i < Len(der) - 1 THEN der[i + 1] ELSE NoKey]

\* _ks_freeKS_Elem: without a previous element the next one becomes the head.
FreeElement(bucket, i) ==
  LET before == IF bucket[i].prev THEN SubSeq(bucket, 1, i - 1) ELSE <<>>
      after == SubSeq(bucket, i + 1, Len(bucket))
  IN before \o (IF after = <<>> THEN after
                ELSE [after EXCEPT ![1].prev = bucket[i].prev])

DelKey(bucket, key) ==
  LET holder == Holder(bucket, key.asn, key.ski)
  IN IF holder = {} THEN bucket
     ELSE LET i == Min(holder)
              der == bucket[i].der
          IN IF key.der \notin ToSet(der) THEN bucket
             ELSE IF Len(der) = 1 THEN FreeElement(bucket, i)
             ELSE [bucket EXCEPT ![i].der = Shift(@, Min({j \in DOMAIN @ : @[j] = key.der}))]

\* Storing and deleting read the keys of an element up to the wanted one
\* without a check for NULL.
ReadsNull(bucket, key) ==
  \E i \in Holder(bucket, key.asn, key.ski) :
    LET der == bucket[i].der
    IN \E j \in DOMAIN der : der[j] = NoKey /\ \A k \in 1 .. j : der[k] # key.der

-----------------------------------------------------------------------------
(* ks_getKey and validate *)

\* validate() of bgpsec_openssl.c on the signatures of one block, each with
\* the AS number, the SKI and the key it was made with: only the first key of
\* an SKI is tried.
Verify(bucket, signatures) ==
  \A s \in signatures :
    \E i \in Holder(bucket, s.asn, s.ski) :
      \E j \in DOMAIN bucket[i].der :
        /\ bucket[i].der[j] = s.der
        /\ \A k \in 1 .. j - 1 : bucket[i].der[k] = NoKey
=============================================================================
