-------------------------- MODULE AspaCacheProofs --------------------------
(***************************************************************************)
(* Proofs about ASPA validation: the walk along a path, for every path and *)
(* every set of objects, and the results of paths, updates and routers,    *)
(* for every number of updates, requests, PDUs and seconds.                *)
(***************************************************************************)
EXTENDS AspaCache, NaturalsInduction, SequenceTheorems, WellFoundedInduction, TLAPS

-----------------------------------------------------------------------------
(* The walk of validateASPA.                                               *)

LEMMA LeastNatural ==
  ASSUME NEW S, S \subseteq Nat, S # {}
  PROVE  \E m \in S : \A n \in S : m <= n
<1>1. PICK m \in S : \A n \in S : ~ (<<n, m>> \in OpToRel(<, Nat))
  BY NatLessThanWellFounded, WFMin
<1>2. ASSUME NEW n \in S PROVE m <= n
  <2>1. n \in Nat /\ m \in Nat
    OBVIOUS
  <2>2. n < m => <<n, m>> \in OpToRel(<, Nat)
    BY <2>1 DEF OpToRel
  <2>3. ~ (n < m)
    BY <1>1, <2>2, Zenon
  <2> QED
    BY <2>1, <2>3
<1> QED
  BY <1>2

\* With sound objects a hop has one result.
Hop(trie, c, p, afi) ==
  IF trie[c] = NoObject THEN "UNKNOWN"
  ELSE IF p \in trie[c].providers /\ afi = trie[c].afi THEN "VALID" ELSE "INVALID"

LEMMA LookupSound ==
  ASSUME NEW trie, SoundObjects(trie), NEW c \in DOMAIN trie, NEW p, NEW afi
  PROVE  /\ ASPA_DB_lookup(trie, c, p, afi) = {Hop(trie, c, p, afi)}
         /\ Hop(trie, c, p, afi) \in {"VALID", "INVALID", "UNKNOWN"}
         /\ NotDenied(trie, c, p, afi) <=> Hop(trie, c, p, afi) # "INVALID"
<1>1. trie[c] # Freed /\ ~InnerNode(trie, c)
  BY DEF SoundObjects
<1>2. ASPA_DB_lookup(trie, c, p, afi) = {Hop(trie, c, p, afi)}
  BY <1>1 DEF ASPA_DB_lookup, Hop
<1>3. Hop(trie, c, p, afi) \in {"VALID", "INVALID", "UNKNOWN"}
  BY DEF Hop
<1> QED
  BY <1>2, <1>3 DEF NotDenied

\* What the bits say is never "INVALID", and "VALID" only if all are.
LEMMA CombinedResult ==
  ASSUME NEW bits
  PROVE  /\ Combined(bits) \in {"VALID", "UNKNOWN", "UNVERIFIABLE", "UNDEFINED"}
         /\ Combined(bits) = "VALID" <=> bits \subseteq {"VALID"}
BY DEF Combined

LEMMA ReversedPath ==
  ASSUME NEW D, NEW path \in Seq(D)
  PROVE  /\ Len(path) \in Nat /\ Len(Reverse(path)) = Len(path)
         /\ \A i \in 1 .. Len(path) : Reverse(path)[i] \in D
<1> DEFINE n == Len(path)
<1>1. n \in Nat /\ DOMAIN path = 1 .. n /\ \A i \in 1 .. n : path[i] \in D
  OBVIOUS
<1>2. Reverse(path) = [i \in 1 .. n |-> path[(n - i) + 1]]
  BY DEF Reverse
<1> HIDE DEF n
<1>3. \A i \in 1 .. n : (n - i) + 1 \in 1 .. n
  BY <1>1
<1>4. Reverse(path) \in [1 .. n -> D]
  BY <1>1, <1>2, <1>3
<1>5. Len(Reverse(path)) = n
  BY <1>1, <1>4, LenProperties
<1> QED
  BY <1>1, <1>4, <1>5 DEF n

\* A walk in one direction throughout.
LEMMA UpstreamDecides ==
  ASSUME NEW trie, NEW path \in Seq(DOMAIN trie), path # <<>>, NEW direction, NEW afi,
         SoundObjects(trie), direction # "DOWNSTREAM"
  PROVE  Decides(trie, path, direction, afi)
<1> DEFINE l == Reverse(path)
           n == Len(l)
           Up(i) == Hop(trie, l[i], l[i + 1], afi)
           hop == [i \in 1 .. n - 1 |-> Up(i)]
<1>1. n \in Nat /\ n >= 1 /\ \A i \in 1 .. n : l[i] \in DOMAIN trie
  <2>1. Len(path) # 0
    OBVIOUS
  <2> QED
    BY <2>1, ReversedPath
<1> HIDE DEF l, n
<1>2. \A i \in 1 .. n - 1 : l[i] \in DOMAIN trie /\ l[i + 1] \in DOMAIN trie
  BY <1>1
<1>3. ASSUME NEW i \in 1 .. n - 1
      PROVE  /\ ASPA_DB_lookup(trie, l[i], l[i + 1], afi) = {Up(i)}
             /\ Up(i) \in HopResult /\ Up(i) # "UNDEFINED"
             /\ NotDenied(trie, l[i], l[i + 1], afi) <=> Up(i) # "INVALID"
  BY <1>2, LookupSound DEF HopResult
<1> HIDE DEF Up
<1>4. Walks(trie, path, direction, afi) = {hop}
  <2>1. hop \in [1 .. n - 1 -> HopResult]
    BY <1>3
  <2>2. Walks(trie, path, direction, afi) =
          {h \in [1 .. n - 1 -> HopResult] :
             \A i \in 1 .. n - 1 : h[i] \in ASPA_DB_lookup(trie, l[i], l[i + 1], afi)}
    BY DEF Walks, l, n
  <2>3. \A h \in [1 .. n - 1 -> HopResult] :
          (\A i \in 1 .. n - 1 : h[i] \in ASPA_DB_lookup(trie, l[i], l[i + 1], afi)) <=> h = hop
    BY <1>3, <2>1
  <2> QED
    BY <2>1, <2>2, <2>3
<1>5. Refuted(hop, direction) <=> \E i \in 1 .. n - 1 : Up(i) = "INVALID"
  BY DEF Refuted
<1>6. ValleyFree(trie, path, direction, afi) <=> \A i \in 1 .. n - 1 : Up(i) # "INVALID"
  <2>1. ValleyFree(trie, path, direction, afi) <=>
          /\ \A i \in 1 .. n - 1 : i < n => NotDenied(trie, l[i], l[i + 1], afi)
          /\ \A i \in 1 .. n - 1 : i > n => NotDenied(trie, l[i + 1], l[i], afi)
    BY DEF ValleyFree, l, n
  <2>2. \A i \in 1 .. n - 1 : i < n /\ ~(i > n)
    BY <1>1
  <2> QED
    BY <1>3, <2>1, <2>2
<1>7. Range(hop) \subseteq {"VALID"} <=> \A i \in 1 .. n - 1 : Up(i) = "VALID"
  BY DEF Range
<1>8. Attested(trie, path, afi) <=> \A i \in 1 .. n - 1 : Up(i) = "VALID"
  <2>1. Attested(trie, path, afi) <=>
          \A i \in 1 .. n - 1 : ASPA_DB_lookup(trie, l[i], l[i + 1], afi) = {"VALID"}
    BY DEF Attested, l, n
  <2> QED
    BY <1>3, <2>1
<1> HIDE DEF hop
<1>9. validateASPA(trie, path, "AS_SEQUENCE", direction, afi) =
        {IF Refuted(hop, direction) THEN "INVALID" ELSE Combined(Range(hop))}
  BY <1>4 DEF validateASPA
<1>10. /\ Combined(Range(hop)) # "INVALID"
       /\ Combined(Range(hop)) = "VALID" <=> Range(hop) \subseteq {"VALID"}
  BY CombinedResult
<1> QED
  BY <1>5, <1>6, <1>7, <1>8, <1>9, <1>10 DEF Decides

\* A walk that turns after the first invalid hop, or behind the last hop.
LEMMA DownstreamDecides ==
  ASSUME NEW trie, NEW path \in Seq(DOMAIN trie), path # <<>>, NEW afi, SoundObjects(trie)
  PROVE  Decides(trie, path, "DOWNSTREAM", afi)
<1> DEFINE l == Reverse(path)
           n == Len(l)
           Up(i) == Hop(trie, l[i], l[i + 1], afi)
           Down(i) == Hop(trie, l[i + 1], l[i], afi)
           denied == {i \in 1 .. n - 1 : Up(i) = "INVALID"}
<1>1. n \in Nat /\ n >= 1 /\ \A i \in 1 .. n : l[i] \in DOMAIN trie
  <2>1. Len(path) # 0
    OBVIOUS
  <2> QED
    BY <2>1, ReversedPath
<1> HIDE DEF l, n
<1>2. \A i \in 1 .. n - 1 : l[i] \in DOMAIN trie /\ l[i + 1] \in DOMAIN trie
  BY <1>1
<1>3. ASSUME NEW i \in 1 .. n - 1
      PROVE  /\ ASPA_DB_lookup(trie, l[i], l[i + 1], afi) = {Up(i)}
             /\ ASPA_DB_lookup(trie, l[i + 1], l[i], afi) = {Down(i)}
             /\ Up(i) \in HopResult /\ Up(i) # "UNDEFINED"
             /\ Down(i) \in HopResult /\ Down(i) # "UNDEFINED"
             /\ NotDenied(trie, l[i], l[i + 1], afi) <=> Up(i) # "INVALID"
             /\ NotDenied(trie, l[i + 1], l[i], afi) <=> Down(i) # "INVALID"
  BY <1>2, LookupSound DEF HopResult
<1> HIDE DEF Up, Down
\* The hop at which the walk turns.
<1>4. PICK m \in 1 .. n : /\ m \in denied \/ m = n
                          /\ \A i \in 1 .. n - 1 : Up(i) = "INVALID" => m <= i
  <2>1. CASE denied = {}
    <3>1. \A i \in 1 .. n - 1 : Up(i) # "INVALID"
      BY <2>1
    <3>2. n \in 1 .. n
      BY <1>1
    <3> HIDE DEF denied
    <3> QED
      BY <3>1, <3>2
  <2>2. CASE denied # {}
    <3>1. denied \subseteq Nat
      OBVIOUS
    <3>2. PICK m \in denied : \A i \in denied : m <= i
      BY <2>2, <3>1, LeastNatural
    <3> QED
      BY <1>1, <3>2
  <2> QED
    BY <2>1, <2>2
<1> DEFINE hop == [i \in 1 .. n - 1 |-> IF i <= m THEN Up(i) ELSE Down(i)]
           Walk(h) == \A i \in 1 .. n - 1 :
             h[i] \in IF Swapped(h, i) THEN ASPA_DB_lookup(trie, l[i + 1], l[i], afi)
                      ELSE ASPA_DB_lookup(trie, l[i], l[i + 1], afi)
<1>5. ASSUME NEW h \in [1 .. n - 1 -> HopResult], Walk(h), NEW i \in 1 .. n - 1
      PROVE  Swapped(h, i) <=> i > m
  <2> DEFINE invalid == {j \in 1 .. n - 1 : h[j] = "INVALID"}
  <2>1. \A j \in 1 .. n - 1 : ~ Swapped(h, j) => h[j] = Up(j)
    BY <1>3, <1>5
  <2>2. ASSUME NEW j \in invalid PROVE m <= j
    <3>1. invalid \subseteq Nat /\ invalid # {}
      OBVIOUS
    <3> HIDE DEF invalid
    <3>2. PICK k \in invalid : \A z \in invalid : k <= z
      BY <3>1, LeastNatural
    <3> USE DEF invalid
    <3>3. ~ Swapped(h, k)
      <4>1. \A z \in 1 .. k - 1 : z \in 1 .. n - 1 /\ ~(k <= z)
        BY <1>1, <3>2
      <4> QED
        BY <3>2, <4>1 DEF Swapped
    <3>4. Up(k) = "INVALID"
      BY <2>1, <3>2, <3>3
    <3>5. m <= k /\ k <= j
      BY <1>4, <3>2, <3>4
    <3> QED
      BY <1>1, <3>5
  <2>3. Swapped(h, i) => i > m
    BY <1>1, <2>2 DEF Swapped
  <2>4. i > m => Swapped(h, i)
    <3> HAVE i > m
    <3>1. m \in denied /\ m \in 1 .. n - 1 /\ m \in 1 .. i - 1
      BY <1>1, <1>4
    <3>2. ~ Swapped(h, m)
      <4>1. \A j \in 1 .. m - 1 : j \in 1 .. n - 1 /\ ~(m <= j)
        BY <1>1, <3>1
      <4> QED
        BY <2>2, <4>1 DEF Swapped
    <3>3. h[m] = "INVALID"
      BY <2>1, <3>1, <3>2
    <3> QED
      BY <3>1, <3>3 DEF Swapped
  <2> QED
    BY <2>3, <2>4
<1>6. hop \in [1 .. n - 1 -> HopResult]
  BY <1>3
<1>7. ASSUME NEW i \in 1 .. n - 1 PROVE Swapped(hop, i) <=> i > m
  <2>1. \A j \in 1 .. i - 1 : j \in 1 .. n - 1 /\ hop[j] = IF j <= m THEN Up(j) ELSE Down(j)
    BY <1>1
  <2>2. Swapped(hop, i) => i > m
    <3>1. ASSUME NEW j \in 1 .. i - 1, hop[j] = "INVALID" PROVE i > m
      <4>1. CASE j <= m
        BY <1>1, <1>4, <2>1, <3>1, <4>1
      <4>2. CASE ~(j <= m)
        BY <1>1, <4>2
      <4> QED
        BY <4>1, <4>2
    <3> HIDE DEF hop
    <3> QED
      BY <3>1 DEF Swapped
  <2>3. i > m => Swapped(hop, i)
    <3> HAVE i > m
    <3>1. m \in denied /\ m \in 1 .. i - 1
      BY <1>1, <1>4
    <3>2. hop[m] = "INVALID"
      BY <1>1, <2>1, <3>1
    <3> HIDE DEF hop
    <3> QED
      BY <3>1, <3>2 DEF Swapped
  <2> QED
    BY <2>2, <2>3
<1>8. Walks(trie, path, "DOWNSTREAM", afi) = {hop}
  <2>1. Walks(trie, path, "DOWNSTREAM", afi) = {h \in [1 .. n - 1 -> HopResult] : Walk(h)}
    BY DEF Walks, l, n
  <2>2. Walk(hop)
    <3> SUFFICES ASSUME NEW i \in 1 .. n - 1
                 PROVE  hop[i] \in IF Swapped(hop, i)
                                   THEN ASPA_DB_lookup(trie, l[i + 1], l[i], afi)
                                   ELSE ASPA_DB_lookup(trie, l[i], l[i + 1], afi)
      OBVIOUS
    <3>1. hop[i] = IF i <= m THEN Up(i) ELSE Down(i)
      OBVIOUS
    <3> HIDE DEF hop
    <3>2. CASE i > m
      <4>1. hop[i] = Down(i) /\ Swapped(hop, i)
        BY <1>1, <1>7, <3>1, <3>2
      <4> QED
        BY <1>3, <4>1
    <3>3. CASE i <= m
      <4>1. hop[i] = Up(i) /\ ~ Swapped(hop, i)
        BY <1>1, <1>7, <3>1, <3>3
      <4> QED
        BY <1>3, <4>1
    <3> QED
      BY <1>1, <3>2, <3>3
  <2>3. ASSUME NEW h \in [1 .. n - 1 -> HopResult], Walk(h) PROVE h = hop
    <3>1. ASSUME NEW i \in 1 .. n - 1 PROVE h[i] = IF i <= m THEN Up(i) ELSE Down(i)
      <4>1. Swapped(h, i) <=> i > m
        BY <1>5, <2>3
      <4>2. h[i] \in IF i > m THEN {Down(i)} ELSE {Up(i)}
        BY <1>3, <2>3, <4>1
      <4> QED
        BY <1>1, <4>2
    <3> HIDE DEF Walk
    <3> QED
      BY <3>1
  <2> HIDE DEF Walk, hop
  <2> QED
    BY <1>6, <2>1, <2>2, <2>3
<1>9. \A i \in 1 .. n - 1 : hop[i] = IF i <= m THEN Up(i) ELSE Down(i)
  OBVIOUS
<1>10. DOMAIN hop = 1 .. n - 1 /\ Range(hop) = {hop[i] : i \in 1 .. n - 1}
  BY DEF Range
<1> HIDE DEF hop, Walk
<1>11. Refuted(hop, "DOWNSTREAM") <=> \E i \in 1 .. n - 1 : i > m /\ Down(i) = "INVALID"
  <2>1. \A i \in 1 .. n - 1 : hop[i] # "UNDEFINED"
    BY <1>3, <1>9
  <2>2. Refuted(hop, "DOWNSTREAM") <=>
          \E i \in 1 .. n - 1 : hop[i] = "INVALID" /\ Swapped(hop, i)
    BY <1>10, <2>1 DEF Refuted
  <2>3. \A i \in 1 .. n - 1 : i > m => hop[i] = Down(i)
    BY <1>1, <1>9
  <2> QED
    BY <1>7, <2>2, <2>3
<1>12. ValleyFree(trie, path, "DOWNSTREAM", afi) <=>
         \A i \in 1 .. n - 1 : i > m => Down(i) # "INVALID"
  <2>1. ValleyFree(trie, path, "DOWNSTREAM", afi) <=>
          \E k \in 1 .. n :
            /\ \A i \in 1 .. n - 1 : i < k => Up(i) # "INVALID"
            /\ \A i \in 1 .. n - 1 : i > k => Down(i) # "INVALID"
    <3>1. ValleyFree(trie, path, "DOWNSTREAM", afi) <=>
            \E k \in 1 .. n :
              /\ \A i \in 1 .. n - 1 : i < k => NotDenied(trie, l[i], l[i + 1], afi)
              /\ \A i \in 1 .. n - 1 : i > k => NotDenied(trie, l[i + 1], l[i], afi)
      BY DEF ValleyFree, l, n
    <3> QED
      BY <1>3, <3>1
  <2>2. \A i \in 1 .. n - 1 : i < m => Up(i) # "INVALID"
    BY <1>1, <1>4
  <2>3. ASSUME NEW k \in 1 .. n, \A i \in 1 .. n - 1 : i < k => Up(i) # "INVALID"
        PROVE  k <= m
    BY <1>1, <1>4, <2>3
  <2>4. ASSUME NEW k \in 1 .. n, \A i \in 1 .. n - 1 : i < k => Up(i) # "INVALID",
               \A i \in 1 .. n - 1 : i > k => Down(i) # "INVALID",
               NEW i \in 1 .. n - 1, i > m
        PROVE  Down(i) # "INVALID"
    <3>1. k <= m
      BY <2>3, <2>4
    <3>2. i > k
      BY <1>1, <2>4, <3>1
    <3> QED
      BY <2>4, <3>2
  <2> QED
    BY <2>1, <2>2, <2>4
<1>13. Attested(trie, path, afi) <=> \A i \in 1 .. n - 1 : Up(i) = "VALID"
  <2>1. Attested(trie, path, afi) <=>
          \A i \in 1 .. n - 1 : ASPA_DB_lookup(trie, l[i], l[i + 1], afi) = {"VALID"}
    BY DEF Attested, l, n
  <2> QED
    BY <1>3, <2>1
<1>14. Range(hop) \subseteq {"VALID"} <=> \A i \in 1 .. n - 1 : Up(i) = "VALID"
  <2>1. Range(hop) \subseteq {"VALID"} <=> \A i \in 1 .. n - 1 : hop[i] = "VALID"
    BY <1>10
  <2>2. ASSUME \A i \in 1 .. n - 1 : Up(i) = "VALID" PROVE \A i \in 1 .. n - 1 : hop[i] = "VALID"
    <3>1. m = n
      BY <1>4, <2>2
    <3> QED
      BY <1>1, <1>9, <2>2, <3>1
  <2>3. ASSUME \A i \in 1 .. n - 1 : hop[i] = "VALID" PROVE \A i \in 1 .. n - 1 : Up(i) = "VALID"
    <3>1. m = n
      <4>1. m \in denied => hop[m] = "INVALID"
        BY <1>1, <1>9
      <4> QED
        BY <1>4, <2>3, <4>1
    <3> QED
      BY <1>1, <1>9, <2>3, <3>1
  <2> QED
    BY <2>1, <2>2, <2>3
<1>15. (\A i \in 1 .. n - 1 : Up(i) = "VALID") => ~ Refuted(hop, "DOWNSTREAM")
  <2>1. (\A i \in 1 .. n - 1 : Up(i) = "VALID") => m = n
    BY <1>4
  <2> QED
    BY <1>1, <1>11, <2>1
<1>16. validateASPA(trie, path, "AS_SEQUENCE", "DOWNSTREAM", afi) =
         {IF Refuted(hop, "DOWNSTREAM") THEN "INVALID" ELSE Combined(Range(hop))}
  BY <1>8 DEF validateASPA
<1>17. /\ Combined(Range(hop)) # "INVALID"
       /\ Combined(Range(hop)) = "VALID" <=> Range(hop) \subseteq {"VALID"}
  BY CombinedResult
<1> QED
  BY <1>11, <1>12, <1>13, <1>14, <1>15, <1>16, <1>17 DEF Decides

\* The walk of validateASPA refuses exactly the paths with a valley and accepts
\* exactly those attested hop by hop, whatever the objects, as long as no node
\* of the trie was freed or is an inner one.
THEOREM WalkDecides ==
  ASSUME NEW trie, NEW path \in Seq(DOMAIN trie), path # <<>>, NEW direction, NEW afi
  PROVE  Decides(trie, path, direction, afi)
<1>1. CASE ~ SoundObjects(trie)
  BY <1>1 DEF Decides
<1>2. CASE SoundObjects(trie) /\ direction # "DOWNSTREAM"
  BY <1>2, UpstreamDecides
<1>3. CASE SoundObjects(trie) /\ direction = "DOWNSTREAM"
  BY <1>3, DownstreamDecides
<1> QED
  BY <1>1, <1>2, <1>3

-----------------------------------------------------------------------------
(* The inductive invariant.                                                *)

\* What the threads hold.
Received == [at : {"store", "copy", "answer"}, update : Update, answered : BOOLEAN,
             result : ToldResult, default : ToldResult, copies : BOOLEAN]
ReceivedAgain == [at : {"answer"}, update : Update, answered : BOOLEAN, result : PathResult]

ReceiverTyped ==
  /\ receiver \in {NoRequest} \cup Received \cup ReceivedAgain
  /\ receiver.at = "store" =>
       /\ receiver.update \notin Range(order)
       /\ cached[PathOf[receiver.update]] # None
  /\ receiver.at \in {"copy", "answer"} => receiver.update \in Range(order)

Taken == [at : {"copy"}, update : Update]
TakenValidated == [at : {"path", "update"}, update : Update, new : PathResult, result : ToldResult]
TakenStored == [at : {"update"}, update : Update, result : PathResult]

HandlerTyped ==
  /\ handler \in {NoCommand} \cup Taken \cup TakenValidated \cup TakenStored
  /\ handler.at # "idle" => handler.update \in Range(order)

Visiting == [at : {"visit"}, eod : 1 .. MaxTime, update : Update, next : Nat]
Changing == [at : {"path", "update"}, eod : 1 .. MaxTime, update : Update, next : Nat,
             new : PathResult, old : ToldResult]
Telling == [at : {"tell"}, update : Update, result : PathResult]
Draining == [at |-> "drain", update |-> None]

Validating == rpki.at \in {"visit", "path", "update"}

RPKITyped ==
  /\ rpki \in {NoData, Draining} \cup Visiting \cup Changing \cup Telling
  /\ Validating => rpki.update \in Range(order) /\ rpki.eod <= time /\ rpki.next <= Len(order)
  /\ rpki.at = "tell" => rpki.update \in Range(order)
  /\ rpki.at = "idle" => queue = <<>>

\* A path the router gave no result for is not modified yet.
ModifiedTyped ==
  /\ time >= 1
  /\ \A p \in Path : cached[p] # None =>
       /\ cached[p].modified <= time
       /\ cached[p].result = "DONOTUSE" => cached[p].modified = 0

UntoldUntilStored == \A u \in Update \ Range(order) : told[u] = None

Typed ==
  /\ TypeOK
  /\ ReceiverTyped /\ HandlerTyped /\ RPKITyped
  /\ ModifiedTyped
  /\ UntoldUntilStored
  /\ due \subseteq Path /\ moved \subseteq Path

\* The updates an End of Data still visits.
Later(n) == IF n = 0 THEN {} ELSE {order[j] : j \in n .. Len(order)}

Ahead ==
  IF rpki.at = "visit" THEN {rpki.update} \cup Later(rpki.next)
  ELSE IF Validating THEN Later(rpki.next) ELSE {}

\* An End of Data writes a result of the current objects.
WritesValidated ==
  rpki.at = "path" =>
    rpki.new \in Validated(PathOf[rpki.update], cached[PathOf[rpki.update]])

\* A path that is due is current, or about to be.
DueDone ==
  \A p \in due :
    /\ cached[p] # None
    /\ \/ cached[p].result \in Validated(p, cached[p])
       \/ rpki.at = "path" /\ PathOf[rpki.update] = p
       \/ /\ rpki.eod > cached[p].modified
          /\ \E u \in Ahead : PathOf[u] = p /\ entry[u].default # "INVALID"

\* Nobody but the RPKI thread has an update that is not mixed.
Separate == rpki.at # "idle" => {receiver.update, handler.update} \ {None} \subseteq mixed

\* The first request of an update is answered before there is a command for it.
FirstRequest ==
  receiver.at = "copy" =>
    /\ receiver.update \notin Range(commands)
    /\ handler.update # receiver.update
    /\ receiver.update \in mixed \/ told[receiver.update] = None

\* What is left to do for an update of a path that has a result.
WillFollow(u) ==
  \/ PathOf[u] \in moved
  \/ entry[u].result \in {"UNDEFINED", cached[PathOf[u]].result}
  \/ rpki.at = "update" /\ rpki.update = u
  \/ u \in Ahead /\ rpki.eod <= cached[PathOf[u]].modified

Follows == \A u \in Settled : WillFollow(u)

\* The path of an update that was visited is newer than the End of Data.
Visited ==
  Validating =>
    \A u \in Settled \ Ahead :
      (rpki.at = "path" => PathOf[rpki.update] # PathOf[u]) =>
        cached[PathOf[u]].modified >= rpki.eod

\* A path is validated for the first of its updates.
FirstOfPath ==
  rpki.at = "path" =>
    /\ entry[rpki.update].default # "INVALID"
    /\ \A u \in Settled \ Ahead : PathOf[u] = PathOf[rpki.update] =>
         /\ u = rpki.update
         /\ PathOf[u] \in moved \/ entry[u].result \in {"UNDEFINED", rpki.old}

\* What the threads carry between reading and writing.
ReceiverCarries ==
  receiver.at = "copy" \/ (receiver.at = "store" /\ receiver.copies) =>
    LET p == PathOf[receiver.update] IN
      /\ receiver.result # "UNDEFINED"
      /\ receiver.update \notin mixed /\ p \notin moved => receiver.result = cached[p].result

HandlerCarries ==
  handler.at \in {"path", "update"} =>
    LET p == PathOf[handler.update] IN
      handler.update \notin mixed /\ p \notin moved =>
        \/ handler.result = cached[p].result
        \/ handler.at = "path" /\ cached[p].result = "UNDEFINED" /\ handler.result = handler.new
        \/ handler.at = "update" /\ handler.result \in {"UNDEFINED", "DONOTUSE"}

RPKICarries ==
  /\ rpki.at = "update" =>
       LET p == PathOf[rpki.update] IN
         rpki.update \notin mixed /\ p \notin moved => rpki.new \in {"UNDEFINED", cached[p].result}
  /\ rpki.at = "tell" => rpki.update \in mixed \/ rpki.result = entry[rpki.update].result

Nothing == {None, "DONOTUSE", "UNDEFINED"}

\* An update of a path the router gave no result for has none itself.
HasNoResult(u) ==
  /\ u \in Range(order) => entry[u].result = "UNDEFINED"
  /\ told[u] \in Nothing
  /\ receiver.update = u => receiver.result \in {"DONOTUSE", "UNDEFINED"}
  /\ handler.update = u => handler.at \in {"copy", "path"}
  /\ handler.at = "path" /\ handler.update = u => handler.result = "DONOTUSE"
  /\ rpki.update = u => rpki.at \in {"visit", "path"}
  /\ u \notin Range(queue)

NoResultYet ==
  \A u \in Update :
    cached[PathOf[u]] # None /\ cached[PathOf[u]].result = "DONOTUSE" => HasNoResult(u)

\* A command without a result to store.
NothingToStore ==
  handler.at \in {"path", "update"} =>
    LET u == handler.update IN
      handler.result = "DONOTUSE" /\ u \notin mixed =>
        /\ entry[u].result = "UNDEFINED"
        /\ told[u] \in Nothing \/ u \in Range(commands)

\* The router has the result, or is about to get it.
IsTold(u) ==
  \/ told[u] \in {None, "DONOTUSE", entry[u].result}
  \/ u \in Range(commands) \cup Range(queue)
  \/ handler.update = u
  \/ rpki.at = "tell" /\ rpki.update = u

WillBeTold == \A u \in Settled : IsTold(u)

-----------------------------------------------------------------------------
(* Types.                                                                  *)

LEMMA Constants ==
  /\ None \notin Update
  /\ \A u \in Update : PathOf[u] \in Path
  /\ None \notin CachedPath
  /\ Default \subseteq ToldResult /\ Stream \subseteq Direction
  /\ \A o \in Object : o.customer \in Asn
  /\ MaxTime \in Nat /\ MaxTime >= 1
  /\ PathResult \subseteq ToldResult /\ "DONOTUSE" \notin PathResult /\ "UNDEFINED" \in PathResult
BY AspaAssumption DEF Path, Asn, ToldResult, PathResult, HopResult

LEMMA ValidatedResult == \A p, c : Validated(p, c) \subseteq PathResult
BY CombinedResult DEF Validated, validateASPA, PathResult, HopResult

LEMMA Appended ==
  ASSUME NEW D, NEW s \in Seq(D), NEW x \in D
  PROVE  /\ Append(s, x) \in Seq(D) /\ Len(Append(s, x)) = Len(s) + 1
         /\ \A i \in 1 .. Len(s) : Append(s, x)[i] = s[i]
         /\ Append(s, x)[Len(s) + 1] = x
         /\ Range(Append(s, x)) = Range(s) \cup {x}
         /\ IsInjective(s) /\ x \notin Range(s) => IsInjective(Append(s, x))
<1> DEFINE t == Append(s, x)
<1>1. /\ t \in Seq(D) /\ Len(t) = Len(s) + 1 /\ Len(s) \in Nat
      /\ DOMAIN t = 1 .. Len(s) + 1 /\ DOMAIN s = 1 .. Len(s)
      /\ \A i \in 1 .. Len(s) : t[i] = s[i]
      /\ t[Len(s) + 1] = x
  OBVIOUS
<1> HIDE DEF t
<1>2. Range(t) = Range(s) \cup {x}
  BY <1>1 DEF Range
<1>3. IsInjective(s) /\ x \notin Range(s) => IsInjective(t)
  BY <1>1 DEF Range, IsInjective
<1> QED
  BY <1>1, <1>2, <1>3 DEF t

LEMMA FirstAndRest ==
  ASSUME NEW D, NEW s \in Seq(D), s # <<>>
  PROVE  /\ Head(s) \in D /\ Head(s) \in Range(s)
         /\ Tail(s) \in Seq(D)
         /\ Range(s) = {Head(s)} \cup Range(Tail(s))
         /\ IsInjective(s) => IsInjective(Tail(s))
<1> DEFINE t == Tail(s)
<1>1. Len(s) \in Nat /\ Len(s) >= 1 /\ DOMAIN s = 1 .. Len(s) /\ Head(s) = s[1] /\ s[1] \in D
  OBVIOUS
<1>2. /\ t \in Seq(D) /\ DOMAIN t = 1 .. Len(s) - 1
      /\ \A i \in 1 .. Len(s) - 1 : t[i] = s[i + 1]
  OBVIOUS
<1> HIDE DEF t
<1>3. Range(s) = {Head(s)} \cup Range(t)
  <2>1. \A i \in 1 .. Len(s) : i = 1 \/ (i - 1 \in DOMAIN t /\ t[i - 1] = s[i])
    BY <1>1, <1>2
  <2>2. \A i \in DOMAIN t : i + 1 \in DOMAIN s /\ s[i + 1] = t[i]
    BY <1>1, <1>2
  <2>3. Range(s) \subseteq {Head(s)} \cup Range(t)
    <3> SUFFICES ASSUME NEW i \in DOMAIN s PROVE s[i] \in {Head(s)} \cup Range(t)
      BY DEF Range
    <3>1. i = 1 => s[i] = Head(s)
      BY <1>1
    <3>2. i - 1 \in DOMAIN t /\ t[i - 1] = s[i] => s[i] \in Range(t)
      BY DEF Range
    <3> QED
      BY <1>1, <2>1, <3>1, <3>2
  <2>4. Range(t) \subseteq Range(s)
    BY <2>2 DEF Range
  <2>5. Head(s) \in Range(s)
    BY <1>1 DEF Range
  <2> QED
    BY <2>3, <2>4, <2>5
<1>4. IsInjective(s) => IsInjective(t)
  <2> SUFFICES ASSUME IsInjective(s), NEW i \in DOMAIN t, NEW j \in DOMAIN t, t[i] = t[j]
               PROVE  i = j
    BY DEF IsInjective
  <2>1. i + 1 \in DOMAIN s /\ j + 1 \in DOMAIN s /\ s[i + 1] = s[j + 1]
    BY <1>1, <1>2
  <2> QED
    BY <1>2, <2>1 DEF IsInjective
<1>5. Head(s) \in Range(s)
  BY <1>1 DEF Range
<1> QED
  BY <1>1, <1>2, <1>3, <1>4, <1>5 DEF t

\* What a thread holds at each of its steps.
LEMMA ReceiverHolds ==
  ASSUME ReceiverTyped
  PROVE  /\ receiver.at # "idle" => receiver.update \in Update
         /\ receiver.at \in {"store", "copy"} => receiver \in Received
         /\ receiver.at = "answer" => receiver.answered \in BOOLEAN /\ receiver.result \in ToldResult
         /\ receiver.at = "idle" => receiver = NoRequest
BY Constants DEF ReceiverTyped, NoRequest, Received, ReceivedAgain

LEMMA HandlerHolds ==
  ASSUME HandlerTyped
  PROVE  /\ handler.at # "idle" => handler.update \in Update
         /\ handler.at = "path" => handler \in TakenValidated
         /\ handler.at \in {"path", "update"} => handler.result \in ToldResult
         /\ handler.at = "idle" => handler = NoCommand
BY Constants DEF HandlerTyped, NoCommand, Taken, TakenValidated, TakenStored

LEMMA RPKIHolds ==
  ASSUME RPKITyped
  PROVE  /\ Validating \/ rpki.at = "tell" => rpki.update \in Update
         /\ rpki.at = "visit" => rpki \in Visiting
         /\ rpki.at \in {"path", "update"} => rpki \in Changing
         /\ Validating => rpki.eod \in 1 .. MaxTime /\ rpki.next \in Nat
         /\ rpki.at = "tell" => rpki.result \in PathResult
         /\ rpki.at = "idle" => rpki = NoData
BY DEF RPKITyped, NoData, Draining, Visiting, Changing, Telling, Validating

\* An End of Data goes on with the next update, or empties the queue.
LEMMA VisitTyped ==
  ASSUME order \in Seq(Update), NEW i \in Nat, NEW eod \in 1 .. MaxTime
  PROVE  /\ Visit(i, eod) \in Visiting \cup {Draining}
         /\ Visit(i, eod).at \in {"visit", "drain"}
         /\ Visit(i, eod).at = "visit" =>
              /\ i \in DOMAIN order
              /\ Visit(i, eod).update = order[i] /\ Visit(i, eod).update \in Range(order)
              /\ Visit(i, eod).eod = eod
              /\ Visit(i, eod).next <= Len(order)
              /\ Visit(i, eod).next = IF i < Len(order) THEN i + 1 ELSE 0
         /\ Visit(i, eod).at = "drain" => i \notin DOMAIN order
<1>1. DOMAIN order = 1 .. Len(order) /\ Len(order) \in Nat
  OBVIOUS
<1>2. CASE i \in DOMAIN order
  <2>1. order[i] \in Update /\ order[i] \in Range(order)
    BY <1>2 DEF Range
  <2>2. (IF i < Len(order) THEN i + 1 ELSE 0) \in 0 .. Len(order)
    BY <1>1
  <2> QED
    BY <1>1, <1>2, <2>1, <2>2 DEF Visit, Visiting
<1>3. CASE i \notin DOMAIN order
  BY <1>3 DEF Visit, Draining
<1> QED
  BY <1>2, <1>3

LEMMA TypedInit == Init => Typed
<1> SUFFICES ASSUME Init PROVE Typed
  OBVIOUS
<1>1. Range(<<>>) = {}
  BY DEF Range
<1>2. order \in Seq(Update) /\ IsInjective(order) /\ queue \in Seq({}) /\ commands \in Seq({})
  BY DEF Init, IsInjective
<1>3. TypeOK
  <2>1. time \in 0 .. MaxTime /\ changes \in 0 .. MaxChanges /\ asked \in 0 .. MaxRequests
    BY AspaAssumption DEF Init
  <2>2. cached \in [Path -> CachedPath \cup {None}] /\ told \in [Update -> ToldResult \cup {None}]
    BY DEF Init
  <2>3. entry \in [Update -> Entry \cup {None}] /\ \A u \in Update : u \notin Range(order) /\ entry[u] = None
    BY <1>1 DEF Init
  <2>4. db \in [Asn -> Object \cup {NoObject, Freed}] /\ \A a \in Asn : db[a] \in Object => db[a].customer = a
    BY AspaAssumption DEF Init
  <2>5. receiver.at = "idle" /\ handler.at = "idle" /\ rpki.at = "idle" /\ IsInjective(queue)
    BY DEF Init, NoRequest, NoCommand, NoData, IsInjective
  <2>6. Range(order) = {}
    BY <1>1 DEF Init
  <2> QED
    BY <1>2, <2>1, <2>2, <2>3, <2>4, <2>5, <2>6 DEF TypeOK
<1>4. ReceiverTyped /\ HandlerTyped /\ RPKITyped
  BY DEF Init, ReceiverTyped, HandlerTyped, RPKITyped, NoRequest, NoCommand, NoData, Validating
<1>5. ModifiedTyped /\ UntoldUntilStored
  BY DEF Init, ModifiedTyped, UntoldUntilStored
<1> QED
  BY <1>3, <1>4, <1>5 DEF Typed, Init

\* Steps of the receiver.
LEMMA RequestTyped ==
  ASSUME Typed, NEW u \in Update, NEW d \in Default, NEW s \in Stream, NEW a \in BOOLEAN,
         Request(u, d, s, a)
  PROVE  Typed'
<1> DEFINE p == PathOf[u]
<1>1. p \in Path /\ d \in ToldResult /\ s \in Direction
  BY Constants
<1>2. /\ receiver' \in Received \cup ReceivedAgain
      /\ receiver'.update = u
      /\ receiver'.at = "store" => u \notin Range(order) /\ cached'[p] # None
      /\ receiver'.at # "store" => receiver'.at = "answer" /\ u \in Range(order)
      /\ cached' \in [Path -> CachedPath \cup {None}]
      /\ \A q \in Path : cached'[q] # cached[q] => cached[q] = None /\ cached'[q].modified = 0
      /\ \A q \in Path : cached[q] # None => cached'[q] # None
  <2>1. CASE u \in Range(order)
    <3>1. entry[u].result \in PathResult
      BY <2>1 DEF Typed, TypeOK, Entry
    <3>2. cached' = cached
      BY <2>1 DEF Request
    <3>3. receiver' = [at |-> "answer", update |-> u, answered |-> a, result |-> entry[u].result]
      BY <2>1 DEF Request
    <3> QED
      BY <2>1, <3>1, <3>2, <3>3 DEF Typed, TypeOK, ReceivedAgain
  <2>2. CASE u \notin Range(order) /\ cached[p] # None
    <3>1. cached[p].result \in ToldResult
      BY <1>1, <2>2 DEF Typed, TypeOK, CachedPath
    <3>2. cached' = cached
      BY <2>2 DEF Request
    <3>3. receiver' = [at |-> "store", update |-> u, answered |-> a, result |-> cached[p].result,
                       default |-> "DONOTUSE", copies |-> cached[p].result # "UNDEFINED"]
      BY <2>2 DEF Request
    <3> QED
      BY <2>2, <3>1, <3>2, <3>3 DEF Typed, TypeOK, Received, ToldResult
  <2>3. CASE u \notin Range(order) /\ cached[p] = None
    <3> DEFINE c == [result |-> d, direction |-> s, modified |-> 0]
    <3>1. c \in CachedPath /\ c # None
      BY <1>1, Constants DEF CachedPath
    <3>2. cached' = [cached EXCEPT ![p] = c]
      BY <2>3 DEF Request
    <3>3. receiver' = [at |-> "store", update |-> u, answered |-> a, result |-> d,
                       default |-> d, copies |-> FALSE]
      BY <2>3 DEF Request
    <3>4. c.modified = 0
      OBVIOUS
    <3> HIDE DEF c
    <3>5. receiver' \in Received /\ receiver'.at = "store" /\ receiver'.update = u
      BY <1>1, <3>3 DEF Received
    <3>6. cached \in [Path -> CachedPath \cup {None}]
      BY DEF Typed, TypeOK
    <3> QED
      BY <1>1, <2>3, <3>1, <3>2, <3>4, <3>5, <3>6
  <2> QED
    BY <2>1, <2>2, <2>3
<1>3. /\ UNCHANGED <<db, changes, time, order, entry, commands, handler, rpki, queue, told, due, moved>>
      /\ asked' = asked + 1 /\ asked < MaxRequests
  BY DEF Request, objects, history
<1>4. TypeOK'
  <2>1. receiver'.at \in {"store", "copy", "answer"}
    BY <1>2 DEF Received, ReceivedAgain
  <2>2. asked' \in 0 .. MaxRequests
    BY <1>3, AspaAssumption DEF Typed, TypeOK
  <2>3. \A v \in Update : cached[PathOf[v]] # None => cached'[PathOf[v]] # None
    BY <1>2, Constants
  <2> QED
    BY <1>2, <1>3, <2>1, <2>2, <2>3 DEF Typed, TypeOK
<1>5. ReceiverTyped'
  BY <1>2, <1>3 DEF ReceiverTyped, Received, ReceivedAgain
<1>6. HandlerTyped' /\ RPKITyped' /\ UntoldUntilStored'
  BY <1>3 DEF Typed, HandlerTyped, RPKITyped, UntoldUntilStored, Validating
<1>7. ModifiedTyped'
  <2>1. \A q \in Path : cached'[q] = cached[q] \/ cached'[q].modified = 0
    BY <1>2
  <2>2. time \in Nat /\ time' = time
    BY <1>3 DEF Typed, TypeOK
  <2> QED
    BY <2>1, <2>2 DEF Typed, ModifiedTyped
<1> QED
  BY <1>2, <1>3, <1>4, <1>5, <1>6, <1>7 DEF Typed

LEMMA ResultSet ==
  ASSUME TypeOK, NEW u \in Update, u \in Range(order), NEW r \in ToldResult, SetResult(u, r)
  PROVE  /\ entry' \in [Update -> Entry \cup {None}]
         /\ \A v \in Update : v \notin Range(order) => entry'[v] = entry[v]
         /\ \A v \in Update : v \in Range(order) =>
              /\ entry'[v] \in Entry
              /\ entry'[v].default = entry[v].default
              /\ entry'[v].result = IF v = u /\ r # "DONOTUSE" THEN r ELSE entry[v].result
<1>1. entry \in [Update -> Entry \cup {None}] /\ \A v \in Update : v \in Range(order) => entry[v] \in Entry
  BY DEF TypeOK
<1>2. CASE r = "DONOTUSE"
  BY <1>1, <1>2 DEF SetResult
<1>3. CASE r # "DONOTUSE"
  <2> DEFINE e == [entry[u] EXCEPT !.result = r]
  <2>1. entry' = [entry EXCEPT ![u] = e]
    BY <1>3 DEF SetResult
  <2>2. e \in Entry /\ e.result = r /\ e.default = entry[u].default
    BY <1>1, <1>3 DEF Entry, ToldResult
  <2> HIDE DEF e
  <2> QED
    BY <1>1, <1>3, <2>1, <2>2
<1> QED
  BY <1>2, <1>3

LEMMA PathModified ==
  ASSUME TypeOK, NEW p \in Path, cached[p] # None, NEW r \in PathResult, ModifyPath(p, r)
  PROVE  /\ cached' \in [Path -> CachedPath \cup {None}]
         /\ \A q \in Path : q # p => cached'[q] = cached[q]
         /\ cached'[p] # None
         /\ cached'[p].result = r /\ cached'[p].modified = time
         /\ cached'[p].direction = cached[p].direction
<1> DEFINE c == [cached[p] EXCEPT !.result = r, !.modified = time]
<1>1. cached \in [Path -> CachedPath \cup {None}] /\ cached[p] \in CachedPath /\ time \in 0 .. MaxTime
  BY DEF TypeOK
<1>2. cached' = [cached EXCEPT ![p] = c]
  BY DEF ModifyPath
<1>3. /\ c \in CachedPath /\ c.result = r /\ c.modified = time
      /\ c.direction = cached[p].direction
  BY <1>1, Constants DEF CachedPath
<1> HIDE DEF c
<1> QED
  BY <1>1, <1>2, <1>3, Constants

LEMMA StoreTyped ==
  ASSUME Typed, storeUpdate
  PROVE  Typed'
<1> DEFINE u == receiver.update
           e == [result |-> "UNDEFINED", default |-> receiver.default]
<1>1. /\ receiver.at = "store" /\ receiver \in Received /\ u \in Update /\ u \notin Range(order)
      /\ cached[PathOf[u]] # None
  BY ReceiverHolds DEF storeUpdate, Typed, ReceiverTyped
<1>2. order' = Append(order, u) /\ entry' = [entry EXCEPT ![u] = e]
  BY DEF storeUpdate
<1>3. UNCHANGED <<db, changes, time, asked, cached, commands, handler, rpki, queue, told, due, moved>>
  BY DEF storeUpdate, objects, history
<1>4. receiver' \in Received /\ receiver'.at \in {"copy", "answer"} /\ receiver'.update = u
  <2>1. receiver' = [receiver EXCEPT !.at = IF receiver.copies THEN "copy" ELSE "answer"]
    BY DEF storeUpdate
  <2> QED
    BY <1>1, <2>1 DEF Received
<1>5. e \in Entry
  BY <1>1 DEF Entry, Received, PathResult, HopResult
<1> HIDE DEF u, e
<1>6. /\ order' \in Seq(Update) /\ IsInjective(order')
      /\ Range(order') = Range(order) \cup {u}
      /\ Len(order') = Len(order) + 1
  BY <1>1, <1>2, Appended DEF Typed, TypeOK
<1>7. TypeOK'
  <2>1. /\ entry \in [Update -> Entry \cup {None}]
        /\ \A v \in Update : v \in Range(order) => entry[v] \in Entry /\ cached[PathOf[v]] # None
        /\ \A v \in Update : v \notin Range(order) => entry[v] = None
    BY DEF Typed, TypeOK
  <2>2. entry' \in [Update -> Entry \cup {None}]
    BY <1>2, <1>5, <2>1
  <2>3. \A v \in Update : v # u => entry'[v] = entry[v] /\ (v \in Range(order') <=> v \in Range(order))
    BY <1>2, <1>6, <2>1
  <2>4. entry'[u] \in Entry /\ u \in Range(order')
    BY <1>1, <1>2, <1>5, <1>6, <2>1
  <2>5. \A v \in Update : IF v \in Range(order') THEN entry'[v] \in Entry /\ cached'[PathOf[v]] # None
                          ELSE entry'[v] = None
    BY <1>1, <1>3, <2>1, <2>3, <2>4
  <2>6. commands' \in Seq(Range(order')) /\ queue' \in Seq(Range(order'))
    BY <1>3, <1>6 DEF Typed, TypeOK
  <2> QED
    BY <1>3, <1>4, <1>6, <2>2, <2>5, <2>6 DEF Typed, TypeOK
<1>8. ReceiverTyped'
  BY <1>4, <1>6 DEF ReceiverTyped
<1>9. HandlerTyped' /\ RPKITyped' /\ UntoldUntilStored'
  <2>1. Len(order) \in Nat
    BY DEF Typed, TypeOK
  <2>2. rpki.next \in Nat \/ ~Validating
    BY RPKIHolds DEF Typed
  <2> QED
    BY <1>3, <1>6, <2>1, <2>2 DEF Typed, HandlerTyped, RPKITyped, UntoldUntilStored, Validating
<1>10. ModifiedTyped'
  BY <1>3 DEF Typed, ModifiedTyped
<1> QED
  BY <1>3, <1>7, <1>8, <1>9, <1>10 DEF Typed

LEMMA CopyTyped ==
  ASSUME Typed, CopyPathResult
  PROVE  Typed'
<1>1. /\ receiver.at = "copy" /\ receiver \in Received /\ receiver.update \in Update
      /\ receiver.update \in Range(order)
  BY ReceiverHolds DEF CopyPathResult, Typed, ReceiverTyped
<1>2. UNCHANGED <<db, changes, time, asked, cached, order, commands, handler, rpki, queue, told, due, moved>>
  BY DEF CopyPathResult, objects, history
<1>3. receiver' \in Received /\ receiver'.at = "answer" /\ receiver'.update = receiver.update
  <2>1. receiver' = [receiver EXCEPT !.at = "answer"]
    BY DEF CopyPathResult
  <2> QED
    BY <1>1, <2>1 DEF Received
<1>4. TypeOK'
  <2>1. receiver.result \in ToldResult /\ SetResult(receiver.update, receiver.result)
    BY <1>1 DEF Received, CopyPathResult
  <2> QED
    BY <1>1, <1>2, <1>3, <2>1, ResultSet DEF Typed, TypeOK
<1>5. ReceiverTyped'
  BY <1>1, <1>2, <1>3 DEF ReceiverTyped
<1> QED
  BY <1>2, <1>4, <1>5 DEF Typed, HandlerTyped, RPKITyped, UntoldUntilStored, ModifiedTyped, Validating

LEMMA AnswerTyped ==
  ASSUME Typed, Answer
  PROVE  Typed'
<1>1. /\ receiver.update \in Update /\ receiver.update \in Range(order) /\ receiver.result \in ToldResult
  BY ReceiverHolds DEF Answer, Typed, ReceiverTyped
<1>2. UNCHANGED <<db, changes, time, asked, cached, order, entry, handler, rpki, queue, due, moved>>
  BY DEF Answer, objects, history, store
<1>3. receiver' = NoRequest
  BY DEF Answer
<1>4. /\ told' \in [Update -> ToldResult \cup {None}]
      /\ \A u \in Update : u \notin Range(order) => told'[u] = None
  BY <1>1 DEF Answer, Typed, TypeOK, UntoldUntilStored
<1>5. commands' \in Seq(Range(order))
  <2>1. commands \in Seq(Range(order))
    BY DEF Typed, TypeOK
  <2>2. commands' \in {commands, Append(commands, receiver.update)}
    BY DEF Answer
  <2> QED
    BY <1>1, <2>1, <2>2, Appended
<1>6. TypeOK'
  <2>1. receiver'.at = "idle"
    BY <1>3 DEF NoRequest
  <2> QED
    BY <1>2, <1>4, <1>5, <2>1 DEF Typed, TypeOK
<1>7. ReceiverTyped'
  BY <1>3 DEF ReceiverTyped, NoRequest
<1> QED
  BY <1>2, <1>4, <1>6, <1>7 DEF Typed, HandlerTyped, RPKITyped, UntoldUntilStored, ModifiedTyped, Validating

\* Steps of the command handler.
LEMMA BeginTyped ==
  ASSUME Typed, BeginCommand
  PROVE  /\ Typed'
         /\ Head(commands) \in Update /\ Head(commands) \in Range(order)
         /\ Range(commands) = {Head(commands)} \cup Range(commands')
<1> DEFINE u == Head(commands)
<1>1. /\ u \in Range(order) /\ commands' \in Seq(Range(order))
      /\ Range(commands) = {u} \cup Range(commands')
  BY FirstAndRest DEF BeginCommand, Typed, TypeOK
<1>2. u \in Update /\ entry[u] \in Entry
  BY <1>1 DEF Typed, TypeOK, Range
<1>3. UNCHANGED <<db, changes, time, asked, cached, order, entry, receiver, rpki, queue, told, due, moved>>
  BY DEF BeginCommand, objects, history, store
<1>4. /\ handler' \in {NoCommand} \cup Taken \cup TakenStored
      /\ handler'.at # "idle" => handler'.update = u
      /\ handler'.at \in {"idle", "copy", "update"}
  <2>1. handler' \in {NoCommand, [at |-> "copy", update |-> u],
                      [at |-> "update", update |-> u, result |-> entry[u].result]}
    BY DEF BeginCommand
  <2> QED
    BY <1>2, <2>1 DEF NoCommand, Taken, TakenStored, Entry
<1> HIDE DEF u
<1>5. TypeOK'
  BY <1>1, <1>3, <1>4 DEF Typed, TypeOK
<1>6. HandlerTyped'
  BY <1>1, <1>3, <1>4 DEF HandlerTyped
<1> QED
  BY <1>1, <1>2, <1>3, <1>5, <1>6
     DEF Typed, ReceiverTyped, RPKITyped, UntoldUntilStored, ModifiedTyped, Validating, u

LEMMA ValidateTyped ==
  ASSUME Typed, ValidateCommand
  PROVE  /\ Typed'
         /\ handler' \in TakenValidated /\ handler'.update = handler.update
         /\ handler'.new # cached[PathOf[handler.update]].result => handler'.at = "path"
         /\ handler'.new = cached[PathOf[handler.update]].result => handler'.at = "update"
         /\ handler'.result = Modified(cached[PathOf[handler.update]].result, handler'.new)
<1> DEFINE u == handler.update
           p == PathOf[handler.update]
<1>1. /\ u \in Update /\ u \in Range(order) /\ p \in Path /\ cached[p] # None
  BY HandlerHolds, Constants DEF ValidateCommand, Typed, HandlerTyped, TypeOK
<1>2. UNCHANGED <<db, changes, time, asked, cached, order, entry, receiver, commands, rpki, queue, told, due, moved>>
  BY DEF ValidateCommand, objects, history, store
<1>3. PICK r \in Validated(p, cached[p]) :
        handler' = [at |-> IF r = cached[p].result THEN "update" ELSE "path",
                    update |-> u, new |-> r, result |-> Modified(cached[p].result, r)]
  BY DEF ValidateCommand
<1>4. r \in PathResult /\ cached[p].result \in ToldResult
  BY <1>1, ValidatedResult DEF Typed, TypeOK, CachedPath
<1>5. Modified(cached[p].result, r) \in ToldResult
  BY <1>4, Constants DEF Modified
<1>6. /\ handler' \in TakenValidated /\ handler'.update = u /\ handler'.new = r
      /\ handler'.at = IF r = cached[p].result THEN "update" ELSE "path"
      /\ handler'.result = Modified(cached[p].result, r)
  BY <1>1, <1>3, <1>4, <1>5 DEF TakenValidated
<1>7. TypeOK' /\ HandlerTyped'
  BY <1>1, <1>2, <1>6 DEF Typed, TypeOK, HandlerTyped
<1> QED
  BY <1>2, <1>6, <1>7 DEF Typed, ReceiverTyped, RPKITyped, UntoldUntilStored, ModifiedTyped, Validating

LEMMA CommandModifiesTyped ==
  ASSUME Typed, CommandModifiesPath
  PROVE  /\ Typed'
         /\ handler.update \in Update /\ PathOf[handler.update] \in Path
         /\ cached[PathOf[handler.update]] # None
         /\ handler.new \in PathResult
         /\ ModifyPath(PathOf[handler.update], handler.new)
         /\ handler' \in TakenValidated /\ handler'.at = "update"
         /\ handler'.update = handler.update /\ handler'.result = handler.result
<1> DEFINE u == handler.update
           p == PathOf[handler.update]
<1>1. /\ u \in Update /\ u \in Range(order) /\ p \in Path /\ cached[p] # None
      /\ handler \in TakenValidated
  BY HandlerHolds, Constants DEF CommandModifiesPath, Typed, HandlerTyped, TypeOK
<1>2. handler.new \in PathResult /\ ModifyPath(p, handler.new)
  BY <1>1 DEF TakenValidated, CommandModifiesPath
<1>3. /\ UNCHANGED <<db, changes, time, asked, order, entry, receiver, commands, rpki, queue, told>>
      /\ due' \subseteq Path /\ moved' \subseteq Path
  BY <1>1 DEF CommandModifiesPath, objects, Typed
<1>4. /\ handler' \in TakenValidated /\ handler'.at = "update"
      /\ handler'.update = u /\ handler'.result = handler.result
  <2>1. handler' = [handler EXCEPT !.at = "update"]
    BY DEF CommandModifiesPath
  <2> QED
    BY <1>1, <2>1 DEF TakenValidated
<1>5. /\ cached' \in [Path -> CachedPath \cup {None}]
      /\ \A q \in Path : q # p => cached'[q] = cached[q]
      /\ cached'[p] # None /\ cached'[p].result \in PathResult /\ cached'[p].modified = time
  BY <1>1, <1>2, PathModified DEF Typed
<1>6. \A v \in Update : cached[PathOf[v]] # None => cached'[PathOf[v]] # None
  BY <1>5, Constants
<1>7. TypeOK' /\ HandlerTyped' /\ ReceiverTyped'
  <2>1. receiver.at = "store" => receiver.update \in Update
    BY ReceiverHolds DEF Typed
  <2> QED
    BY <1>1, <1>3, <1>4, <1>5, <1>6, <2>1 DEF Typed, TypeOK, HandlerTyped, ReceiverTyped
<1>8. ModifiedTyped'
  <2>1. time \in Nat /\ "DONOTUSE" \notin PathResult
    BY Constants DEF Typed, TypeOK
  <2> QED
    BY <1>3, <1>5, <2>1 DEF Typed, ModifiedTyped
<1> QED
  BY <1>1, <1>2, <1>3, <1>4, <1>7, <1>8 DEF Typed, RPKITyped, UntoldUntilStored, Validating

LEMMA FinishTyped ==
  ASSUME Typed, FinishCommand
  PROVE  /\ Typed'
         /\ handler.update \in Update /\ handler.update \in Range(order)
         /\ handler.result \in ToldResult /\ handler' = NoCommand
<1>1. handler.update \in Update /\ handler.update \in Range(order) /\ handler.result \in ToldResult
  BY HandlerHolds DEF FinishCommand, Typed, HandlerTyped
<1>2. UNCHANGED <<db, changes, time, asked, cached, order, receiver, commands, rpki, queue, due, moved>>
  BY DEF FinishCommand, objects, history
<1>3. handler' = NoCommand /\ SetResult(handler.update, handler.result)
  BY DEF FinishCommand
<1>4. /\ told' \in [Update -> ToldResult \cup {None}]
      /\ \A u \in Update : u \notin Range(order) => told'[u] = None
  BY <1>1 DEF FinishCommand, Typed, TypeOK, UntoldUntilStored
<1>5. TypeOK'
  <2>1. handler'.at = "idle"
    BY <1>3 DEF NoCommand
  <2> QED
    BY <1>1, <1>2, <1>3, <1>4, <2>1, ResultSet DEF Typed, TypeOK
<1>6. HandlerTyped'
  BY <1>3 DEF HandlerTyped, NoCommand
<1> QED
  BY <1>1, <1>2, <1>3, <1>4, <1>5, <1>6
     DEF Typed, ReceiverTyped, RPKITyped, UntoldUntilStored, ModifiedTyped, Validating

\* Steps of the RPKI thread.
LEMMA AnnounceTyped ==
  ASSUME Typed, NEW o \in Object, Announce(o) \/ Withdraw(o)
  PROVE  Typed'
<1>1. /\ rpki.at = "idle" /\ changes < MaxChanges /\ changes' = changes + 1 /\ due' = {}
      /\ UNCHANGED <<time, asked, store, receiver, commands, handler, rpki, queue, told, moved>>
  BY DEF Announce, Withdraw
<1>2. changes' \in 0 .. MaxChanges
  BY <1>1, AspaAssumption DEF Typed, TypeOK
<1>3. /\ db' \in [Asn -> Object \cup {NoObject, Freed}]
      /\ \A a \in Asn : db'[a] \in Object => db'[a].customer = a
  <2>1. /\ o.customer \in Asn /\ Freed \notin Object
        /\ db \in [Asn -> Object \cup {NoObject, Freed}]
        /\ \A a \in Asn : db[a] \in Object => db[a].customer = a
    BY Constants, AspaAssumption DEF Typed, TypeOK
  <2>2. CASE Announce(o)
    <3>1. PICK new \in {o, Freed} : db' = [db EXCEPT ![o.customer] = new]
      BY <2>2 DEF Announce
    <3> QED
      BY <2>1, <3>1
  <2>3. CASE Withdraw(o)
    BY <2>1, <2>3 DEF Withdraw
  <2> QED
    BY <2>2, <2>3
<1> QED
  BY <1>1, <1>2, <1>3 DEF Typed, TypeOK, ReceiverTyped, HandlerTyped, RPKITyped, UntoldUntilStored,
                          ModifiedTyped, Validating, store

LEMMA TickTyped ==
  ASSUME Typed, Tick
  PROVE  Typed'
<1>1. time' \in 0 .. MaxTime /\ time' = time + 1 /\ time \in Nat
  BY Constants DEF Tick, Typed, TypeOK
<1>2. UNCHANGED <<objects, asked, store, receiver, commands, handler, rpki, queue, told, history>>
  BY DEF Tick
<1>3. ModifiedTyped'
  <2>1. \A p \in Path : cached[p] # None => cached[p].modified \in Nat
    BY DEF Typed, TypeOK, CachedPath
  <2> QED
    BY <1>1, <1>2, <2>1 DEF Typed, ModifiedTyped, store
<1>4. RPKITyped'
  <2>1. Validating => rpki.eod \in Nat
    BY RPKIHolds, Constants DEF Typed
  <2> QED
    BY <1>1, <1>2, <2>1 DEF Typed, RPKITyped, Validating, store
<1> QED
  BY <1>1, <1>2, <1>3, <1>4
     DEF Typed, TypeOK, ReceiverTyped, HandlerTyped, UntoldUntilStored, store, objects, history

LEMMA ReceiveEndOfDataTyped ==
  ASSUME Typed, ReceiveEndOfData
  PROVE  /\ Typed'
         /\ time \in 1 .. MaxTime /\ rpki' = Visit(1, time)
<1>1. UNCHANGED <<objects, time, asked, store, receiver, commands, handler, queue, told, moved>>
  BY DEF ReceiveEndOfData
<1>2. time \in 1 .. MaxTime /\ order \in Seq(Update)
  BY DEF Typed, TypeOK, ModifiedTyped
<1>3. rpki' = Visit(1, time)
  BY DEF ReceiveEndOfData
<1>4. RPKITyped'
  BY <1>1, <1>2, <1>3, VisitTyped DEF RPKITyped, Validating, Visiting, Draining, store
<1>5. TypeOK'
  BY <1>1, <1>2, <1>3, VisitTyped DEF Typed, TypeOK, objects, store
<1>6. due' \subseteq Path
  BY DEF ReceiveEndOfData
<1> QED
  BY <1>1, <1>2, <1>3, <1>4, <1>5, <1>6
     DEF Typed, ReceiverTyped, HandlerTyped, UntoldUntilStored, ModifiedTyped, store, history

\* What a visit goes on with.
Changed(r, at, new, p) ==
  /\ r \in Changing /\ r.at = at /\ r.new = new /\ r.old = cached[p].result
  /\ r.eod = rpki.eod /\ r.update = rpki.update /\ r.next = rpki.next

LEMMA VisitUpdateTyped ==
  ASSUME Typed, VisitUpdate
  PROVE  /\ Typed'
         /\ rpki \in Visiting /\ rpki.update \in Update /\ rpki.update \in Range(order)
         /\ \/ entry[rpki.update].default = "INVALID" /\ rpki' = Continue
            \/ /\ entry[rpki.update].default # "INVALID"
               /\ rpki.eod > cached[PathOf[rpki.update]].modified
               /\ \E r \in Validated(PathOf[rpki.update], cached[PathOf[rpki.update]]) :
                    Changed(rpki', "path", r, PathOf[rpki.update])
            \/ /\ entry[rpki.update].default # "INVALID"
               /\ rpki.eod <= cached[PathOf[rpki.update]].modified
               /\ cached[PathOf[rpki.update]].result # "DONOTUSE"
               /\ \/ Changed(rpki', "update", cached[PathOf[rpki.update]].result, PathOf[rpki.update])
                  \/ entry[rpki.update].result = cached[PathOf[rpki.update]].result /\ rpki' = Continue
<1> DEFINE u == rpki.update
           p == PathOf[u]
           G(at, new) == [at |-> at, eod |-> rpki.eod, update |-> u, next |-> rpki.next,
                          new |-> new, old |-> cached[p].result]
<1>1. /\ rpki \in Visiting /\ u \in Update /\ u \in Range(order) /\ rpki.at = "visit" /\ Validating
      /\ p \in Path /\ cached[p] # None /\ cached[p] \in CachedPath
      /\ rpki.eod \in 1 .. MaxTime /\ rpki.next \in Nat /\ rpki.eod <= time /\ rpki.next <= Len(order)
  BY RPKIHolds, Constants DEF VisitUpdate, Typed, RPKITyped, Validating, TypeOK
<1>2. cached[p].modified \in Nat /\ cached[p].result \in ToldResult
  BY <1>1, Constants DEF CachedPath
<1>3. ASSUME NEW at \in {"path", "update"}, NEW new \in PathResult
      PROVE  Changed(G(at, new), at, new, p)
  BY <1>1, <1>2 DEF Changing, Changed
<1>4. \/ entry[u].default = "INVALID" /\ rpki' = Continue
      \/ /\ entry[u].default # "INVALID" /\ rpki.eod > cached[p].modified
         /\ \E r \in Validated(p, cached[p]) : rpki' = G("path", r)
      \/ /\ entry[u].default # "INVALID" /\ ~(rpki.eod > cached[p].modified)
         /\ \/ rpki' = G("update", cached[p].result)
            \/ entry[u].result = cached[p].result /\ rpki' = Continue
  BY DEF VisitUpdate, Newer, Behind
<1> HIDE DEF G
<1>5. rpki.eod <= cached[p].modified => cached[p].result # "DONOTUSE" /\ cached[p].result \in PathResult
  BY <1>1, <1>2 DEF Typed, ModifiedTyped, ToldResult
<1>6. \/ entry[u].default = "INVALID" /\ rpki' = Continue
      \/ /\ entry[u].default # "INVALID" /\ rpki.eod > cached[p].modified
         /\ \E r \in Validated(p, cached[p]) : Changed(rpki', "path", r, p)
      \/ /\ entry[u].default # "INVALID" /\ rpki.eod <= cached[p].modified
         /\ cached[p].result # "DONOTUSE"
         /\ \/ Changed(rpki', "update", cached[p].result, p)
            \/ entry[u].result = cached[p].result /\ rpki' = Continue
  <2>1. \A r \in Validated(p, cached[p]) : r \in PathResult
    BY ValidatedResult
  <2>2. rpki.eod > cached[p].modified \/ rpki.eod <= cached[p].modified
    BY <1>1, <1>2
  <2>3. \A r \in PathResult : Changed(G("path", r), "path", r, p) /\ Changed(G("update", r), "update", r, p)
    BY <1>3
  <2>4. CASE entry[u].default = "INVALID" /\ rpki' = Continue
    BY <2>4
  <2>5. CASE /\ entry[u].default # "INVALID" /\ rpki.eod > cached[p].modified
             /\ \E r \in Validated(p, cached[p]) : rpki' = G("path", r)
    <3>1. PICK r \in Validated(p, cached[p]) : rpki' = G("path", r)
      BY <2>5
    <3>2. Changed(rpki', "path", r, p)
      BY <2>1, <2>3, <3>1
    <3> QED
      BY <2>5, <3>1, <3>2
  <2>6. CASE /\ entry[u].default # "INVALID" /\ ~(rpki.eod > cached[p].modified)
             /\ \/ rpki' = G("update", cached[p].result)
                \/ entry[u].result = cached[p].result /\ rpki' = Continue
    <3>1. Changed(G("update", cached[p].result), "update", cached[p].result, p)
      BY <1>5, <2>2, <2>3, <2>6
    <3> HIDE DEF p, u
    <3> QED
      BY <1>5, <2>2, <2>6, <3>1
  <2> HIDE DEF u, p
  <2> QED
    BY <1>4, <2>4, <2>5, <2>6
<1>7. UNCHANGED <<objects, time, asked, store, receiver, commands, handler, queue, told, history>>
  BY DEF VisitUpdate
<1>8. /\ rpki' \in {Draining} \cup Visiting \cup Changing
      /\ rpki'.at \in {"visit", "path", "update", "drain"}
      /\ rpki'.at \in {"visit", "path", "update"} =>
           rpki'.update \in Range(order) /\ rpki'.eod <= time /\ rpki'.next <= Len(order)
  <2>1. CASE rpki' = Continue
    <3>1. order \in Seq(Update)
      BY DEF Typed, TypeOK
    <3> QED
      BY <1>1, <2>1, <3>1, VisitTyped DEF Continue
  <2>2. CASE \E at \in {"path", "update"}, r \in ToldResult : Changed(rpki', at, r, p)
    BY <1>1, <2>2 DEF Changed
  <2>3. "path" \in {"path", "update"} /\ "update" \in {"path", "update"}
    OBVIOUS
  <2>4. Validated(p, cached[p]) \subseteq ToldResult
    BY ValidatedResult, Constants
  <2> HIDE DEF p, u
  <2> QED
    BY <1>2, <1>6, <2>1, <2>2, <2>3, <2>4
<1>9. RPKITyped'
  <2>1. rpki'.at \notin {"tell", "idle"}
    BY <1>8
  <2> QED
    BY <1>7, <1>8, <2>1 DEF RPKITyped, Validating, store
<1>10. TypeOK'
  BY <1>7, <1>8 DEF Typed, TypeOK, objects, store
<1> QED
  BY <1>1, <1>6, <1>7, <1>9, <1>10
     DEF Typed, ReceiverTyped, HandlerTyped, UntoldUntilStored, ModifiedTyped, store, history

LEMMA EndOfDataModifiesPathTyped ==
  ASSUME Typed, EndOfDataModifiesPath
  PROVE  /\ Typed'
         /\ rpki \in Changing /\ rpki.update \in Update /\ rpki.update \in Range(order)
         /\ PathOf[rpki.update] \in Path /\ cached[PathOf[rpki.update]] # None
         /\ ModifyPath(PathOf[rpki.update], rpki.new)
         /\ \/ rpki.new = rpki.old /\ rpki' = Continue
            \/ /\ rpki' \in Changing /\ rpki'.at = "update" /\ rpki'.new = rpki.new
               /\ rpki'.eod = rpki.eod /\ rpki'.update = rpki.update /\ rpki'.next = rpki.next
<1> DEFINE u == rpki.update
           p == PathOf[rpki.update]
<1>1. /\ rpki \in Changing /\ u \in Update /\ u \in Range(order) /\ Validating
      /\ p \in Path /\ cached[p] # None
      /\ rpki.eod \in 1 .. MaxTime /\ rpki.next \in Nat /\ rpki.eod <= time /\ rpki.next <= Len(order)
  BY RPKIHolds, Constants DEF EndOfDataModifiesPath, Typed, RPKITyped, Validating, TypeOK
<1>2. rpki.new \in PathResult /\ ModifyPath(p, rpki.new)
  BY <1>1 DEF Changing, EndOfDataModifiesPath
<1>3. UNCHANGED <<objects, time, asked, order, entry, receiver, commands, handler, queue, told, history>>
  BY DEF EndOfDataModifiesPath
<1>4. \/ rpki.new = rpki.old /\ rpki' = Continue
      \/ /\ rpki' \in Changing /\ rpki'.at = "update" /\ rpki'.new = rpki.new
         /\ rpki'.eod = rpki.eod /\ rpki'.update = rpki.update /\ rpki'.next = rpki.next
  <2>1. CASE rpki.new = rpki.old
    BY <2>1 DEF EndOfDataModifiesPath
  <2>2. CASE rpki.new # rpki.old
    <3>1. rpki' = [rpki EXCEPT !.at = "update"]
      BY <2>2 DEF EndOfDataModifiesPath
    <3> QED
      BY <1>1, <3>1 DEF Changing
  <2> QED
    BY <2>1, <2>2
<1>5. /\ rpki' \in {Draining} \cup Visiting \cup Changing
      /\ rpki'.at \in {"visit", "update", "drain"}
      /\ rpki'.at \in {"visit", "update"} =>
           rpki'.update \in Range(order) /\ rpki'.eod <= time /\ rpki'.next <= Len(order)
  <2>1. CASE rpki' = Continue
    <3>1. order \in Seq(Update)
      BY DEF Typed, TypeOK
    <3> QED
      BY <1>1, <2>1, <3>1, VisitTyped DEF Continue
  <2> QED
    BY <1>1, <1>4, <2>1
<1>6. RPKITyped'
  <2>1. rpki'.at \notin {"path", "tell", "idle"}
    BY <1>5
  <2> QED
    BY <1>3, <1>5, <2>1 DEF RPKITyped, Validating
<1>7. /\ cached' \in [Path -> CachedPath \cup {None}]
      /\ \A q \in Path : q # p => cached'[q] = cached[q]
      /\ cached'[p] # None /\ cached'[p].result \in PathResult /\ cached'[p].modified = time
  BY <1>1, <1>2, PathModified DEF Typed
<1>8. \A v \in Update : cached[PathOf[v]] # None => cached'[PathOf[v]] # None
  BY <1>7, Constants
<1>9. TypeOK' /\ ReceiverTyped'
  <2>1. receiver.at = "store" => receiver.update \in Update
    BY ReceiverHolds DEF Typed
  <2> QED
    BY <1>3, <1>5, <1>7, <1>8, <2>1 DEF Typed, TypeOK, ReceiverTyped, objects
<1>10. ModifiedTyped'
  <2>1. time \in Nat /\ "DONOTUSE" \notin PathResult
    BY Constants DEF Typed, TypeOK
  <2> QED
    BY <1>3, <1>7, <2>1 DEF Typed, ModifiedTyped
<1> QED
  BY <1>1, <1>2, <1>3, <1>4, <1>6, <1>9, <1>10 DEF Typed, HandlerTyped, UntoldUntilStored, history

LEMMA EndOfDataModifiesUpdateTyped ==
  ASSUME Typed, EndOfDataModifiesUpdate
  PROVE  /\ Typed'
         /\ rpki \in Changing /\ rpki.update \in Update /\ rpki.update \in Range(order)
         /\ rpki.new \in PathResult /\ rpki' = Continue
         /\ Range(queue') = Range(queue) \cup {rpki.update}
<1> DEFINE u == rpki.update
<1>1. /\ rpki \in Changing /\ u \in Update /\ u \in Range(order) /\ Validating
      /\ rpki.eod \in 1 .. MaxTime /\ rpki.next \in Nat /\ rpki.eod <= time
  BY RPKIHolds DEF EndOfDataModifiesUpdate, Typed, RPKITyped, Validating
<1>2. rpki.new \in PathResult /\ SetResult(u, rpki.new) /\ rpki' = Continue
  BY <1>1 DEF Changing, EndOfDataModifiesUpdate
<1>3. UNCHANGED <<objects, time, asked, cached, order, receiver, commands, handler, told, history>>
  BY DEF EndOfDataModifiesUpdate
<1>4. /\ queue' \in Seq(Range(order)) /\ IsInjective(queue')
      /\ Range(queue') = Range(queue) \cup {u}
  BY <1>1, Appended DEF EndOfDataModifiesUpdate, Queued, Typed, TypeOK
<1>5. /\ rpki' \in {Draining} \cup Visiting
      /\ rpki'.at \in {"visit", "drain"}
      /\ rpki'.at = "visit" =>
           rpki'.update \in Range(order) /\ rpki'.eod <= time /\ rpki'.next <= Len(order)
  <2>1. order \in Seq(Update)
    BY DEF Typed, TypeOK
  <2> QED
    BY <1>1, <1>2, <2>1, VisitTyped DEF Continue
<1>6. RPKITyped'
  <2>1. rpki'.at \notin {"path", "update", "tell", "idle"}
    BY <1>5
  <2> QED
    BY <1>3, <1>5, <2>1 DEF RPKITyped, Validating
<1>7. TypeOK'
  <2>1. rpki.new \in ToldResult
    BY <1>2, Constants
  <2> QED
    BY <1>1, <1>2, <1>3, <1>4, <1>5, <2>1, ResultSet DEF Typed, TypeOK, objects
<1> QED
  BY <1>1, <1>2, <1>3, <1>4, <1>6, <1>7
     DEF Typed, ReceiverTyped, HandlerTyped, UntoldUntilStored, ModifiedTyped, history

LEMMA DequeueTyped ==
  ASSUME Typed, Dequeue
  PROVE  /\ Typed'
         /\ \/ queue = <<>> /\ queue' = queue /\ rpki' = NoData
            \/ /\ Range(queue) = {rpki'.update} \cup Range(queue')
               /\ rpki'.at = "tell" /\ rpki'.result = entry[rpki'.update].result
               /\ rpki'.update \in Update
<1>1. UNCHANGED <<objects, time, asked, store, receiver, commands, handler, told, history>>
  BY DEF Dequeue
<1>2. CASE queue = <<>>
  <2>1. queue' = queue /\ rpki' = NoData
    BY <1>2 DEF Dequeue
  <2> QED
    BY <1>1, <1>2, <2>1 DEF Typed, TypeOK, NoData, RPKITyped, Validating, ReceiverTyped, HandlerTyped,
                            UntoldUntilStored, ModifiedTyped, store, objects, history
<1>3. CASE queue # <<>>
  <2> DEFINE u == Head(queue)
  <2>1. /\ u \in Range(order) /\ queue' \in Seq(Range(order)) /\ IsInjective(queue')
        /\ Range(queue) = {u} \cup Range(queue')
    <3>1. queue \in Seq(Range(order)) /\ IsInjective(queue)
      BY DEF Typed, TypeOK
    <3>2. queue' = Tail(queue)
      BY <1>3 DEF Dequeue
    <3> QED
      BY <1>3, <3>1, <3>2, FirstAndRest
  <2>2. u \in Update /\ entry[u].result \in PathResult
    <3>1. u \in Update
      BY <2>1 DEF Typed, TypeOK, Range
    <3> HIDE DEF u
    <3> QED
      BY <2>1, <3>1 DEF Typed, TypeOK, Entry
  <2>3. rpki' = [at |-> "tell", update |-> u, result |-> entry[u].result]
    BY <1>3 DEF Dequeue
  <2> HIDE DEF u
  <2>4. RPKITyped'
    BY <1>1, <2>1, <2>2, <2>3 DEF RPKITyped, Validating, Telling, store
  <2>5. TypeOK'
    BY <1>1, <2>1, <2>3 DEF Typed, TypeOK, store, objects
  <2> QED
    BY <1>1, <2>1, <2>2, <2>3, <2>4, <2>5
       DEF Typed, ReceiverTyped, HandlerTyped, UntoldUntilStored, ModifiedTyped, store, history
<1> QED
  BY <1>2, <1>3

LEMMA TellTyped ==
  ASSUME Typed, TellChange
  PROVE  /\ Typed'
         /\ rpki.update \in Update /\ rpki.update \in Range(order) /\ rpki' = Draining
<1>1. rpki.update \in Update /\ rpki.update \in Range(order) /\ rpki.result \in ToldResult
  BY RPKIHolds, Constants DEF TellChange, Typed, RPKITyped
<1>2. UNCHANGED <<objects, time, asked, store, receiver, commands, handler, queue, history>>
  BY DEF TellChange
<1>3. rpki' = Draining /\ told' = [told EXCEPT ![rpki.update] = rpki.result]
  BY DEF TellChange, Draining
<1>4. /\ told' \in [Update -> ToldResult \cup {None}]
      /\ \A u \in Update : u \notin Range(order) => told'[u] = None
  BY <1>1, <1>3 DEF Typed, TypeOK, UntoldUntilStored
<1>5. RPKITyped'
  BY <1>2, <1>3 DEF RPKITyped, Draining, Validating
<1>6. TypeOK'
  BY <1>2, <1>3, <1>4 DEF Typed, TypeOK, Draining, store, objects
<1> QED
  BY <1>1, <1>2, <1>3, <1>4, <1>5, <1>6
     DEF Typed, ReceiverTyped, HandlerTyped, UntoldUntilStored, ModifiedTyped, store, history

LEMMA TypedStep ==
  ASSUME Typed, [Next]_vars
  PROVE  Typed'
<1>1. CASE Receiver
  BY <1>1, RequestTyped, StoreTyped, CopyTyped, AnswerTyped DEF Receiver
<1>2. CASE Handler
  BY <1>2, BeginTyped, ValidateTyped, CommandModifiesTyped, FinishTyped DEF Handler
<1>3. CASE RPKI
  BY <1>3, AnnounceTyped, ReceiveEndOfDataTyped, VisitUpdateTyped, EndOfDataModifiesPathTyped,
     EndOfDataModifiesUpdateTyped, DequeueTyped, TellTyped DEF RPKI
<1>4. CASE Tick
  BY <1>4, TickTyped
<1>5. CASE UNCHANGED vars
  BY <1>5 DEF vars, objects, store, history, Typed, TypeOK, ReceiverTyped, HandlerTyped, RPKITyped,
              Validating, UntoldUntilStored, ModifiedTyped
<1> QED
  BY <1>1, <1>2, <1>3, <1>4, <1>5 DEF Next

\* The results and the queues have their types: no thread holds an update that
\* is not stored, nor writes a result that is none.
THEOREM TypeInvariant == Spec => []TypeOK
<1>1. Typed => TypeOK
  BY DEF Typed
<1> QED
  BY <1>1, TypedInit, TypedStep, PTL DEF Spec

-----------------------------------------------------------------------------
(* What every step keeps.                                                  *)

LEMMA NextCases ==
  ASSUME [Next]_vars
  PROVE  \/ \E u \in Update, d \in Default, s \in Stream, a \in BOOLEAN : Request(u, d, s, a)
         \/ storeUpdate \/ CopyPathResult \/ Answer
         \/ BeginCommand \/ ValidateCommand \/ CommandModifiesPath \/ FinishCommand
         \/ \E o \in Object : Announce(o) \/ Withdraw(o)
         \/ ReceiveEndOfData \/ VisitUpdate \/ EndOfDataModifiesPath \/ EndOfDataModifiesUpdate
         \/ Dequeue \/ TellChange
         \/ Tick \/ UNCHANGED vars
BY DEF Next, Receiver, Handler, RPKI

LEMMA MixedGrows ==
  ASSUME [Next]_vars
  PROVE  /\ mixed \subseteq mixed'
         /\ UNCHANGED vars \/ (rpki'.at # "idle" => {receiver'.update, handler'.update} \ {None} \subseteq mixed')
BY DEF Next, vars, Mixing

\* The AS path cache keeps its entries and their directions, and they get newer.
PathGrows(p) ==
  cached[p] # None =>
    /\ cached'[p] # None /\ cached'[p].direction = cached[p].direction
    /\ cached'[p].modified >= cached[p].modified
    /\ cached'[p].result = "DONOTUSE" => cached[p].result = "DONOTUSE"

LEMMA PathsGrow ==
  ASSUME Typed, [Next]_vars
  PROVE  \A p \in Path : PathGrows(p)
<1>1. \A p \in Path : cached[p] # None => cached[p] \in CachedPath /\ cached[p].modified \in Nat
  BY DEF Typed, TypeOK, CachedPath
<1>2. CASE cached' = cached
  BY <1>1, <1>2 DEF PathGrows
<1>3. ASSUME NEW p \in Path, NEW r \in PathResult, cached[p] # None, ModifyPath(p, r)
      PROVE  \A q \in Path : PathGrows(q)
  <2>1. /\ \A q \in Path : q # p => cached'[q] = cached[q]
        /\ cached'[p] # None /\ cached'[p].result = r /\ cached'[p].modified = time
        /\ cached'[p].direction = cached[p].direction
    BY <1>3, PathModified DEF Typed
  <2>2. cached[p].modified <= time /\ r # "DONOTUSE" /\ time \in Nat
    BY <1>3, Constants DEF Typed, ModifiedTyped, TypeOK
  <2> QED
    BY <1>1, <2>1, <2>2 DEF PathGrows
<1>4. CASE \E u \in Update, d \in Default, s \in Stream, a \in BOOLEAN : Request(u, d, s, a)
  <2>1. PICK u \in Update, d \in Default, s \in Stream : \E a \in BOOLEAN : Request(u, d, s, a)
    BY <1>4
  <2>2. \/ cached' = cached
        \/ /\ cached[PathOf[u]] = None
           /\ cached' = [cached EXCEPT ![PathOf[u]] = [result |-> d, direction |-> s, modified |-> 0]]
    BY <2>1 DEF Request
  <2>3. cached \in [Path -> CachedPath \cup {None}]
    BY DEF Typed, TypeOK
  <2>4. \A p \in Path : cached[p] # None => cached'[p] = cached[p]
    BY <2>2, <2>3
  <2> QED
    BY <1>1, <2>4 DEF PathGrows
<1>5. CASE CommandModifiesPath
  BY <1>3, <1>5, CommandModifiesTyped
<1>6. CASE EndOfDataModifiesPath
  <2>1. rpki.new \in PathResult
    BY <1>6, EndOfDataModifiesPathTyped DEF Changing
  <2> QED
    BY <1>3, <1>6, <2>1, EndOfDataModifiesPathTyped
<1> QED
  BY <1>2, <1>4, <1>5, <1>6, NextCases
     DEF storeUpdate, CopyPathResult, Answer, BeginCommand, ValidateCommand, FinishCommand, Announce, Withdraw,
         ReceiveEndOfData, VisitUpdate, EndOfDataModifiesUpdate, Dequeue, TellChange, Tick, vars, store

\* An update stays stored, and its default is never written again.
EntryGrows(u) ==
  u \in Range(order) => u \in Range(order') /\ entry'[u].default = entry[u].default

LEMMA EntriesGrow ==
  ASSUME Typed, [Next]_vars
  PROVE  /\ \A u \in Update : EntryGrows(u)
         /\ order' = order \/ storeUpdate
<1>1. CASE UNCHANGED <<order, entry>>
  BY <1>1 DEF EntryGrows
<1>2. ASSUME NEW u \in Update, u \in Range(order), NEW r \in ToldResult, SetResult(u, r), order' = order
      PROVE  \A v \in Update : EntryGrows(v)
  BY <1>2, ResultSet DEF EntryGrows, Typed
<1>3. CASE storeUpdate
  <2>1. /\ receiver.update \in Update /\ receiver.update \notin Range(order)
        /\ order' = Append(order, receiver.update)
    BY <1>3, ReceiverHolds DEF storeUpdate, Typed, ReceiverTyped
  <2>2. Range(order') = Range(order) \cup {receiver.update}
    BY <2>1, Appended DEF Typed, TypeOK
  <2>3. \A v \in Update : v # receiver.update => entry'[v] = entry[v]
    BY <1>3 DEF storeUpdate, Typed, TypeOK
  <2> QED
    BY <1>3, <2>1, <2>2, <2>3 DEF EntryGrows
<1>4. CASE CopyPathResult
  <2>1. /\ receiver.update \in Update /\ receiver.update \in Range(order) /\ receiver.result \in ToldResult
        /\ SetResult(receiver.update, receiver.result) /\ order' = order
    BY <1>4, ReceiverHolds DEF CopyPathResult, Typed, ReceiverTyped, Received
  <2> QED
    BY <1>2, <2>1
<1>5. CASE FinishCommand
  <2>1. SetResult(handler.update, handler.result) /\ order' = order
    BY <1>5 DEF FinishCommand
  <2> QED
    BY <1>2, <1>5, <2>1, FinishTyped
<1>6. CASE EndOfDataModifiesUpdate
  <2>1. SetResult(rpki.update, rpki.new) /\ order' = order
    BY <1>6 DEF EndOfDataModifiesUpdate
  <2>2. rpki.new \in ToldResult /\ rpki.update \in Update /\ rpki.update \in Range(order)
    BY <1>6, EndOfDataModifiesUpdateTyped, Constants
  <2> QED
    BY <1>2, <2>1, <2>2
<1> QED
  BY <1>1, <1>3, <1>4, <1>5, <1>6, NextCases
     DEF Request, Answer, BeginCommand, ValidateCommand, CommandModifiesPath, Announce, Withdraw,
         ReceiveEndOfData, VisitUpdate, EndOfDataModifiesPath, Dequeue, TellChange, Tick, vars, store

\* An update that is settled was settled before, or is stored now.
LEMMA SettledBefore ==
  ASSUME Typed, [Next]_vars, NEW u \in Settled'
  PROVE  /\ u \in Update /\ PathOf[u] \in Path /\ u \notin mixed /\ u \notin mixed'
         /\ \/ u \in Settled
            \/ storeUpdate /\ u = receiver.update /\ rpki.at = "idle"
<1>1. Typed'
  BY TypedStep
<1>2. u \in Range(order') /\ entry'[u].default # "INVALID" /\ u \notin mixed'
  BY DEF Settled
<1>3. u \in Update
  BY <1>1, <1>2 DEF Typed, TypeOK, Range
<1>4. u \notin mixed
  BY <1>2, MixedGrows
<1>5. CASE u \in Range(order)
  <2>1. entry'[u].default = entry[u].default
    BY <1>3, <1>5, EntriesGrow DEF EntryGrows
  <2> QED
    BY <1>2, <1>3, <1>4, <1>5, <2>1, Constants DEF Settled
<1>6. CASE u \notin Range(order)
  <2>1. storeUpdate
    BY <1>2, <1>6, EntriesGrow
  <2>2. receiver.update \in Update /\ order' = Append(order, receiver.update)
    BY <2>1, ReceiverHolds DEF storeUpdate, Typed
  <2>3. u = receiver.update
    BY <1>2, <1>6, <2>2, Appended DEF Typed, TypeOK
  <2>4. receiver'.update = u /\ rpki' = rpki
    BY <2>1, <2>3, ReceiverHolds DEF storeUpdate, Typed, Received
  <2>5. ~ UNCHANGED vars
    BY <1>2, <1>6 DEF vars, store
  <2>6. rpki.at = "idle"
    BY <1>2, <1>3, <2>4, <2>5, MixedGrows, Constants
  <2> QED
    BY <1>2, <1>3, <1>4, <2>1, <2>3, <2>6, Constants
<1> QED
  BY <1>5, <1>6

LEMMA SettledStored ==
  ASSUME Typed, NEW u \in Settled
  PROVE  /\ u \in Update /\ PathOf[u] \in Path /\ u \in Range(order) /\ entry[u] \in Entry
         /\ cached[PathOf[u]] # None /\ cached[PathOf[u]] \in CachedPath
         /\ entry[u].default # "INVALID" /\ u \notin mixed
<1>1. u \in Range(order) /\ u \in Update
  BY DEF Settled, Typed, TypeOK, Range
<1> QED
  BY <1>1, Constants DEF Settled, Typed, TypeOK

\* The updates ahead.
LEMMA AheadStored ==
  ASSUME Typed
  PROVE  /\ Ahead \subseteq Range(order) /\ Ahead \subseteq Update
         /\ ~Validating => Ahead = {}
<1>1. order \in Seq(Update) /\ Len(order) \in Nat /\ DOMAIN order = 1 .. Len(order)
  BY DEF Typed, TypeOK
<1>2. Validating => rpki.update \in Range(order) /\ rpki.next \in Nat
  BY RPKIHolds DEF Typed, RPKITyped
<1>3. \A n \in Nat : Later(n) \subseteq Range(order)
  BY <1>1 DEF Later, Range
<1>4. Ahead \subseteq Range(order)
  BY <1>2, <1>3 DEF Ahead, Validating
<1>5. Range(order) \subseteq Update
  BY <1>1 DEF Range
<1> QED
  BY <1>4, <1>5 DEF Ahead, Validating

LEMMA AheadGrows ==
  ASSUME Typed, storeUpdate
  PROVE  Ahead \subseteq Ahead'
<1>1. order' = Append(order, receiver.update) /\ receiver.update \in Update /\ rpki' = rpki
  BY ReceiverHolds DEF storeUpdate, Typed
<1>2. /\ Len(order') = Len(order) + 1 /\ Len(order) \in Nat
      /\ \A i \in 1 .. Len(order) : order'[i] = order[i]
  BY <1>1, Appended DEF Typed, TypeOK
<1>3. ASSUME NEW n \in Nat PROVE Later(n) \subseteq Later(n)'
  <2>1. ASSUME NEW j \in n .. Len(order), n # 0
        PROVE  j \in n .. Len(order') /\ order'[j] = order[j]
    BY <1>2, <2>1
  <2> QED
    BY <2>1 DEF Later
<1>4. Validating => rpki.next \in Nat
  BY RPKIHolds DEF Typed
<1> QED
  BY <1>1, <1>3, <1>4 DEF Ahead, Validating

LEMMA AheadSame ==
  ASSUME order' = order, rpki' = rpki
  PROVE  Ahead' = Ahead /\ Validating' = Validating
BY DEF Ahead, Later, Validating

\* What is ahead once an update is dealt with, and of an End of Data.
LEMMA AheadAt ==
  ASSUME Typed, NEW n \in Nat, NEW eod \in 1 .. MaxTime, order' = order, rpki' = Visit(n, eod)
  PROVE  /\ Ahead' = Later(n)
         /\ Validating' => rpki'.at = "visit" /\ rpki'.eod = eod
         /\ Ahead' # {} => Validating'
<1>1. order \in Seq(Update) /\ Len(order) \in Nat /\ DOMAIN order = 1 .. Len(order)
  BY DEF Typed, TypeOK
<1>2. CASE n \in DOMAIN order
  <2>1. /\ rpki'.at = "visit" /\ rpki'.eod = eod /\ rpki'.update = order[n]
        /\ rpki'.next = IF n < Len(order) THEN n + 1 ELSE 0
    BY <1>2 DEF Visit
  <2>2. Ahead' = {order[n]} \cup IF n < Len(order) THEN {order[j] : j \in n + 1 .. Len(order)} ELSE {}
    BY <1>1, <1>2, <2>1 DEF Ahead, Later
  <2>3. Later(n) = {order[j] : j \in n .. Len(order)}
    BY <1>1, <1>2 DEF Later
  <2>4. n .. Len(order) = {n} \cup IF n < Len(order) THEN n + 1 .. Len(order) ELSE {}
    BY <1>1, <1>2
  <2> QED
    BY <2>1, <2>2, <2>3, <2>4 DEF Validating
<1>3. CASE n \notin DOMAIN order
  <2>1. rpki'.at = "drain"
    BY <1>3 DEF Visit
  <2>2. Later(n) = {}
    BY <1>1, <1>3 DEF Later
  <2> QED
    BY <2>1, <2>2 DEF Ahead, Validating
<1> QED
  BY <1>2, <1>3

LEMMA AheadMoves ==
  ASSUME Typed, Validating, order' = order,
         \/ rpki' = Continue
         \/ rpki'.at \in {"path", "update"} /\ rpki'.next = rpki.next /\ rpki'.eod = rpki.eod
  PROVE  /\ Validating' => rpki'.eod = rpki.eod
         /\ Ahead' # {} => Validating'
         /\ rpki.at = "visit" => Ahead = Ahead' \cup {rpki.update}
         /\ rpki.at # "visit" => Ahead = Ahead'
<1>1. rpki.next \in Nat /\ rpki.eod \in 1 .. MaxTime
  BY RPKIHolds DEF Typed
<1>2. /\ Ahead' = Later(rpki.next)
      /\ Validating' => rpki'.eod = rpki.eod
      /\ Ahead' # {} => Validating'
  <2>1. CASE rpki' = Continue
    BY <1>1, <2>1, AheadAt DEF Continue
  <2>2. CASE rpki'.at \in {"path", "update"} /\ rpki'.next = rpki.next /\ rpki'.eod = rpki.eod
    BY <2>2 DEF Ahead, Later, Validating
  <2> QED
    BY <2>1, <2>2
<1>4. rpki.at # "visit" => Ahead = Later(rpki.next)
  BY DEF Ahead, Validating
<1>5. rpki.at = "visit" => Ahead = {rpki.update} \cup Later(rpki.next)
  BY DEF Ahead
<1>6. rpki.at = "visit" => Ahead = Ahead' \cup {rpki.update}
  BY <1>2, <1>5
<1>7. rpki.at # "visit" => Ahead = Ahead'
  BY <1>2, <1>4
<1> QED
  BY <1>2, <1>6, <1>7

-----------------------------------------------------------------------------
(* The AS path cache after an End of Data.                                 *)

LEMMA DueInit == Init => DueDone /\ WritesValidated
BY DEF Init, DueDone, WritesValidated, NoData

\* A step that leaves the database and the End of Data alone.
LEMMA DueFrame ==
  ASSUME Typed, DueDone, [Next]_vars, db' = db, rpki' = rpki,
         \A p \in due' : p \in due /\ cached'[p] = cached[p]
  PROVE  DueDone'
<1> SUFFICES ASSUME NEW p \in due'
             PROVE  (/\ cached[p] # None
                     /\ \/ cached[p].result \in Validated(p, cached[p])
                        \/ rpki.at = "path" /\ PathOf[rpki.update] = p
                        \/ /\ rpki.eod > cached[p].modified
                           /\ \E u \in Ahead : PathOf[u] = p /\ entry[u].default # "INVALID")'
  BY DEF DueDone
<1>1. /\ cached[p] # None
      /\ \/ cached[p].result \in Validated(p, cached[p])
         \/ rpki.at = "path" /\ PathOf[rpki.update] = p
         \/ /\ rpki.eod > cached[p].modified
            /\ \E u \in Ahead : PathOf[u] = p /\ entry[u].default # "INVALID"
  BY DEF DueDone
<1>2. cached'[p] = cached[p] /\ Validated(p, cached[p])' = Validated(p, cached[p])
  BY DEF Validated
<1>3. Ahead \subseteq Ahead'
  BY EntriesGrow, AheadSame, AheadGrows
<1>4. \A u \in Ahead : entry'[u].default = entry[u].default
  BY AheadStored, EntriesGrow DEF EntryGrows
<1> QED
  BY <1>1, <1>2, <1>3, <1>4

LEMMA WritesValidatedStep ==
  ASSUME Typed, WritesValidated, [Next]_vars
  PROVE  WritesValidated'
<1>1. CASE rpki' = rpki /\ rpki.at = "path"
  <2>1. db' = db
    BY <1>1, NextCases DEF Request, storeUpdate, CopyPathResult, Answer, BeginCommand, ValidateCommand,
       CommandModifiesPath, FinishCommand, Announce, Withdraw, ReceiveEndOfData, VisitUpdate,
       EndOfDataModifiesPath, EndOfDataModifiesUpdate, Dequeue, TellChange, Tick, vars, objects
  <2>2. PathGrows(PathOf[rpki.update]) /\ cached[PathOf[rpki.update]] # None
    <3>1. rpki.update \in Update /\ rpki.update \in Range(order)
      BY <1>1, RPKIHolds DEF Typed, RPKITyped, Validating
    <3> QED
      BY <3>1, PathsGrow, Constants DEF Typed, TypeOK
  <2> QED
    BY <1>1, <2>1, <2>2 DEF WritesValidated, Validated, PathGrows
<1>2. CASE VisitUpdate
  <2> SUFFICES ASSUME rpki'.at = "path"
               PROVE  (rpki.new \in Validated(PathOf[rpki.update], cached[PathOf[rpki.update]]))'
    BY DEF WritesValidated
  <2>1. rpki' # Continue
    <3>1. rpki.next \in Nat /\ rpki.eod \in 1 .. MaxTime /\ order \in Seq(Update)
      BY <1>2, RPKIHolds DEF VisitUpdate, Validating, Typed, TypeOK
    <3> QED
      BY <3>1, VisitTyped DEF Continue
  <2>2. PICK r \in Validated(PathOf[rpki.update], cached[PathOf[rpki.update]]) :
          Changed(rpki', "path", r, PathOf[rpki.update])
    BY <1>2, <2>1, VisitUpdateTyped DEF Changed
  <2>3. rpki'.new = r /\ rpki'.update = rpki.update
    BY <2>2 DEF Changed
  <2>4. db' = db /\ cached' = cached
    BY <1>2 DEF VisitUpdate, objects, store
  <2> QED
    BY <2>2, <2>3, <2>4 DEF Validated
<1>3. CASE rpki'.at # "path"
  BY <1>3 DEF WritesValidated
<1>4. CASE EndOfDataModifiesPath \/ EndOfDataModifiesUpdate \/ ReceiveEndOfData
  <2>1. rpki'.at # "path"
    <3>1. order \in Seq(Update)
      BY DEF Typed, TypeOK
    <3>2. CASE EndOfDataModifiesUpdate
      <4>1. rpki.next \in Nat /\ rpki.eod \in 1 .. MaxTime /\ rpki' = Continue
        BY <3>2, RPKIHolds DEF EndOfDataModifiesUpdate, Validating, Typed
      <4> QED
        BY <3>1, <4>1, VisitTyped DEF Continue
    <3>3. CASE EndOfDataModifiesPath
      <4>1. rpki.next \in Nat /\ rpki.eod \in 1 .. MaxTime
        BY <3>3, RPKIHolds DEF EndOfDataModifiesPath, Validating, Typed
      <4> QED
        BY <3>1, <3>3, <4>1, VisitTyped, EndOfDataModifiesPathTyped DEF Continue
    <3>4. CASE ReceiveEndOfData
      BY <3>1, <3>4, VisitTyped, ReceiveEndOfDataTyped
    <3> QED
      BY <1>4, <3>2, <3>3, <3>4
  <2> QED
    BY <1>3, <2>1
<1>5. CASE Dequeue \/ TellChange
  <2>1. rpki'.at # "path"
    BY <1>5, DequeueTyped, TellTyped DEF NoData, Draining
  <2> QED
    BY <1>3, <2>1
<1> QED
  BY <1>1, <1>2, <1>3, <1>4, <1>5, NextCases DEF Request, storeUpdate, CopyPathResult, Answer, BeginCommand,
     ValidateCommand, CommandModifiesPath, FinishCommand, Announce, Withdraw, Tick, vars

LEMMA DueStep ==
  ASSUME Typed, DueDone, WritesValidated, [Next]_vars
  PROVE  DueDone'
<1> DEFINE Current(p) == cached[p].result \in Validated(p, cached[p])
           Awaited(p) == /\ rpki.eod > cached[p].modified
                         /\ \E u \in Ahead : PathOf[u] = p /\ entry[u].default # "INVALID"
           Done(p) == /\ cached[p] # None
                      /\ \/ Current(p)
                         \/ rpki.at = "path" /\ PathOf[rpki.update] = p
                         \/ Awaited(p)
<1>1. CASE \E u \in Update, d \in Default, s \in Stream, a \in BOOLEAN : Request(u, d, s, a)
  <2>1. PICK u \in Update, d \in Default, s \in Stream, a \in BOOLEAN : Request(u, d, s, a)
    BY <1>1
  <2>2. UNCHANGED <<db, rpki, due>>
    BY <2>1 DEF Request, objects, history
  <2>3. \A p \in due : cached'[p] = cached[p]
    <3>1. \A p \in due : cached[p] # None
      BY DEF DueDone
    <3>2. \/ cached' = cached
          \/ /\ cached[PathOf[u]] = None
             /\ cached' = [cached EXCEPT ![PathOf[u]] = [result |-> d, direction |-> s, modified |-> 0]]
      BY <2>1 DEF Request
    <3>3. cached \in [Path -> CachedPath \cup {None}] /\ due \subseteq Path
      BY DEF Typed, TypeOK
    <3> QED
      BY <3>1, <3>2, <3>3
  <2> QED
    BY <2>2, <2>3, DueFrame
<1>2. CASE \/ storeUpdate \/ CopyPathResult \/ Answer
           \/ BeginCommand \/ ValidateCommand \/ FinishCommand \/ Tick \/ UNCHANGED vars
  <2>1. UNCHANGED <<db, rpki, due, cached>>
    BY <1>2 DEF storeUpdate, CopyPathResult, Answer, BeginCommand, ValidateCommand, FinishCommand, Tick, vars,
                objects, history, store
  <2> QED
    BY <2>1, DueFrame
<1>3. CASE CommandModifiesPath
  <2>1. UNCHANGED <<db, rpki>> /\ due' = due \ {PathOf[handler.update]}
    BY <1>3 DEF CommandModifiesPath, objects
  <2>2. \A p \in Path : p # PathOf[handler.update] => cached'[p] = cached[p]
    BY <1>3, CommandModifiesTyped, PathModified DEF Typed
  <2> QED
    BY <2>1, <2>2, DueFrame DEF Typed
<1>4. CASE \E o \in Object : Announce(o) \/ Withdraw(o)
  <2>1. due' = {}
    BY <1>4 DEF Announce, Withdraw
  <2> QED
    BY <2>1 DEF DueDone
<1>5. CASE ReceiveEndOfData
  <2>1. /\ UNCHANGED <<db, cached, order, entry>> /\ rpki' = Visit(1, time) /\ time \in 1 .. MaxTime
        /\ due' = {p \in Path : /\ \E u \in Range(order) : PathOf[u] = p /\ entry[u].default # "INVALID"
                                /\ cached[p].modified < time}
    BY <1>5, ReceiveEndOfDataTyped DEF ReceiveEndOfData, objects, store
  <2>2. Ahead' = Range(order) /\ (Ahead' # {} => rpki'.eod = time)
    <3>1. Later(1) = Range(order)
      BY DEF Later, Range, Typed, TypeOK
    <3> QED
      BY <2>1, <3>1, AheadAt
  <2>3. ASSUME NEW p \in due' PROVE cached'[p] # None /\ Awaited(p)'
    <3>1. PICK u \in Range(order) : PathOf[u] = p /\ entry[u].default # "INVALID"
      BY <2>1
    <3>2. u \in Update /\ cached[p] # None /\ cached[p].modified \in Nat
      BY <3>1, Constants DEF Typed, TypeOK, CachedPath, Range
    <3>3. u \in Ahead' /\ rpki'.eod = time
      BY <2>2
    <3>4. cached[p].modified < time /\ time \in Nat
      BY <2>1
    <3> QED
      BY <2>1, <3>1, <3>2, <3>3, <3>4
  <2> HIDE DEF Awaited
  <2> QED
    BY <2>3 DEF DueDone, Awaited
<1>6. CASE VisitUpdate
  <2> DEFINE v == rpki.update
             q == PathOf[rpki.update]
  <2>1. UNCHANGED <<db, cached, order, entry, due>>
    BY <1>6 DEF VisitUpdate, objects, store, history
  <2>2. rpki.at = "visit" /\ Validating
    BY <1>6 DEF VisitUpdate, Validating
  <2>3. \/ rpki' = Continue
        \/ rpki'.at \in {"path", "update"} /\ rpki'.next = rpki.next /\ rpki'.eod = rpki.eod
    BY <1>6, VisitUpdateTyped DEF Changed
  <2>4. /\ Ahead = Ahead' \cup {v} /\ (Ahead' # {} => rpki'.eod = rpki.eod)
    BY <2>1, <2>2, <2>3, AheadMoves
  <2>5. ASSUME NEW p \in due PROVE Done(p)'
    <3>1. Done(p)
      BY DEF DueDone
    <3>2. CASE Current(p)
      BY <2>1, <3>1, <3>2 DEF Validated
    <3>3. CASE Awaited(p) /\ \E u \in Ahead' : PathOf[u] = p /\ entry[u].default # "INVALID"
      <4>1. Awaited(p)'
        BY <2>1, <2>4, <3>3
      <4> HIDE DEF Awaited
      <4> QED
        BY <2>1, <3>1, <4>1
    <3>4. CASE Awaited(p) /\ v \in Update /\ PathOf[v] = p /\ entry[v].default # "INVALID"
      <4>1. cached[p] # None /\ cached[p].modified \in Nat /\ rpki.eod \in Nat
        BY <2>2, <3>1, RPKIHolds DEF Typed, TypeOK, CachedPath
      <4>2. ~(rpki.eod <= cached[p].modified)
        BY <3>4, <4>1
      <4>3. PICK r \in Validated(q, cached[q]) : Changed(rpki', "path", r, q)
        BY <1>6, <3>4, <4>2, VisitUpdateTyped
      <4>4. rpki'.at = "path" /\ PathOf[rpki'.update] = p
        BY <3>4, <4>3 DEF Changed
      <4> QED
        BY <2>1, <3>1, <4>4
    <3>5. rpki.update \in Update
      BY <1>6, VisitUpdateTyped
    <3> QED
      BY <2>2, <2>4, <3>1, <3>2, <3>3, <3>4, <3>5
  <2> HIDE DEF Done
  <2> QED
    BY <2>1, <2>5 DEF DueDone, Done
<1>7. CASE EndOfDataModifiesPath
  <2> DEFINE q == PathOf[rpki.update]
  <2>1. UNCHANGED <<db, order, entry, due>> /\ rpki.at = "path" /\ Validating
    BY <1>7 DEF EndOfDataModifiesPath, objects, history, Validating
  <2>2. /\ q \in Path /\ cached[q] # None /\ ModifyPath(q, rpki.new) /\ rpki.new \in PathResult
    BY <1>7, EndOfDataModifiesPathTyped DEF Changing
  <2>3. /\ \A p \in Path : p # q => cached'[p] = cached[p]
        /\ cached'[q] # None /\ cached'[q].result = rpki.new /\ cached'[q].direction = cached[q].direction
    BY <2>2, PathModified DEF Typed
  <2>4. Ahead' = Ahead /\ (Ahead' # {} => rpki'.eod = rpki.eod)
    BY <1>7, <2>1, EndOfDataModifiesPathTyped, AheadMoves
  <2>5. ASSUME NEW p \in due, p # q PROVE Done(p)'
    <3>1. Done(p) /\ cached'[p] = cached[p]
      BY <2>3, <2>5 DEF DueDone, Typed
    <3>2. CASE Current(p)
      BY <2>1, <3>1, <3>2 DEF Validated
    <3>3. CASE Awaited(p)
      <4>1. Awaited(p)'
        BY <2>1, <2>4, <3>1, <3>3
      <4> HIDE DEF Awaited
      <4> QED
        BY <3>1, <4>1
    <3> QED
      BY <2>5, <3>1, <3>2, <3>3
  <2>6. ASSUME NEW p \in due, p = q PROVE Done(p)'
    <3>1. Done(p)
      BY <2>6 DEF DueDone
    <3>2. rpki.new \in Validated(p, cached[p])
      BY <2>1, <2>6 DEF WritesValidated
    <3>3. Validated(p, cached[p])' = Validated(p, cached[p])
      BY <2>1, <2>3, <2>6 DEF Validated
    <3> QED
      BY <2>3, <2>6, <3>2, <3>3
  <2> HIDE DEF Done
  <2> QED
    BY <2>1, <2>5, <2>6 DEF DueDone, Done
<1>8. CASE EndOfDataModifiesUpdate \/ Dequeue \/ TellChange
  <2>1. UNCHANGED <<db, cached, order, due>> /\ rpki.at # "path" /\ rpki.at # "visit"
    BY <1>8 DEF EndOfDataModifiesUpdate, Dequeue, TellChange, objects, store, history
  <2>3. (Ahead' = Ahead /\ (Ahead' # {} => rpki'.eod = rpki.eod)) \/ Ahead = {}
    <3>1. CASE EndOfDataModifiesUpdate
      <4>1. rpki' = Continue /\ Validating
        BY <3>1 DEF EndOfDataModifiesUpdate, Validating
      <4> QED
        BY <2>1, <4>1, AheadMoves
    <3>2. CASE Dequeue \/ TellChange
      <4>1. ~Validating
        BY <3>2 DEF Dequeue, TellChange, Validating
      <4> QED
        BY <4>1, AheadStored
    <3> QED
      BY <1>8, <3>1, <3>2
  <2>4. \A u \in Ahead : entry'[u].default = entry[u].default
    BY AheadStored, EntriesGrow DEF EntryGrows
  <2>5. ASSUME NEW p \in due PROVE Done(p)'
    <3>1. Done(p)
      BY DEF DueDone
    <3>2. CASE Current(p)
      BY <2>1, <3>1, <3>2 DEF Validated
    <3>3. CASE Awaited(p)
      <4>1. Awaited(p)'
        BY <2>1, <2>3, <2>4, <3>3
      <4> HIDE DEF Awaited
      <4> QED
        BY <2>1, <3>1, <4>1
    <3> QED
      BY <2>1, <3>1, <3>2, <3>3
  <2> HIDE DEF Done
  <2> QED
    BY <2>1, <2>5 DEF DueDone, Done
<1> QED
  BY <1>1, <1>2, <1>3, <1>4, <1>5, <1>6, <1>7, <1>8, NextCases

\* After an End of Data the AS path cache has results of the current objects,
\* for every path of a stored update: the walk over the updates stored when it
\* began misses none, whatever the receiver and the handler store meanwhile.
THEOREM PathsAreCurrent == Spec => []PathsCurrent
<1> DEFINE PInv == Typed /\ DueDone /\ WritesValidated
<1>1. PInv => PathsCurrent
  BY AheadStored DEF DueDone, PathsCurrent, Validating
<1>2. Init => PInv
  BY TypedInit, DueInit
<1>3. PInv /\ [Next]_vars => PInv'
  BY TypedStep, DueStep, WritesValidatedStep
<1> QED
  BY <1>1, <1>2, <1>3, PTL DEF Spec

\* In every state of the server, and not in the ones before the first request
\* alone, the walk decides as the objects say, in every direction.
THEOREM HopsAlwaysDecide ==
  Spec => [](HopsDecide /\ \A p \in Path, s \in Direction : Decides(db, p, s, AFI))
<1>1. Typed => HopsDecide /\ \A p \in Path, s \in Direction : Decides(db, p, s, AFI)
  <2> SUFFICES ASSUME Typed, NEW p \in Path, NEW s \in Direction PROVE Decides(db, p, s, AFI)
    BY DEF HopsDecide
  <2>1. DOMAIN db = Asn
    BY DEF Typed, TypeOK
  <2>2. p \in Seq(Range(p)) /\ p # <<>> /\ Range(p) \subseteq Asn
    BY AspaAssumption DEF Asn
  <2>3. p \in Seq(Asn)
    BY <2>2
  <2> QED
    BY <2>1, <2>2, <2>3, WalkDecides
<1> QED
  BY <1>1, TypedInit, TypedStep, PTL DEF Spec

-----------------------------------------------------------------------------
(* The results of updates.                                                 *)

\* Who writes a result: the command handler and an End of Data write those of
\* paths, and every thread those of its own update.
LEMMA Writers ==
  ASSUME Typed, [Next]_vars
  PROVE  /\ \A p \in Path : cached[p] # None =>
              \/ cached'[p] = cached[p]
              \/ CommandModifiesPath /\ p = PathOf[handler.update]
              \/ EndOfDataModifiesPath /\ p = PathOf[rpki.update]
         /\ \A u \in Update : u \in Range(order) =>
              \/ entry'[u] = entry[u]
              \/ CopyPathResult /\ u = receiver.update
              \/ FinishCommand /\ u = handler.update
              \/ EndOfDataModifiesUpdate /\ u = rpki.update
         /\ moved \subseteq moved'
<1>1. \A p \in Path : cached[p] # None =>
        \/ cached'[p] = cached[p]
        \/ CommandModifiesPath /\ p = PathOf[handler.update]
        \/ EndOfDataModifiesPath /\ p = PathOf[rpki.update]
  <2>1. CASE cached' = cached
    BY <2>1
  <2>2. CASE \E u \in Update, d \in Default, s \in Stream, a \in BOOLEAN : Request(u, d, s, a)
    <3>1. PICK u \in Update, d \in Default, s \in Stream, a \in BOOLEAN : Request(u, d, s, a)
      BY <2>2
    <3>2. \/ cached' = cached
          \/ /\ cached[PathOf[u]] = None
             /\ cached' = [cached EXCEPT ![PathOf[u]] = [result |-> d, direction |-> s, modified |-> 0]]
      BY <3>1 DEF Request
    <3>3. cached \in [Path -> CachedPath \cup {None}]
      BY DEF Typed, TypeOK
    <3> QED
      BY <3>2, <3>3
  <2>3. CASE CommandModifiesPath
    BY <2>3, CommandModifiesTyped, PathModified DEF Typed
  <2>4. CASE EndOfDataModifiesPath
    <3>1. rpki.new \in PathResult
      BY <2>4, EndOfDataModifiesPathTyped DEF Changing
    <3> QED
      BY <2>4, <3>1, EndOfDataModifiesPathTyped, PathModified DEF Typed
  <2> QED
    BY <2>1, <2>2, <2>3, <2>4, NextCases
       DEF storeUpdate, CopyPathResult, Answer, BeginCommand, ValidateCommand, FinishCommand, Announce, Withdraw,
           ReceiveEndOfData, VisitUpdate, EndOfDataModifiesUpdate, Dequeue, TellChange, Tick, vars, store
<1>2. \A u \in Update : u \in Range(order) =>
        \/ entry'[u] = entry[u]
        \/ CopyPathResult /\ u = receiver.update
        \/ FinishCommand /\ u = handler.update
        \/ EndOfDataModifiesUpdate /\ u = rpki.update
  <2>1. entry \in [Update -> Entry \cup {None}]
    BY DEF Typed, TypeOK
  <2>2. ASSUME NEW v, NEW r, SetResult(v, r) PROVE \A u \in Update : u # v => entry'[u] = entry[u]
    BY <2>1, <2>2 DEF SetResult
  <2>3. CASE storeUpdate
    <3>1. receiver.update \notin Range(order)
      BY <2>3 DEF storeUpdate, Typed, ReceiverTyped
    <3> QED
      BY <2>1, <2>3, <3>1 DEF storeUpdate
  <2>4. CASE CopyPathResult
    BY <2>2, <2>4 DEF CopyPathResult
  <2>5. CASE FinishCommand
    BY <2>2, <2>5 DEF FinishCommand
  <2>6. CASE EndOfDataModifiesUpdate
    BY <2>2, <2>6 DEF EndOfDataModifiesUpdate
  <2> QED
    BY <2>3, <2>4, <2>5, <2>6, NextCases
       DEF Request, Answer, BeginCommand, ValidateCommand, CommandModifiesPath, Announce, Withdraw,
           ReceiveEndOfData, VisitUpdate, EndOfDataModifiesPath, Dequeue, TellChange, Tick, vars, store
<1>3. moved \subseteq moved'
  BY NextCases DEF Request, storeUpdate, CopyPathResult, Answer, BeginCommand, ValidateCommand,
     CommandModifiesPath, FinishCommand, Announce, Withdraw, ReceiveEndOfData, VisitUpdate,
     EndOfDataModifiesPath, EndOfDataModifiesUpdate, Dequeue, TellChange, Tick, vars, history
<1> QED
  BY <1>1, <1>2, <1>3

\* An End of Data has an update that is not mixed for itself.
LEMMA Alone ==
  ASSUME Separate, rpki.at # "idle", NEW u \in Update, u \notin mixed
  PROVE  receiver.update # u /\ handler.update # u
BY Constants DEF Separate

LEMMA SeparateStep ==
  ASSUME Separate, [Next]_vars
  PROVE  Separate'
BY MixedGrows DEF Separate, vars

\* The End of Data goes on, or a step of another thread leaves it alone.
LEMMA RPKIMoves ==
  ASSUME [Next]_vars
  PROVE  \/ UNCHANGED rpki
         \/ ReceiveEndOfData \/ VisitUpdate \/ EndOfDataModifiesPath \/ EndOfDataModifiesUpdate
         \/ Dequeue \/ TellChange
BY NextCases DEF Request, storeUpdate, CopyPathResult, Answer, BeginCommand, ValidateCommand,
   CommandModifiesPath, FinishCommand, Announce, Withdraw, Tick, vars

\* How the updates ahead change with a step.
LEMMA AheadSteps ==
  ASSUME Typed, [Next]_vars
  PROVE  /\ UNCHANGED rpki => Ahead \subseteq Ahead'
         /\ ReceiveEndOfData => Ahead' = Range(order') /\ order' = order
         /\ VisitUpdate =>
              /\ Ahead = Ahead' \cup {rpki.update} /\ order' = order
              /\ Ahead' # {} => Validating'
              /\ Validating' => rpki'.eod = rpki.eod
         /\ EndOfDataModifiesPath \/ EndOfDataModifiesUpdate =>
              /\ Ahead = Ahead' /\ order' = order
              /\ Ahead' # {} => Validating'
              /\ Validating' => rpki'.eod = rpki.eod
              /\ rpki'.at # "path"
<1>1. UNCHANGED rpki => Ahead \subseteq Ahead'
  BY EntriesGrow, AheadSame, AheadGrows
<1>2. ReceiveEndOfData => Ahead' = Range(order') /\ order' = order
  <2> HAVE ReceiveEndOfData
  <2>1. order' = order /\ rpki' = Visit(1, time) /\ time \in 1 .. MaxTime
    BY ReceiveEndOfDataTyped DEF ReceiveEndOfData, store
  <2>2. Later(1) = Range(order)
    BY DEF Later, Range, Typed, TypeOK
  <2> QED
    BY <2>1, <2>2, AheadAt
<1>3. VisitUpdate =>
        /\ Ahead = Ahead' \cup {rpki.update} /\ order' = order
        /\ Ahead' # {} => Validating'
        /\ Validating' => rpki'.eod = rpki.eod
  <2> HAVE VisitUpdate
  <2>1. order' = order /\ rpki.at = "visit" /\ Validating
    BY DEF VisitUpdate, store, Validating
  <2>2. \/ rpki' = Continue
        \/ rpki'.at \in {"path", "update"} /\ rpki'.next = rpki.next /\ rpki'.eod = rpki.eod
    BY VisitUpdateTyped DEF Changed
  <2> QED
    BY <2>1, <2>2, AheadMoves
<1>4. EndOfDataModifiesPath \/ EndOfDataModifiesUpdate =>
        /\ Ahead = Ahead' /\ order' = order
        /\ Ahead' # {} => Validating'
        /\ Validating' => rpki'.eod = rpki.eod
        /\ rpki'.at # "path"
  <2> HAVE EndOfDataModifiesPath \/ EndOfDataModifiesUpdate
  <2>1. order' = order /\ rpki.at # "visit" /\ Validating
    BY DEF EndOfDataModifiesPath, EndOfDataModifiesUpdate, Validating
  <2>2. \/ rpki' = Continue
        \/ rpki'.at = "update" /\ rpki'.next = rpki.next /\ rpki'.eod = rpki.eod
    BY EndOfDataModifiesPathTyped, EndOfDataModifiesUpdateTyped
  <2>3. rpki' = Continue => rpki'.at # "path"
    <3>1. rpki.next \in Nat /\ rpki.eod \in 1 .. MaxTime /\ order \in Seq(Update)
      BY <2>1, RPKIHolds DEF Typed, TypeOK
    <3> QED
      BY <3>1, VisitTyped DEF Continue
  <2> QED
    BY <2>1, <2>2, <2>3, AheadMoves
<1> QED
  BY <1>1, <1>2, <1>3, <1>4

LEMMA VisitedStep ==
  ASSUME Typed, Visited, [Next]_vars
  PROVE  Visited'
<1> SUFFICES ASSUME Validating', NEW u \in Settled', u \notin Ahead',
                    rpki'.at = "path" => PathOf[rpki'.update] # PathOf[u]
             PROVE  cached'[PathOf[u]].modified >= rpki'.eod
  BY DEF Visited
<1>1. u \in Update /\ PathOf[u] \in Path /\ Typed'
  BY SettledBefore, TypedStep
<1>2. rpki'.eod \in Nat /\ rpki'.eod <= time' /\ time' \in Nat
  <2>1. RPKITyped' /\ time' \in Nat
    BY <1>1 DEF Typed, TypeOK
  <2>2. rpki' \in Visiting \cup Changing
    BY <2>1 DEF RPKITyped, Validating, NoData, Draining, Telling
  <2>3. rpki'.eod \in Nat
    BY <2>2, Constants DEF Visiting, Changing
  <2> QED
    BY <2>1, <2>3 DEF RPKITyped
<1>3. CASE u \notin Settled
  <2>1. storeUpdate /\ rpki.at = "idle" /\ rpki' = rpki
    BY <1>3, SettledBefore DEF storeUpdate
  <2> QED
    BY <2>1 DEF Validating
<1>4. CASE u \in Settled
  <2>1. /\ cached[PathOf[u]] # None /\ cached[PathOf[u]].modified \in Nat /\ u \in Range(order)
        /\ cached'[PathOf[u]].modified >= cached[PathOf[u]].modified
        /\ cached'[PathOf[u]].modified \in Nat
        /\ entry[u].default # "INVALID"
    <3>1. /\ cached[PathOf[u]] # None /\ cached[PathOf[u]] \in CachedPath
          /\ u \in Range(order) /\ entry[u].default # "INVALID"
      BY <1>4, SettledStored
    <3>2. PathGrows(PathOf[u])
      BY <1>1, PathsGrow
    <3>3. cached'[PathOf[u]] # None /\ cached'[PathOf[u]].modified >= cached[PathOf[u]].modified
      BY <3>1, <3>2 DEF PathGrows
    <3>4. cached'[PathOf[u]].modified \in Nat
      <4>1. cached'[PathOf[u]] \in CachedPath \cup {None}
        BY <1>1 DEF Typed, TypeOK
      <4> QED
        BY <3>3, <4>1 DEF CachedPath
    <3>5. cached[PathOf[u]].modified \in Nat
      BY <3>1 DEF CachedPath
    <3> QED
      BY <3>1, <3>3, <3>4, <3>5
  <2>2. ASSUME Validating, u \notin Ahead, rpki'.eod = rpki.eod,
               rpki.at = "path" => PathOf[rpki.update] # PathOf[u]
        PROVE  cached'[PathOf[u]].modified >= rpki'.eod
    <3>1. cached[PathOf[u]].modified >= rpki.eod
      BY <1>4, <2>2 DEF Visited
    <3> QED
      BY <1>2, <2>1, <2>2, <3>1
  <2>3. CASE UNCHANGED rpki
    <3>1. Validating /\ u \notin Ahead
      BY <2>3, AheadSteps DEF Validating
    <3> QED
      BY <2>2, <2>3, <3>1
  <2>4. CASE ReceiveEndOfData
    BY <2>1, <2>4, AheadSteps
  <2>5. CASE VisitUpdate
    <3>1. Validating /\ rpki.at # "path" /\ rpki'.eod = rpki.eod /\ Ahead = Ahead' \cup {rpki.update}
      BY <2>5, AheadSteps DEF VisitUpdate, Validating
    <3>2. CASE u # rpki.update
      BY <2>2, <3>1, <3>2
    <3>3. CASE u = rpki.update
      <4>1. ASSUME NEW r, Changed(rpki', "path", r, PathOf[u]) PROVE FALSE
        BY <3>3, <4>1 DEF Changed
      <4>2. rpki.eod <= cached[PathOf[u]].modified
        BY <2>1, <2>5, <3>3, <4>1, VisitUpdateTyped
      <4> QED
        BY <1>2, <2>1, <3>1, <4>2
    <3> QED
      BY <3>2, <3>3
  <2>6. CASE EndOfDataModifiesPath
    <3>1. Validating /\ rpki'.eod = rpki.eod /\ Ahead = Ahead' /\ rpki.at = "path" /\ time' = time
      BY <2>6, AheadSteps DEF EndOfDataModifiesPath, Validating
    <3>2. CASE PathOf[rpki.update] # PathOf[u]
      BY <2>2, <3>1, <3>2
    <3>3. CASE PathOf[rpki.update] = PathOf[u]
      <4>1. rpki.new \in PathResult
        BY <2>6, EndOfDataModifiesPathTyped DEF Changing
      <4>2. cached'[PathOf[u]].modified = time
        BY <2>6, <3>3, <4>1, EndOfDataModifiesPathTyped, PathModified DEF Typed
      <4> QED
        BY <1>2, <3>1, <4>2
    <3> QED
      BY <3>2, <3>3
  <2>7. CASE EndOfDataModifiesUpdate
    <3>1. Validating /\ rpki'.eod = rpki.eod /\ Ahead = Ahead' /\ rpki.at # "path"
      BY <2>7, AheadSteps DEF EndOfDataModifiesUpdate, Validating
    <3> QED
      BY <2>2, <3>1
  <2>8. CASE Dequeue \/ TellChange
    <3>1. rpki'.at \in {"idle", "tell", "drain"}
      BY <2>8, DequeueTyped, TellTyped DEF NoData, Draining
    <3> QED
      BY <3>1 DEF Validating
  <2> QED
    BY <2>3, <2>4, <2>5, <2>6, <2>7, <2>8, RPKIMoves
<1> QED
  BY <1>3, <1>4

LEMMA FirstOfPathStep ==
  ASSUME Typed, Separate, Follows, Visited, FirstOfPath, [Next]_vars
  PROVE  FirstOfPath'
<1> SUFFICES ASSUME rpki'.at = "path"
             PROVE  /\ entry'[rpki'.update].default # "INVALID"
                    /\ \A u \in Settled' \ Ahead' : PathOf[u] = PathOf[rpki'.update] =>
                         /\ u = rpki'.update
                         /\ PathOf[u] \in moved' \/ entry'[u].result \in {"UNDEFINED", rpki'.old}
  BY DEF FirstOfPath
<1>1. CASE UNCHANGED rpki
  <2>1. rpki.update \in Update /\ rpki.update \in Range(order) /\ rpki.at = "path"
    BY <1>1, RPKIHolds DEF Typed, RPKITyped, Validating
  <2>2. entry'[rpki'.update].default # "INVALID"
    BY <1>1, <2>1, EntriesGrow DEF FirstOfPath, EntryGrows
  <2>3. ASSUME NEW u \in Settled', u \notin Ahead', PathOf[u] = PathOf[rpki.update]
        PROVE  /\ u = rpki.update
               /\ PathOf[u] \in moved' \/ entry'[u].result \in {"UNDEFINED", rpki.old}
    <3>1. u \in Settled /\ u \notin Ahead
      BY <1>1, <2>1, <2>3, AheadSteps, SettledBefore
    <3>2. u = rpki.update /\ (PathOf[u] \in moved \/ entry[u].result \in {"UNDEFINED", rpki.old})
      BY <2>1, <2>3, <3>1 DEF FirstOfPath
    <3>3. receiver.update # u /\ handler.update # u
      BY <2>1, <3>1, <3>2, Alone DEF Settled
    <3>4. entry'[u] = entry[u] /\ moved \subseteq moved'
      BY <2>1, <3>2, <3>3, Writers DEF EndOfDataModifiesUpdate
    <3> QED
      BY <3>2, <3>4
  <2> QED
    BY <1>1, <2>2, <2>3
<1>2. CASE VisitUpdate
  <2> DEFINE v == rpki.update
             q == PathOf[rpki.update]
  <2>1. /\ v \in Update /\ v \in Range(order) /\ q \in Path
        /\ cached[q] # None /\ cached[q].modified \in Nat /\ rpki.eod \in Nat
        /\ rpki.at = "visit" /\ Validating
    <3>1. v \in Update /\ v \in Range(order) /\ rpki.at = "visit" /\ Validating
      BY <1>2, VisitUpdateTyped DEF VisitUpdate, Validating
    <3>2. rpki.eod \in Nat
      BY <3>1, RPKIHolds, Constants DEF Typed
    <3> QED
      BY <3>1, <3>2, Constants DEF Typed, TypeOK, CachedPath
  <2>2. rpki' # Continue
    <3>1. rpki.next \in Nat /\ rpki.eod \in 1 .. MaxTime /\ order \in Seq(Update)
      BY <2>1, RPKIHolds DEF Typed, TypeOK
    <3> QED
      BY <3>1, VisitTyped DEF Continue
  <2>3. /\ entry[v].default # "INVALID" /\ rpki.eod > cached[q].modified
        /\ \E r : Changed(rpki', "path", r, q)
    BY <1>2, <2>2, VisitUpdateTyped DEF Changed
  <2>4. rpki'.update = v /\ rpki'.old = cached[q].result
    BY <2>3 DEF Changed
  <2>5. entry' = entry /\ moved' = moved /\ Ahead = Ahead' \cup {v}
    BY <1>2, AheadSteps DEF VisitUpdate, store, history
  <2>6. ASSUME NEW u \in Settled', u \notin Ahead', PathOf[u] = q
        PROVE  /\ u = v
               /\ PathOf[u] \in moved \/ entry[u].result \in {"UNDEFINED", cached[q].result}
    <3>1. u \in Settled
      BY <1>2, <2>1, SettledBefore
    <3>2. u = v
      <4>1. u \in Ahead
        BY <2>1, <2>3, <2>6, <3>1 DEF Visited
      <4> QED
        BY <2>5, <2>6, <4>1
    <3>3. WillFollow(u)
      BY <3>1 DEF Follows
    <3>4. PathOf[u] \in moved \/ entry[u].result \in {"UNDEFINED", cached[PathOf[u]].result}
      BY <2>1, <2>3, <3>2, <3>3 DEF WillFollow
    <3> QED
      BY <2>6, <3>2, <3>4
  <2> QED
    BY <2>3, <2>4, <2>5, <2>6
<1>3. CASE EndOfDataModifiesPath \/ EndOfDataModifiesUpdate
  BY <1>3, AheadSteps
<1>4. CASE Dequeue \/ TellChange
  BY <1>4, DequeueTyped, TellTyped DEF NoData, Draining
<1>5. CASE ReceiveEndOfData
  <2>1. order \in Seq(Update)
    BY DEF Typed, TypeOK
  <2> QED
    BY <1>5, <2>1, ReceiveEndOfDataTyped, VisitTyped
<1> QED
  BY <1>1, <1>2, <1>3, <1>4, <1>5, RPKIMoves

\* What a modified path has, and what a command that modifies it moves.
LEMMA CommandMoves ==
  ASSUME Typed, CommandModifiesPath, PathOf[handler.update] \notin moved'
  PROVE  /\ PathOf[handler.update] \notin moved
         /\ cached[PathOf[handler.update]].result \in {"UNDEFINED", handler.new}
         /\ cached'[PathOf[handler.update]].result = handler.new
         /\ cached'[PathOf[handler.update]].modified = time
<1>1. /\ PathOf[handler.update] \notin moved
      /\ cached[PathOf[handler.update]].result \in {"UNDEFINED", handler.new}
  BY DEF CommandModifiesPath
<1> QED
  BY <1>1, CommandModifiesTyped, PathModified DEF Typed

LEMMA ReceiverCarriesStep ==
  ASSUME Typed, Separate, ReceiverCarries, [Next]_vars
  PROVE  ReceiverCarries'
<1> DEFINE p == PathOf[receiver.update]
           Carries == receiver.at = "copy" \/ (receiver.at = "store" /\ receiver.copies)
<1>1. CASE UNCHANGED receiver
  <2> SUFFICES ASSUME Carries
               PROVE  /\ receiver.result # "UNDEFINED"
                      /\ receiver.update \notin mixed' /\ p \notin moved' => receiver.result = cached'[p].result
    BY <1>1 DEF ReceiverCarries
  <2>1. receiver.result # "UNDEFINED"
    BY DEF ReceiverCarries
  <2>2. receiver.update \in Update /\ p \in Path /\ cached[p] # None
    BY ReceiverHolds, Constants DEF Typed, ReceiverTyped, TypeOK
  <2>3. ASSUME receiver.update \notin mixed', p \notin moved' PROVE receiver.result = cached'[p].result
    <3>1. receiver.update \notin mixed /\ p \notin moved
      BY <2>3, MixedGrows, Writers
    <3>2. receiver.result = cached[p].result
      BY <3>1 DEF ReceiverCarries
    <3>3. rpki.at = "idle"
      BY <2>2, <3>1, Constants DEF Separate
    <3>4. CASE CommandModifiesPath /\ p = PathOf[handler.update]
      BY <2>1, <2>3, <3>2, <3>4, CommandMoves
    <3>5. CASE cached'[p] = cached[p]
      BY <3>2, <3>5
    <3> QED
      BY <2>2, <3>3, <3>4, <3>5, Writers DEF EndOfDataModifiesPath
  <2> QED
    BY <2>1, <2>3
<1>2. CASE \E u \in Update, d \in Default, s \in Stream, a \in BOOLEAN : Request(u, d, s, a)
  <2>1. PICK u \in Update, d \in Default, s \in Stream, a \in BOOLEAN : Request(u, d, s, a)
    BY <1>2
  <2>2. CASE u \in Range(order)
    <3>1. receiver'.at = "answer"
      BY <2>1, <2>2 DEF Request
    <3> QED
      BY <3>1 DEF ReceiverCarries
  <2>3. CASE u \notin Range(order) /\ cached[PathOf[u]] = None
    <3>1. receiver'.at = "store" /\ receiver'.copies = FALSE
      BY <2>1, <2>3 DEF Request
    <3> QED
      BY <3>1 DEF ReceiverCarries
  <2>4. CASE u \notin Range(order) /\ cached[PathOf[u]] # None
    <3>1. /\ receiver'.update = u /\ receiver'.result = cached[PathOf[u]].result
          /\ receiver'.copies = (cached[PathOf[u]].result # "UNDEFINED")
          /\ receiver'.at = "store" /\ cached' = cached
      BY <2>1, <2>4 DEF Request
    <3> QED
      BY <3>1 DEF ReceiverCarries
  <2> QED
    BY <2>2, <2>3, <2>4
<1>3. CASE storeUpdate
  <2>1. /\ receiver.at = "store" /\ receiver \in Received /\ cached' = cached /\ moved' = moved
        /\ receiver' = [receiver EXCEPT !.at = IF receiver.copies THEN "copy" ELSE "answer"]
    BY <1>3, ReceiverHolds DEF storeUpdate, history, Typed
  <2>2. /\ receiver'.update = receiver.update /\ receiver'.result = receiver.result
        /\ receiver'.at = "copy" => receiver.copies
        /\ receiver'.at # "store"
    BY <2>1 DEF Received
  <2>3. mixed \subseteq mixed'
    BY MixedGrows
  <2> QED
    BY <2>1, <2>2, <2>3 DEF ReceiverCarries
<1>4. CASE CopyPathResult \/ Answer
  <2>1. receiver'.at \in {"answer", "idle"}
    BY <1>4, ReceiverHolds DEF CopyPathResult, Answer, NoRequest, Received, Typed
  <2> QED
    BY <2>1 DEF ReceiverCarries
<1> QED
  BY <1>1, <1>2, <1>3, <1>4, NextCases
     DEF BeginCommand, ValidateCommand, CommandModifiesPath, FinishCommand, Announce, Withdraw, ReceiveEndOfData,
         VisitUpdate, EndOfDataModifiesPath, EndOfDataModifiesUpdate, Dequeue, TellChange, Tick, vars

LEMMA HandlerCarriesStep ==
  ASSUME Typed, Separate, Follows, HandlerCarries, [Next]_vars
  PROVE  HandlerCarries'
<1> DEFINE Carries(h, c) ==
             \/ h.result = c.result
             \/ h.at = "path" /\ c.result = "UNDEFINED" /\ h.result = h.new
             \/ h.at = "update" /\ h.result \in {"UNDEFINED", "DONOTUSE"}
<1> SUFFICES ASSUME handler'.at \in {"path", "update"}, handler'.update \notin mixed',
                    PathOf[handler'.update] \notin moved'
             PROVE  Carries(handler', cached'[PathOf[handler'.update]])
  BY DEF HandlerCarries
<1>1. CASE UNCHANGED handler
  <2> DEFINE p == PathOf[handler.update]
  <2>1. handler.update \in Update /\ p \in Path /\ cached[p] # None
    BY <1>1, HandlerHolds, Constants DEF Typed, HandlerTyped, TypeOK
  <2>2. handler.update \notin mixed /\ p \notin moved
    BY <1>1, MixedGrows, Writers
  <2>3. Carries(handler, cached[p])
    BY <1>1, <2>2 DEF HandlerCarries
  <2>4. rpki.at = "idle"
    BY <2>1, <2>2, Constants DEF Separate
  <2>5. ~CommandModifiesPath
    <3>1. ASSUME CommandModifiesPath PROVE FALSE
      BY <1>1, <3>1, CommandModifiesTyped DEF CommandModifiesPath
    <3> QED
      BY <3>1
  <2>6. cached'[p] = cached[p]
    BY <2>1, <2>4, <2>5, Writers DEF EndOfDataModifiesPath
  <2> QED
    BY <1>1, <2>3, <2>6
<1>2. CASE BeginCommand
  <2> DEFINE u == Head(commands)
  <2>1. /\ entry[u].default # "INVALID"
        /\ handler' = [at |-> "update", update |-> u, result |-> entry[u].result]
    BY <1>2 DEF BeginCommand, NoCommand
  <2>2. handler'.update = u /\ handler'.result = entry[u].result /\ handler'.at = "update"
    BY <2>1
  <2>3. u \in Update /\ u \in Range(order)
    BY <1>2, BeginTyped
  <2>4. cached' = cached /\ rpki' = rpki /\ ~ UNCHANGED vars
    <3>1. cached' = cached /\ rpki' = rpki /\ handler.at = "idle"
      BY <1>2 DEF BeginCommand, store
    <3> QED
      BY <2>2, <3>1 DEF vars
  <2> HIDE DEF u
  <2>5. rpki.at = "idle" /\ u \notin mixed /\ PathOf[u] \notin moved
    BY <2>2, <2>3, <2>4, MixedGrows, Writers, Constants
  <2>6. WillFollow(u)
    BY <2>1, <2>3, <2>5 DEF Follows, Settled
  <2>7. entry[u].result \in {"UNDEFINED", cached[PathOf[u]].result}
    BY <2>5, <2>6, AheadStored DEF WillFollow, Validating
  <2> QED
    BY <2>2, <2>4, <2>7
<1>3. CASE ValidateCommand
  <2>1. cached' = cached
    BY <1>3 DEF ValidateCommand, store
  <2> QED
    BY <1>3, <2>1, ValidateTyped DEF Modified
<1>4. CASE CommandModifiesPath
  <2> DEFINE p == PathOf[handler.update]
  <2>1. handler'.update = handler.update /\ handler'.result = handler.result /\ handler'.at = "update"
    BY <1>4, CommandModifiesTyped
  <2>2. /\ p \notin moved /\ cached[p].result \in {"UNDEFINED", handler.new}
        /\ cached'[p].result = handler.new
    BY <1>4, <2>1, CommandMoves
  <2>3. handler.update \notin mixed /\ handler.at = "path"
    BY <1>4, <2>1, MixedGrows DEF CommandModifiesPath
  <2>4. Carries(handler, cached[p])
    BY <2>2, <2>3 DEF HandlerCarries
  <2> QED
    BY <2>1, <2>2, <2>3, <2>4
<1>5. CASE FinishCommand
  BY <1>5, FinishTyped DEF NoCommand
<1> QED
  BY <1>1, <1>2, <1>3, <1>4, <1>5, NextCases
     DEF Request, storeUpdate, CopyPathResult, Answer, Announce, Withdraw, ReceiveEndOfData, VisitUpdate,
         EndOfDataModifiesPath, EndOfDataModifiesUpdate, Dequeue, TellChange, Tick, vars

LEMMA RPKICarriesStep ==
  ASSUME Typed, Separate, RPKICarries, [Next]_vars
  PROVE  RPKICarries'
<1>1. ASSUME rpki'.at = "update", rpki'.update \notin mixed', PathOf[rpki'.update] \notin moved'
      PROVE  rpki'.new \in {"UNDEFINED", cached'[PathOf[rpki'.update]].result}
  <2>1. CASE UNCHANGED rpki
    <3> DEFINE p == PathOf[rpki.update]
    <3>1. rpki.update \in Update /\ p \in Path /\ cached[p] # None
      BY <1>1, <2>1, RPKIHolds, Constants DEF Typed, RPKITyped, TypeOK, Validating
    <3>2. rpki.new \in {"UNDEFINED", cached[p].result}
      BY <1>1, <2>1, MixedGrows, Writers DEF RPKICarries
    <3>3. CASE CommandModifiesPath /\ p = PathOf[handler.update]
      BY <1>1, <2>1, <3>2, <3>3, CommandMoves
    <3>4. CASE cached'[p] = cached[p]
      BY <2>1, <3>2, <3>4
    <3> QED
      BY <1>1, <2>1, <3>1, <3>3, <3>4, Writers DEF EndOfDataModifiesPath
  <2>2. CASE VisitUpdate
    <3>1. rpki' # Continue
      <4>1. rpki.next \in Nat /\ rpki.eod \in 1 .. MaxTime /\ order \in Seq(Update)
        BY <2>2, RPKIHolds DEF VisitUpdate, Validating, Typed, TypeOK
      <4> QED
        BY <1>1, <4>1, VisitTyped DEF Continue
    <3>2. Changed(rpki', "update", cached[PathOf[rpki.update]].result, PathOf[rpki.update])
      BY <1>1, <2>2, <3>1, VisitUpdateTyped DEF Changed
    <3> QED
      BY <2>2, <3>2 DEF Changed, VisitUpdate, store
  <2>3. CASE EndOfDataModifiesPath
    <3>1. rpki' # Continue
      <4>1. rpki.next \in Nat /\ rpki.eod \in 1 .. MaxTime /\ order \in Seq(Update)
        BY <2>3, RPKIHolds DEF EndOfDataModifiesPath, Validating, Typed, TypeOK
      <4> QED
        BY <1>1, <4>1, VisitTyped DEF Continue
    <3>2. rpki'.new = rpki.new /\ rpki'.update = rpki.update
      BY <2>3, <3>1, EndOfDataModifiesPathTyped
    <3>3. rpki.new \in PathResult
      BY <2>3, EndOfDataModifiesPathTyped DEF Changing
    <3> QED
      BY <2>3, <3>2, <3>3, EndOfDataModifiesPathTyped, PathModified DEF Typed
  <2>4. CASE EndOfDataModifiesUpdate \/ ReceiveEndOfData
    <3>1. order \in Seq(Update)
      BY DEF Typed, TypeOK
    <3>2. CASE EndOfDataModifiesUpdate
      <4>1. rpki.next \in Nat /\ rpki.eod \in 1 .. MaxTime
        BY <3>2, RPKIHolds DEF EndOfDataModifiesUpdate, Validating, Typed
      <4> QED
        BY <1>1, <3>1, <3>2, <4>1, VisitTyped, EndOfDataModifiesUpdateTyped DEF Continue
    <3>3. CASE ReceiveEndOfData
      BY <1>1, <3>1, <3>3, VisitTyped, ReceiveEndOfDataTyped
    <3> QED
      BY <2>4, <3>2, <3>3
  <2>5. CASE Dequeue \/ TellChange
    BY <1>1, <2>5, DequeueTyped, TellTyped DEF NoData, Draining
  <2> QED
    BY <2>1, <2>2, <2>3, <2>4, <2>5, RPKIMoves
<1>2. ASSUME rpki'.at = "tell", rpki'.update \notin mixed'
      PROVE  rpki'.result = entry'[rpki'.update].result
  <2>1. CASE UNCHANGED rpki
    <3>1. /\ rpki.update \in Update /\ rpki.update \in Range(order) /\ rpki.update \notin mixed
          /\ rpki.at = "tell"
      BY <1>2, <2>1, RPKIHolds, MixedGrows DEF Typed, RPKITyped
    <3>2. receiver.update # rpki.update /\ handler.update # rpki.update
      BY <3>1, Alone
    <3>3. entry'[rpki.update] = entry[rpki.update]
      BY <3>1, <3>2, Writers DEF EndOfDataModifiesUpdate
    <3> QED
      BY <2>1, <3>1, <3>3 DEF RPKICarries
  <2>2. CASE Dequeue
    BY <1>2, <2>2, DequeueTyped DEF NoData, Dequeue, store
  <2>3. CASE TellChange
    BY <1>2, <2>3, TellTyped DEF Draining
  <2>4. CASE VisitUpdate \/ EndOfDataModifiesPath \/ EndOfDataModifiesUpdate
    <3>1. rpki.next \in Nat /\ rpki.eod \in 1 .. MaxTime /\ order \in Seq(Update)
      BY <2>4, RPKIHolds
         DEF VisitUpdate, EndOfDataModifiesPath, EndOfDataModifiesUpdate, Validating, Typed, TypeOK
    <3>2. Continue.at # "tell"
      BY <3>1, VisitTyped DEF Continue
    <3> QED
      BY <1>2, <2>4, <3>2, VisitUpdateTyped, EndOfDataModifiesPathTyped, EndOfDataModifiesUpdateTyped
         DEF Changed
  <2>5. CASE ReceiveEndOfData
    <3>1. order \in Seq(Update)
      BY DEF Typed, TypeOK
    <3> QED
      BY <1>2, <2>5, <3>1, VisitTyped, ReceiveEndOfDataTyped
  <2> QED
    BY <2>1, <2>2, <2>3, <2>4, <2>5, RPKIMoves
<1> QED
  BY <1>1, <1>2 DEF RPKICarries

LEMMA FollowsStep ==
  ASSUME Typed, Separate, Follows, FirstOfPath, ReceiverCarries, HandlerCarries, RPKICarries, [Next]_vars
  PROVE  Follows'
<1> SUFFICES ASSUME NEW u \in Settled', PathOf[u] \notin moved'
             PROVE  \/ entry'[u].result \in {"UNDEFINED", cached'[PathOf[u]].result}
                    \/ rpki'.at = "update" /\ rpki'.update = u
                    \/ u \in Ahead' /\ rpki'.eod <= cached'[PathOf[u]].modified
  BY DEF Follows, WillFollow
<1> DEFINE p == PathOf[u]
           Same(e, c) == e.result \in {"UNDEFINED", c.result}
<1>1. u \in Update /\ p \in Path /\ u \notin mixed /\ p \notin moved
  BY SettledBefore, Writers
<1>2. CASE u \notin Settled
  <2>1. storeUpdate /\ u = receiver.update
    BY <1>2, SettledBefore
  <2>2. entry'[u].result = "UNDEFINED"
    BY <1>1, <2>1 DEF storeUpdate, Typed, TypeOK
  <2> QED
    BY <2>2
<1>3. CASE u \in Settled
  <2>1. /\ u \in Range(order) /\ entry[u] \in Entry /\ cached[p] # None /\ cached[p] \in CachedPath
        /\ entry[u].default # "INVALID"
    BY <1>3, SettledStored
  <2>2. \/ Same(entry[u], cached[p])
        \/ rpki.at = "update" /\ rpki.update = u
        \/ u \in Ahead /\ rpki.eod <= cached[p].modified
    BY <1>1, <1>3 DEF Follows, WillFollow
  <2>3. cached[p].modified \in Nat /\ (Validating => rpki.eod \in Nat)
    BY <2>1, RPKIHolds, Constants DEF CachedPath, Typed
  <2>4. CASE UNCHANGED rpki
    <3>1. Ahead \subseteq Ahead'
      BY <2>4, AheadSteps
    <3>2. rpki.at # "path" \/ ~EndOfDataModifiesPath
      BY <2>4, AheadSteps DEF EndOfDataModifiesPath
    <3>3. cached'[p].modified >= cached[p].modified /\ cached'[p].modified \in Nat
      <4>1. cached'[p] # None /\ Typed'
        BY <1>1, <2>1, PathsGrow, TypedStep DEF PathGrows
      <4>2. cached'[p] \in CachedPath
        BY <1>1, <4>1 DEF Typed, TypeOK
      <4>3. cached'[p].modified >= cached[p].modified
        BY <1>1, <2>1, PathsGrow DEF PathGrows
      <4> QED
        BY <4>2, <4>3 DEF CachedPath
    <3>4. Same(entry[u], cached[p]) => Same(entry[u], cached'[p])
      <4>1. CASE CommandModifiesPath /\ p = PathOf[handler.update]
        BY <4>1, CommandMoves
      <4>2. CASE cached'[p] = cached[p]
        BY <4>2
      <4>3. ~EndOfDataModifiesPath
        BY <2>4, <3>2 DEF EndOfDataModifiesPath
      <4> QED
        BY <1>1, <2>1, <4>1, <4>2, <4>3, Writers
    <3>5. CASE entry'[u] = entry[u]
      <4>1. u \in Ahead => Validating
        BY AheadStored
      <4> QED
        BY <2>2, <2>3, <2>4, <3>1, <3>3, <3>4, <3>5, <4>1
    <3>6. CASE CopyPathResult /\ u = receiver.update
      <4>1. receiver.at = "copy" /\ cached' = cached
        BY <3>6 DEF CopyPathResult
      <4>2. receiver.result = cached[p].result /\ receiver.result \in ToldResult
        BY <1>1, <3>6, <4>1, ReceiverHolds DEF ReceiverCarries, Typed, Received
      <4>3. \/ entry'[u].result = cached[p].result
            \/ entry'[u].result = entry[u].result
        BY <1>1, <2>1, <3>6, <4>2, ResultSet DEF CopyPathResult, Typed
      <4>4. rpki.at = "idle"
        BY <1>1, <3>6, Alone
      <4>5. Same(entry[u], cached[p])
        BY <2>2, <4>4, AheadStored DEF Validating
      <4> QED
        BY <4>1, <4>3, <4>5
    <3>7. CASE FinishCommand /\ u = handler.update
      <4>1. handler.at = "update" /\ cached' = cached /\ SetResult(u, handler.result)
        BY <3>7 DEF FinishCommand
      <4>2. handler.result \in {"UNDEFINED", "DONOTUSE", cached[p].result} /\ handler.result \in ToldResult
        BY <1>1, <3>7, <4>1, FinishTyped DEF HandlerCarries
      <4>3. \/ entry'[u].result \in {"UNDEFINED", cached[p].result}
            \/ entry'[u].result = entry[u].result
        BY <1>1, <2>1, <4>1, <4>2, ResultSet DEF Typed
      <4>4. rpki.at = "idle"
        BY <1>1, <3>7, Alone
      <4>5. Same(entry[u], cached[p])
        BY <2>2, <4>4, AheadStored DEF Validating
      <4> QED
        BY <4>1, <4>3, <4>5
    <3>8. CASE EndOfDataModifiesUpdate /\ u = rpki.update
      <4>1. rpki' = Continue /\ rpki.at = "update" /\ rpki.next \in Nat /\ rpki.eod \in 1 .. MaxTime
        BY <3>8, RPKIHolds DEF EndOfDataModifiesUpdate, Typed, Validating
      <4>2. order \in Seq(Update)
        BY DEF Typed, TypeOK
      <4> QED
        BY <2>4, <4>1, <4>2, VisitTyped DEF Continue
    <3> QED
      BY <1>1, <2>1, <3>5, <3>6, <3>7, <3>8, Writers
  <2>5. CASE ReceiveEndOfData
    <3>1. rpki.at = "idle" /\ entry' = entry /\ cached' = cached
      BY <2>5 DEF ReceiveEndOfData, store
    <3> QED
      BY <2>2, <3>1, AheadStored DEF Validating
  <2>6. CASE VisitUpdate
    <3>1. /\ entry' = entry /\ cached' = cached /\ rpki.at = "visit" /\ Validating
          /\ Ahead = Ahead' \cup {rpki.update}
          /\ Ahead' # {} => Validating'
          /\ Validating' => rpki'.eod = rpki.eod
      BY <2>6, AheadSteps DEF VisitUpdate, store, Validating
    <3>2. CASE Same(entry[u], cached[p])
      BY <3>1, <3>2
    <3>3. CASE u \in Ahead' /\ rpki.eod <= cached[p].modified
      BY <3>1, <3>3
    <3>4. CASE u = rpki.update /\ rpki.eod <= cached[p].modified
      <4>1. ~(rpki.eod > cached[p].modified)
        BY <2>3, <3>1, <3>4
      <4>2. Changed(rpki', "update", cached[p].result, p) \/ entry[u].result = cached[p].result
        BY <2>1, <2>6, <3>4, <4>1, VisitUpdateTyped
      <4> QED
        BY <3>1, <3>4, <4>2 DEF Changed
    <3> QED
      BY <2>2, <3>1, <3>2, <3>3, <3>4
  <2>7. CASE EndOfDataModifiesPath
    <3> DEFINE q == PathOf[rpki.update]
    <3>1. /\ entry' = entry /\ rpki.at = "path" /\ Validating /\ rpki.eod <= time
          /\ Ahead = Ahead'
          /\ Ahead' # {} => Validating'
          /\ Validating' => rpki'.eod = rpki.eod
      BY <2>7, AheadSteps DEF EndOfDataModifiesPath, Validating, Typed, RPKITyped
    <3>2. /\ q \in Path /\ cached'[q].result = rpki.new /\ cached'[q].modified = time
          /\ \A x \in Path : x # q => cached'[x] = cached[x]
      <4>1. rpki.new \in PathResult
        BY <2>7, EndOfDataModifiesPathTyped DEF Changing
      <4> QED
        BY <2>7, <4>1, EndOfDataModifiesPathTyped, PathModified DEF Typed
    <3>3. CASE p # q
      BY <1>1, <2>2, <3>1, <3>2, <3>3
    <3>4. CASE p = q /\ u \in Ahead
      BY <3>1, <3>2, <3>4
    <3>5. CASE p = q /\ u \notin Ahead
      <4>1. u = rpki.update /\ entry[u].result \in {"UNDEFINED", rpki.old}
        BY <1>1, <1>3, <3>1, <3>5 DEF FirstOfPath
      <4>2. CASE rpki.new = rpki.old
        BY <3>1, <3>2, <3>5, <4>1, <4>2
      <4>3. CASE rpki.new # rpki.old
        BY <2>7, <4>1, <4>3, EndOfDataModifiesPathTyped
      <4> QED
        BY <4>2, <4>3
    <3> QED
      BY <3>3, <3>4, <3>5
  <2>8. CASE EndOfDataModifiesUpdate
    <3>1. /\ cached' = cached /\ rpki.at = "update" /\ Validating
          /\ Ahead = Ahead'
          /\ Ahead' # {} => Validating'
          /\ Validating' => rpki'.eod = rpki.eod
          /\ SetResult(rpki.update, rpki.new)
      BY <2>8, AheadSteps DEF EndOfDataModifiesUpdate, Validating
    <3>2. CASE u = rpki.update
      <4>1. rpki.new \in {"UNDEFINED", cached[p].result} /\ rpki.new \in PathResult
        BY <1>1, <2>8, <3>1, <3>2, EndOfDataModifiesUpdateTyped DEF RPKICarries
      <4>2. entry'[u].result = rpki.new
        BY <1>1, <2>1, <3>1, <3>2, <4>1, Constants, ResultSet DEF Typed
      <4> QED
        BY <3>1, <4>1, <4>2
    <3>3. CASE u # rpki.update
      <4>1. entry'[u] = entry[u]
        BY <1>1, <2>1, <2>8, <3>1, <3>3, Writers
           DEF CopyPathResult, FinishCommand, EndOfDataModifiesUpdate, SetResult,
           Typed, TypeOK
      <4> QED
        BY <2>2, <3>1, <3>3, <4>1
    <3> QED
      BY <3>2, <3>3
  <2>9. CASE Dequeue \/ TellChange
    <3>1. entry' = entry /\ cached' = cached /\ rpki.at \in {"drain", "tell"}
      BY <2>9 DEF Dequeue, TellChange, store
    <3> QED
      BY <2>2, <3>1, AheadStored DEF Validating
  <2> QED
    BY <2>4, <2>5, <2>6, <2>7, <2>8, <2>9, RPKIMoves
<1> QED
  BY <1>2, <1>3

FInv ==
  /\ Typed /\ Separate /\ Follows /\ Visited /\ FirstOfPath
  /\ ReceiverCarries /\ HandlerCarries /\ RPKICarries

LEMMA FollowsInit == Init => FInv
<1> SUFFICES ASSUME Init PROVE FInv
  OBVIOUS
<1>1. Typed
  BY TypedInit
<1>2. Settled = {}
  BY DEF Init, Settled, Range
<1>3. rpki.at = "idle" /\ receiver.at = "idle" /\ handler.at = "idle"
  BY DEF Init, NoRequest, NoCommand, NoData
<1> QED
  BY <1>1, <1>2, <1>3 DEF FInv, Separate, Follows, Visited, FirstOfPath, ReceiverCarries, HandlerCarries,
     RPKICarries, Validating

\* The updates of a path have the result of the path, as far as no command
\* changed a result the path had and no two threads had an update at a time:
\* an End of Data validates a path for the first of its updates, and all the
\* others catch up with it.
THEOREM UpdatesFollow == Spec => []UpdatesFollowPath
<1>1. FInv => UpdatesFollowPath
  <2> SUFFICES ASSUME FInv, Quiet, NEW u \in Settled
               PROVE  \/ entry[u].result \in {"UNDEFINED", cached[PathOf[u]].result}
                      \/ PathOf[u] \in moved
    BY DEF UpdatesFollowPath
  <2>1. WillFollow(u) /\ rpki.at = "idle" /\ Ahead = {}
    BY AheadStored DEF FInv, Follows, Quiet, Validating
  <2> QED
    BY <2>1 DEF WillFollow
<1>2. FInv /\ [Next]_vars => FInv'
  BY TypedStep, SeparateStep, FollowsStep, VisitedStep, FirstOfPathStep, ReceiverCarriesStep, HandlerCarriesStep,
     RPKICarriesStep DEF FInv
<1> QED
  BY <1>1, <1>2, FollowsInit, PTL DEF Spec

-----------------------------------------------------------------------------
(* What the router is told.                                                *)

\* Who tells the router: the receiver, which then sends a command, the command
\* handler what it stores, and an End of Data what it took from the queue.
LEMMA Tellers ==
  ASSUME Typed, [Next]_vars, NEW u \in Update
  PROVE  \/ told'[u] = told[u]
         \/ Answer /\ u = receiver.update /\ told'[u] = receiver.result /\ u \in Range(commands')
         \/ FinishCommand /\ u = handler.update /\ told'[u] = handler.result
         \/ TellChange /\ u = rpki.update /\ told'[u] = rpki.result
<1>1. told \in [Update -> ToldResult \cup {None}]
  BY DEF Typed, TypeOK
<1>2. CASE Answer
  <2>1. CASE receiver.answered
    <3>1. commands' = Append(commands, receiver.update) /\ told' = [told EXCEPT ![receiver.update] = receiver.result]
      BY <1>2, <2>1 DEF Answer
    <3>2. receiver.update \in Range(order) /\ commands \in Seq(Range(order))
      BY <1>2 DEF Answer, Typed, ReceiverTyped, TypeOK
    <3>3. receiver.update \in Range(commands')
      BY <3>1, <3>2, Appended
    <3> QED
      BY <1>1, <1>2, <3>1, <3>3
  <2>2. CASE ~receiver.answered
    BY <1>2, <2>2 DEF Answer
  <2> QED
    BY <2>1, <2>2
<1>3. CASE FinishCommand
  BY <1>1, <1>3 DEF FinishCommand
<1>4. CASE TellChange
  BY <1>1, <1>4 DEF TellChange
<1> QED
  BY <1>2, <1>3, <1>4, NextCases
     DEF Request, storeUpdate, CopyPathResult, BeginCommand, ValidateCommand, CommandModifiesPath, Announce, Withdraw,
         ReceiveEndOfData, VisitUpdate, EndOfDataModifiesPath, EndOfDataModifiesUpdate, Dequeue, Tick, vars

\* A command is sent by the receiver and taken by the command handler.
LEMMA CommandsMove ==
  ASSUME Typed, [Next]_vars, NEW u
  PROVE  /\ u \in Range(commands) => u \in Range(commands') \/ (BeginCommand /\ u = Head(commands))
         /\ u \in Range(commands') => u \in Range(commands) \/ (Answer /\ u = receiver.update)
<1>1. CASE BeginCommand
  BY <1>1, BeginTyped
<1>2. CASE Answer
  <2>1. receiver.update \in Range(order) /\ commands \in Seq(Range(order))
    BY <1>2 DEF Answer, Typed, ReceiverTyped, TypeOK
  <2>2. commands' = commands \/ commands' = Append(commands, receiver.update)
    BY <1>2 DEF Answer
  <2>3. Range(Append(commands, receiver.update)) = Range(commands) \cup {receiver.update}
    BY <2>1, Appended
  <2>4. Range(commands') \in {Range(commands), Range(commands) \cup {receiver.update}}
    BY <2>2, <2>3
  <2> QED
    BY <1>2, <2>4
<1> QED
  BY <1>1, <1>2, NextCases
     DEF Request, storeUpdate, CopyPathResult, ValidateCommand, CommandModifiesPath, FinishCommand, Announce, Withdraw,
         ReceiveEndOfData, VisitUpdate, EndOfDataModifiesPath, EndOfDataModifiesUpdate, Dequeue, TellChange, Tick, vars

LEMMA QueueMoves ==
  ASSUME Typed, [Next]_vars, NEW u
  PROVE  /\ u \in Range(queue) => u \in Range(queue') \/ (Dequeue /\ rpki'.at = "tell" /\ rpki'.update = u)
         /\ u \in Range(queue') => u \in Range(queue) \/ (EndOfDataModifiesUpdate /\ u = rpki.update)
<1>1. CASE Dequeue
  BY <1>1, DequeueTyped
<1>2. CASE EndOfDataModifiesUpdate
  BY <1>2, EndOfDataModifiesUpdateTyped
<1> QED
  BY <1>1, <1>2, NextCases
     DEF Request, storeUpdate, CopyPathResult, Answer, BeginCommand, ValidateCommand, CommandModifiesPath,
         FinishCommand, Announce, Withdraw, ReceiveEndOfData, VisitUpdate, EndOfDataModifiesPath, TellChange, Tick, vars

LEMMA FirstRequestStep ==
  ASSUME Typed, Separate, FirstRequest, [Next]_vars
  PROVE  FirstRequest'
<1> DEFINE u == receiver.update
<1> SUFFICES ASSUME receiver'.at = "copy"
             PROVE  (/\ u \notin Range(commands)
                     /\ handler.update # u
                     /\ u \in mixed \/ told[u] = None)'
  BY DEF FirstRequest
<1>1. CASE UNCHANGED receiver
  <2>1. u \in Update
    BY <1>1, ReceiverHolds DEF Typed
  <2>2. u \notin Range(commands) /\ handler.update # u /\ (u \in mixed \/ told[u] = None)
    BY <1>1 DEF FirstRequest
  <2>3. ~Answer
    BY <1>1 DEF Answer, NoRequest
  <2>4. u \notin Range(commands')
    BY <2>2, <2>3, CommandsMove
  <2>5. handler'.update # u
    <3>1. CASE BeginCommand
      <4>1. Head(commands) # u
        BY <2>2, <3>1, BeginTyped
      <4> QED
        BY <2>1, <3>1, <4>1, Constants DEF BeginCommand, NoCommand
    <3>2. CASE ValidateCommand
      BY <2>2, <3>2, ValidateTyped
    <3>3. CASE CommandModifiesPath
      BY <2>2, <3>3, CommandModifiesTyped
    <3>4. CASE FinishCommand
      BY <2>1, <3>4, FinishTyped, Constants DEF NoCommand
    <3> QED
      BY <2>2, <3>1, <3>2, <3>3, <3>4, NextCases
         DEF Request, storeUpdate, CopyPathResult, Answer, Announce, Withdraw, ReceiveEndOfData, VisitUpdate,
             EndOfDataModifiesPath, EndOfDataModifiesUpdate, Dequeue, TellChange, Tick, vars
  <2>6. u \in mixed' \/ told'[u] = None
    <3>1. CASE u \in mixed
      BY <3>1, MixedGrows
    <3>2. CASE u \notin mixed
      <4>1. rpki.at = "idle"
        BY <2>1, <3>2, Alone
      <4> QED
        BY <2>1, <2>2, <2>3, <3>2, <4>1, Tellers DEF TellChange
    <3> QED
      BY <3>1, <3>2
  <2> QED
    BY <1>1, <2>4, <2>5, <2>6
<1>2. CASE storeUpdate
  <2>1. /\ receiver.at = "store" /\ receiver \in Received /\ u \in Update /\ u \notin Range(order)
        /\ receiver' = [receiver EXCEPT !.at = IF receiver.copies THEN "copy" ELSE "answer"]
        /\ UNCHANGED <<commands, handler, told>>
    BY <1>2, ReceiverHolds DEF storeUpdate, Typed, ReceiverTyped
  <2>2. receiver'.update = u
    BY <2>1 DEF Received
  <2>3. u \notin Range(commands) /\ told[u] = None
    BY <2>1 DEF Typed, TypeOK, UntoldUntilStored, Range
  <2>4. handler.update # u
    BY <2>1, HandlerHolds, Constants DEF Typed, HandlerTyped, NoCommand
  <2> QED
    BY <2>1, <2>2, <2>3, <2>4
<1>3. CASE \E v \in Update, d \in Default, s \in Stream, a \in BOOLEAN : Request(v, d, s, a)
  <2>1. receiver'.at \in {"store", "answer"}
    BY <1>3 DEF Request
  <2> QED
    BY <2>1
<1>4. CASE CopyPathResult \/ Answer
  <2>1. receiver'.at \in {"answer", "idle"}
    BY <1>4, ReceiverHolds DEF CopyPathResult, Answer, NoRequest, Received, Typed
  <2> QED
    BY <2>1
<1> QED
  BY <1>1, <1>2, <1>3, <1>4, NextCases
     DEF BeginCommand, ValidateCommand, CommandModifiesPath, FinishCommand, Announce, Withdraw, ReceiveEndOfData,
         VisitUpdate, EndOfDataModifiesPath, EndOfDataModifiesUpdate, Dequeue, TellChange, Tick, vars

LEMMA NoResultYetStep ==
  ASSUME Typed, NoResultYet, [Next]_vars
  PROVE  NoResultYet'
<1> SUFFICES ASSUME NEW u \in Update, cached'[PathOf[u]] # None, cached'[PathOf[u]].result = "DONOTUSE"
             PROVE  HasNoResult(u)'
  BY DEF NoResultYet
<1> DEFINE p == PathOf[u]
<1>1. p \in Path /\ u # None
  BY Constants
<1>2. CASE cached[p] = None
  <2>1. /\ u \notin Range(order) /\ told[u] = None /\ u \notin Range(queue)
        /\ handler.update # u /\ rpki.update # u
    BY <1>1, <1>2
       DEF Typed, TypeOK, UntoldUntilStored, HandlerTyped, RPKITyped, NoCommand, NoData, Draining, Range,
       Taken, TakenValidated, TakenStored, Visiting, Changing, Telling, Validating
  <2>2. PICK v \in Update, d \in Default, s \in Stream, a \in BOOLEAN : Request(v, d, s, a)
    <3>1. CASE CommandModifiesPath
      BY <1>1, <1>2, <3>1, CommandModifiesTyped, PathModified DEF Typed
    <3>2. CASE EndOfDataModifiesPath
      <4>1. rpki.new \in PathResult
        BY <3>2, EndOfDataModifiesPathTyped DEF Changing
      <4> QED
        BY <1>1, <1>2, <3>2, <4>1, EndOfDataModifiesPathTyped, PathModified DEF Typed
    <3>3. CASE cached' = cached
      BY <1>2, <3>3
    <3> QED
      BY <3>1, <3>2, <3>3, NextCases
         DEF storeUpdate, CopyPathResult, Answer, BeginCommand, ValidateCommand, FinishCommand, Announce, Withdraw,
             ReceiveEndOfData, VisitUpdate, EndOfDataModifiesUpdate, Dequeue, TellChange, Tick, vars, store
  <2>3. UNCHANGED <<order, entry, told, handler, rpki, queue>>
    BY <2>2 DEF Request
  <2>4. receiver'.update = u => receiver'.result \in {"DONOTUSE", "UNDEFINED"}
    <3> HAVE receiver'.update = u
    <3>1. v = u
      BY <2>2 DEF Request
    <3>2. /\ receiver'.result = d
          /\ cached' = [cached EXCEPT ![p] = [result |-> d, direction |-> s, modified |-> 0]]
      BY <1>2, <2>1, <2>2, <3>1 DEF Request
    <3>3. cached'[p].result = d
      BY <1>1, <3>2 DEF Typed, TypeOK
    <3> QED
      BY <3>2, <3>3 DEF Nothing
  <2> QED
    BY <2>1, <2>3, <2>4 DEF HasNoResult, Nothing
<1>3. CASE cached[p] # None
  <2>1. cached[p].result = "DONOTUSE" /\ HasNoResult(u)
    BY <1>1, <1>3, PathsGrow DEF PathGrows, NoResultYet
  <2>2. ~(FinishCommand /\ u = handler.update) /\ ~(EndOfDataModifiesUpdate /\ u = rpki.update)
    BY <2>1 DEF FinishCommand, EndOfDataModifiesUpdate, HasNoResult
  <2>3. ~(CommandModifiesPath /\ p = PathOf[handler.update]) /\ ~(EndOfDataModifiesPath /\ p = PathOf[rpki.update])
    <3>1. CASE CommandModifiesPath /\ p = PathOf[handler.update]
      BY <3>1, Constants, CommandModifiesTyped, PathModified DEF Typed
    <3>2. CASE EndOfDataModifiesPath /\ p = PathOf[rpki.update]
      <4>1. rpki.new \in PathResult
        BY <3>2, EndOfDataModifiesPathTyped DEF Changing
      <4> QED
        BY <3>2, <4>1, Constants, EndOfDataModifiesPathTyped, PathModified DEF Typed
    <3> QED
      BY <3>1, <3>2
  <2>4. u \in Range(order') => entry'[u].result = "UNDEFINED"
    <3>1. CASE u \in Range(order)
      <4>1. CASE CopyPathResult /\ u = receiver.update
        <5>1. receiver.result \in {"UNDEFINED", "DONOTUSE"} /\ receiver.result \in ToldResult
          BY <2>1, <4>1, ReceiverHolds DEF HasNoResult, CopyPathResult, Typed, Received
        <5> QED
          BY <2>1, <3>1, <4>1, <5>1, ResultSet DEF CopyPathResult, HasNoResult, Typed
      <4> QED
        BY <2>1, <2>2, <3>1, <4>1, Writers DEF HasNoResult
    <3>2. CASE u \notin Range(order)
      <4> HAVE u \in Range(order')
      <4>1. storeUpdate
        BY <3>2, EntriesGrow
      <4>2. receiver.update \in Update /\ order' = Append(order, receiver.update)
        BY <4>1, ReceiverHolds DEF storeUpdate, Typed
      <4>3. u = receiver.update
        BY <3>2, <4>2, Appended DEF Typed, TypeOK
      <4> QED
        BY <4>1, <4>3 DEF storeUpdate, Typed, TypeOK
    <3> QED
      BY <3>1, <3>2
  <2>5. told'[u] \in Nothing
    <3>1. ~(TellChange /\ u = rpki.update)
      BY <2>1 DEF TellChange, HasNoResult
    <3> QED
      BY <2>1, <2>2, <3>1, Tellers DEF HasNoResult, Nothing
  <2>6. receiver'.update = u => receiver'.result \in {"DONOTUSE", "UNDEFINED"}
    <3>1. CASE UNCHANGED receiver
      BY <2>1, <3>1 DEF HasNoResult
    <3>2. CASE \E v \in Update, d \in Default, s \in Stream, a \in BOOLEAN : Request(v, d, s, a)
      <4> HAVE receiver'.update = u
      <4>1. PICK d \in Default, s \in Stream, a \in BOOLEAN : Request(u, d, s, a)
        <5>1. PICK v \in Update, d \in Default, s \in Stream, a \in BOOLEAN : Request(v, d, s, a)
          BY <3>2
        <5>2. receiver'.update = v
          BY <5>1 DEF Request
        <5> QED
          BY <5>1, <5>2
      <4>2. CASE u \in Range(order)
        BY <2>1, <4>1, <4>2 DEF Request, HasNoResult, Nothing
      <4>3. CASE u \notin Range(order)
        BY <1>3, <2>1, <4>1, <4>3 DEF Request, Nothing
      <4> QED
        BY <4>2, <4>3
    <3>3. CASE storeUpdate \/ CopyPathResult
      <4>1. receiver \in Received
        BY <3>3, ReceiverHolds DEF storeUpdate, CopyPathResult, Typed
      <4>2. receiver'.update = receiver.update /\ receiver'.result = receiver.result
        BY <3>3, <4>1 DEF storeUpdate, CopyPathResult, Received
      <4> QED
        BY <2>1, <4>2 DEF HasNoResult
    <3>4. CASE Answer
      BY <1>1, <3>4 DEF Answer, NoRequest
    <3> QED
      BY <3>1, <3>2, <3>3, <3>4, NextCases
         DEF BeginCommand, ValidateCommand, CommandModifiesPath, FinishCommand, Announce, Withdraw, ReceiveEndOfData,
             VisitUpdate, EndOfDataModifiesPath, EndOfDataModifiesUpdate, Dequeue, TellChange, Tick, vars
  <2>7. /\ handler'.update = u => handler'.at \in {"copy", "path"}
        /\ handler'.at = "path" /\ handler'.update = u => handler'.result = "DONOTUSE"
    <3>1. CASE UNCHANGED handler
      BY <2>1, <3>1 DEF HasNoResult
    <3>2. CASE BeginCommand
      <4>1. Head(commands) = u => entry[u].result = "UNDEFINED"
        BY <2>1, <3>2, BeginTyped DEF HasNoResult
      <4> QED
        BY <1>1, <3>2, <4>1 DEF BeginCommand, NoCommand
    <3>3. CASE ValidateCommand
      <4>1. handler'.new \in PathResult /\ handler'.at \in {"path", "update"}
        BY <3>3, ValidateTyped DEF TakenValidated
      <4> QED
        BY <2>1, <3>3, <4>1, Constants, ValidateTyped DEF Modified
    <3>4. CASE CommandModifiesPath
      <4>1. handler'.update = handler.update
        BY <3>4, CommandModifiesTyped
      <4> QED
        BY <2>3, <3>4, <4>1
    <3>5. CASE FinishCommand
      BY <1>1, <3>5, FinishTyped DEF NoCommand
    <3> QED
      BY <3>1, <3>2, <3>3, <3>4, <3>5, NextCases
         DEF Request, storeUpdate, CopyPathResult, Answer, Announce, Withdraw, ReceiveEndOfData, VisitUpdate,
             EndOfDataModifiesPath, EndOfDataModifiesUpdate, Dequeue, TellChange, Tick, vars
  <2>8. rpki'.update = u => rpki'.at \in {"visit", "path"}
    <3> HAVE rpki'.update = u
    <3>1. CASE UNCHANGED rpki
      BY <2>1, <3>1 DEF HasNoResult
    <3>2. ASSUME NEW n \in Nat, NEW eod \in 1 .. MaxTime, rpki' = Visit(n, eod) PROVE rpki'.at = "visit"
      <4>1. rpki' # Draining
        BY <1>1 DEF Draining
      <4>2. order \in Seq(Update)
        BY DEF Typed, TypeOK
      <4> QED
        BY <3>2, <4>1, <4>2, VisitTyped DEF Visiting
    <3>3. CASE ReceiveEndOfData
      BY <3>2, <3>3, ReceiveEndOfDataTyped
    <3>4. Validating => rpki.next \in Nat /\ rpki.eod \in 1 .. MaxTime
      BY RPKIHolds DEF Typed
    <3>5. CASE VisitUpdate
      <4>1. Validating
        BY <3>5 DEF VisitUpdate, Validating
      <4>2. CASE rpki' = Continue
        BY <3>2, <3>4, <4>1, <4>2 DEF Continue
      <4>3. CASE rpki' # Continue
        <5>1. rpki'.update = rpki.update
          BY <3>5, <4>3, VisitUpdateTyped DEF Changed
        <5>2. \E r : Changed(rpki', "path", r, PathOf[rpki.update])
          BY <2>1, <3>5, <4>3, <5>1, VisitUpdateTyped
        <5> QED
          BY <5>2 DEF Changed
      <4> QED
        BY <4>2, <4>3
    <3>6. CASE EndOfDataModifiesPath
      <4>1. Validating /\ rpki.update # u
        BY <2>3, <3>6 DEF EndOfDataModifiesPath, Validating
      <4> QED
        BY <3>2, <3>4, <3>6, <4>1, EndOfDataModifiesPathTyped DEF Continue
    <3>7. CASE EndOfDataModifiesUpdate
      <4>1. Validating
        BY <3>7 DEF EndOfDataModifiesUpdate, Validating
      <4> QED
        BY <3>2, <3>4, <3>7, <4>1, EndOfDataModifiesUpdateTyped DEF Continue
    <3>8. CASE Dequeue \/ TellChange
      BY <1>1, <2>1, <3>8, DequeueTyped, TellTyped DEF NoData, Draining, HasNoResult
    <3> QED
      BY <3>1, <3>3, <3>5, <3>6, <3>7, <3>8, RPKIMoves
  <2>9. u \notin Range(queue')
    BY <2>1, <2>2, QueueMoves DEF HasNoResult
  <2> QED
    BY <2>4, <2>5, <2>6, <2>7, <2>8, <2>9 DEF HasNoResult
<1> QED
  BY <1>2, <1>3

LEMMA NothingToStoreStep ==
  ASSUME Typed, Separate, FirstRequest, NoResultYet, NothingToStore, [Next]_vars
  PROVE  NothingToStore'
<1> DEFINE Rest(u, e, t, c) == e[u].result = "UNDEFINED" /\ (t[u] \in Nothing \/ u \in Range(c))
<1> SUFFICES ASSUME handler'.at \in {"path", "update"}, handler'.result = "DONOTUSE", handler'.update \notin mixed'
             PROVE  Rest(handler'.update, entry', told', commands')
  BY DEF NothingToStore
<1>1. CASE UNCHANGED handler
  <2> DEFINE u == handler.update
  <2>1. u \in Update /\ u \in Range(order) /\ u \notin mixed
    BY <1>1, HandlerHolds, MixedGrows DEF Typed, HandlerTyped
  <2>2. Rest(u, entry, told, commands)
    BY <1>1, <2>1 DEF NothingToStore
  <2>3. rpki.at = "idle" /\ ~(CopyPathResult /\ u = receiver.update)
    BY <2>1, Alone DEF FirstRequest, CopyPathResult
  <2>4. ~FinishCommand /\ ~BeginCommand
    <3>1. ASSUME FinishCommand PROVE FALSE
      BY <1>1, <3>1, FinishTyped DEF NoCommand
    <3> QED
      BY <1>1, <3>1 DEF BeginCommand
  <2>5. entry'[u] = entry[u]
    BY <2>1, <2>3, <2>4, Writers DEF EndOfDataModifiesUpdate
  <2>6. told'[u] = told[u] \/ u \in Range(commands')
    BY <2>1, <2>3, <2>4, Tellers DEF TellChange
  <2>7. u \in Range(commands) => u \in Range(commands')
    BY <2>4, CommandsMove
  <2> QED
    BY <1>1, <2>2, <2>5, <2>6, <2>7
<1>2. CASE BeginCommand
  <2> DEFINE u == Head(commands)
  <2>1. u \in Update /\ u \in Range(order)
    BY <1>2, BeginTyped
  <2>2. entry[u].result \in PathResult
    BY <2>1 DEF Typed, TypeOK, Entry
  <2>3. handler' = [at |-> "update", update |-> u, result |-> entry[u].result]
    BY <1>2 DEF BeginCommand, NoCommand
  <2> QED
    BY <2>2, <2>3, Constants
<1>3. CASE ValidateCommand
  <2> DEFINE u == handler.update
  <2>1. /\ u \in Update /\ u \in Range(order) /\ handler'.update = u /\ handler'.new \in PathResult
        /\ handler'.result = Modified(cached[PathOf[u]].result, handler'.new)
    BY <1>3, HandlerHolds, ValidateTyped DEF ValidateCommand, Typed, HandlerTyped, TakenValidated
  <2>2. cached[PathOf[u]].result = "DONOTUSE" /\ cached[PathOf[u]] # None
    BY <2>1, Constants DEF Modified, Typed, TypeOK
  <2>3. Rest(u, entry, told, commands)
    BY <2>1, <2>2 DEF NoResultYet, HasNoResult
  <2>4. entry' = entry /\ told' = told /\ commands' = commands
    BY <1>3 DEF ValidateCommand, store
  <2> QED
    BY <2>1, <2>3, <2>4
<1>4. CASE CommandModifiesPath
  <2>1. /\ handler'.update = handler.update /\ handler'.result = handler.result /\ handler.at = "path"
        /\ entry' = entry /\ told' = told /\ commands' = commands
    BY <1>4, CommandModifiesTyped DEF CommandModifiesPath
  <2>2. handler.update \notin mixed
    BY <2>1, MixedGrows
  <2> QED
    BY <2>1, <2>2 DEF NothingToStore
<1>5. CASE FinishCommand
  BY <1>5, FinishTyped DEF NoCommand
<1> QED
  BY <1>1, <1>2, <1>3, <1>4, <1>5, NextCases
     DEF Request, storeUpdate, CopyPathResult, Answer, Announce, Withdraw, ReceiveEndOfData, VisitUpdate,
         EndOfDataModifiesPath, EndOfDataModifiesUpdate, Dequeue, TellChange, Tick, vars

LEMMA WillBeToldStep ==
  ASSUME Typed, Separate, FirstRequest, RPKICarries, NothingToStore, WillBeTold, [Next]_vars
  PROVE  WillBeTold'
<1> SUFFICES ASSUME NEW u \in Settled' PROVE IsTold(u)'
  BY DEF WillBeTold
<1>1. u \in Update /\ u \notin mixed
  BY SettledBefore
<1>2. CASE u \notin Settled
  <2>1. storeUpdate /\ u = receiver.update
    BY <1>2, SettledBefore
  <2>2. told'[u] = None
    BY <1>1, <2>1 DEF storeUpdate, Typed, ReceiverTyped, UntoldUntilStored
  <2> QED
    BY <2>2 DEF IsTold
<1>3. CASE u \in Settled
  <2>1. u \in Range(order) /\ entry[u] \in Entry /\ entry[u].default # "INVALID"
    BY <1>3, SettledStored
  <2>2. IsTold(u)
    BY <1>3 DEF WillBeTold
  <2>3. CASE Answer /\ told'[u] # told[u]
    <3>1. u \in Range(commands')
      BY <1>1, <2>3, Tellers DEF Answer, FinishCommand, TellChange, NoRequest
    <3> QED
      BY <3>1 DEF IsTold
  <2>4. CASE CopyPathResult /\ u = receiver.update
    <3>1. told[u] = None /\ told' = told
      BY <1>1, <2>4 DEF CopyPathResult, FirstRequest
    <3> QED
      BY <3>1 DEF IsTold
  <2>5. CASE BeginCommand /\ u = Head(commands)
    <3>1. handler'.update = u
      BY <2>1, <2>5 DEF BeginCommand
    <3> QED
      BY <3>1 DEF IsTold
  <2>6. CASE FinishCommand /\ u = handler.update
    <3>1. SetResult(u, handler.result) /\ handler.result \in ToldResult /\ commands' = commands /\ handler.at = "update"
      BY <2>6, FinishTyped DEF FinishCommand
    <3>2. CASE handler.result = "DONOTUSE"
      <4>1. entry' = entry /\ told' = told
        BY <2>6, <3>1, <3>2 DEF FinishCommand, SetResult
      <4>2. entry[u].result = "UNDEFINED" /\ (told[u] \in Nothing \/ u \in Range(commands))
        BY <1>1, <2>6, <3>1, <3>2 DEF NothingToStore
      <4> QED
        BY <3>1, <4>1, <4>2 DEF IsTold, Nothing
    <3>3. CASE handler.result # "DONOTUSE"
      <4>1. told'[u] = handler.result
        BY <1>1, <2>6, <3>3 DEF FinishCommand, Typed, TypeOK
      <4>2. entry'[u].result = handler.result
        BY <1>1, <2>1, <3>1, <3>3, ResultSet DEF Typed
      <4> QED
        BY <4>1, <4>2 DEF IsTold
    <3> QED
      BY <3>2, <3>3
  <2>7. CASE EndOfDataModifiesUpdate /\ u = rpki.update
    <3>1. u \in Range(queue')
      BY <2>7, EndOfDataModifiesUpdateTyped
    <3> QED
      BY <3>1 DEF IsTold
  <2>8. CASE Dequeue /\ rpki'.at = "tell" /\ rpki'.update = u
    BY <2>8 DEF IsTold
  <2>9. CASE TellChange /\ u = rpki.update
    <3>1. told'[u] = rpki.result /\ entry' = entry
      BY <1>1, <2>9 DEF TellChange, store, Typed, TypeOK
    <3>2. rpki.result = entry[u].result
      BY <1>1, <2>9 DEF RPKICarries, TellChange
    <3> QED
      BY <3>1, <3>2 DEF IsTold
  <2>10. CASE /\ told'[u] = told[u]
              /\ ~(CopyPathResult /\ u = receiver.update)
              /\ ~(BeginCommand /\ u = Head(commands))
              /\ ~(FinishCommand /\ u = handler.update)
              /\ ~(EndOfDataModifiesUpdate /\ u = rpki.update)
              /\ ~(Dequeue /\ rpki'.at = "tell" /\ rpki'.update = u)
              /\ ~(TellChange /\ u = rpki.update)
    <3>1. entry'[u] = entry[u]
      BY <1>1, <2>1, <2>10, Writers
    <3>2. u \in Range(commands) \cup Range(queue) => u \in Range(commands') \cup Range(queue')
      BY <2>10, CommandsMove, QueueMoves
    <3>3. handler.update = u => handler'.update = u
      <4> HAVE handler.update = u
      <4>1. ~BeginCommand
        <5>1. handler.at = "idle" => handler.update # u
          BY <1>1, HandlerHolds, Constants DEF Typed, NoCommand
        <5> QED
          BY <5>1 DEF BeginCommand
      <4>2. ~FinishCommand
        BY <2>10
      <4> QED
        BY <4>1, <4>2, NextCases, ValidateTyped, CommandModifiesTyped
           DEF Request, storeUpdate, CopyPathResult, Answer, Announce, Withdraw, ReceiveEndOfData, VisitUpdate,
               EndOfDataModifiesPath, EndOfDataModifiesUpdate, Dequeue, TellChange, Tick, vars
    <3>4. rpki.at = "tell" /\ rpki.update = u => UNCHANGED rpki
      BY <2>10, RPKIMoves
         DEF ReceiveEndOfData, VisitUpdate, EndOfDataModifiesPath, EndOfDataModifiesUpdate, Dequeue
    <3> QED
      BY <2>2, <2>10, <3>1, <3>2, <3>3, <3>4 DEF IsTold
  <2>11. told'[u] = told[u] \/ Answer \/ (FinishCommand /\ u = handler.update) \/ (TellChange /\ u = rpki.update)
    BY <1>1, Tellers
  <2> QED
    BY <2>3, <2>4, <2>5, <2>6, <2>7, <2>8, <2>9, <2>10, <2>11
<1> QED
  BY <1>2, <1>3

TInv ==
  /\ Typed /\ Separate /\ FirstRequest /\ NoResultYet /\ NothingToStore
  /\ RPKICarries /\ WillBeTold

LEMMA ToldInit == Init => TInv
<1> SUFFICES ASSUME Init PROVE TInv
  OBVIOUS
<1>1. Typed
  BY TypedInit
<1>2. Settled = {}
  BY DEF Init, Settled, Range
<1>3. rpki.at = "idle" /\ receiver.at = "idle" /\ handler.at = "idle"
  BY DEF Init, NoRequest, NoCommand, NoData
<1>4. \A u \in Update : cached[PathOf[u]] = None
  BY Constants DEF Init
<1> QED
  BY <1>1, <1>2, <1>3, <1>4
     DEF TInv, Separate, FirstRequest, NoResultYet, NothingToStore, RPKICarries, WillBeTold

\* Once nothing is in flight the router was last sent the result that is stored
\* for an update, by whichever thread stored it, as far as no two threads had
\* the update at a time.
THEOREM StoredIsTold == Spec => []ToldStored
<1>1. TInv => ToldStored
  <2> SUFFICES ASSUME TInv, Quiet, NEW u \in Settled
               PROVE  told[u] \in {None, "DONOTUSE", entry[u].result}
    BY DEF ToldStored
  <2>1. IsTold(u) /\ u \in Update /\ u # None
    BY SettledStored, Constants DEF TInv, WillBeTold
  <2>2. queue = <<>> /\ commands = <<>> /\ handler = NoCommand /\ rpki.at = "idle"
    BY HandlerHolds DEF TInv, Quiet, Typed, RPKITyped
  <2>3. u \notin Range(commands) /\ u \notin Range(queue) /\ handler.update # u
    BY <2>1, <2>2 DEF Range, NoCommand
  <2> QED
    BY <2>1, <2>2, <2>3 DEF IsTold
<1>2. TInv /\ [Next]_vars => TInv'
  BY TypedStep, SeparateStep, FirstRequestStep, NoResultYetStep, NothingToStoreStep, RPKICarriesStep, WillBeToldStep
     DEF TInv
<1> QED
  BY <1>1, <1>2, ToldInit, PTL DEF Spec

=============================================================================
