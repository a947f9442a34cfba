------------------------- MODULE PrefixCacheProofs -------------------------
(***************************************************************************)
(* Proofs about the prefix cache, for every tree, every set of ROAs and    *)
(* updates and every number of identical announcements.                    *)
(***************************************************************************)
EXTENDS PrefixCache, FiniteSetTheorems, WellFoundedInduction, TLAPS

\* An update enters the cache together with the PC_Prefix of its prefix, and
\* that instance is not released while it has updates.
UpdatesHaveNode ==
  \A u \in Update : list[u] # "none" => tree[UpdPrefix[u]] = "data"

\* The inductive invariant.
IInv ==
  /\ TypeOK
  /\ UpdatesHaveNode
  /\ UnmatchedIsOther
  /\ ResultFollowsList
  /\ PendingIsQueued

-----------------------------------------------------------------------------
(* Lemmas about the helpers.                                               *)

\* Unsigned arithmetic stays in range.
LEMMA Modulus == \A a \in Int : a % Mod \in 0 .. Mod - 1
  BY RoaAssumption

\* roa_match of a validated update, a sum over finitely many ROAs, is a number.
LEMMA SumType == ASSUME NEW R \in SUBSET Roa
                 PROVE  SumRoaCount(R) \in Nat
<1> DEFINE I == {i \in R \X (1 .. MaxCount) : i[2] <= roa_count[i[1]]}
<1>1. IsFiniteSet(R)
  BY FS_Subset, RoaAssumption
<1>2. IsFiniteSet(1 .. MaxCount)
  BY FS_Interval, RoaAssumption
<1>3. IsFiniteSet(R \X (1 .. MaxCount))
  BY <1>1, <1>2, FS_Product
<1>4. IsFiniteSet(I)
  BY <1>3, FS_Subset
<1> QED
  BY <1>4, FS_CardinalityType DEF SumRoaCount

\* A prefix with less specific prefixes in the cache has a most specific one
\* among them: getParent is defined.
LEMMA ParentInTree == ASSUME NEW p \in Prefix, DataAnc(p) # {}
                      PROVE  /\ getParent(p) \in DataAnc(p)
                             /\ \A z \in DataAnc(p) : BitLen[z] <= BitLen[getParent(p)]
<1> DEFINE D == {BitLen[p] - BitLen[q] : q \in DataAnc(p)}
<1>1. \A q \in DataAnc(p) : BitLen[q] \in Nat /\ BitLen[p] \in Nat /\ BitLen[q] < BitLen[p]
  BY TreeAssumption DEF DataAnc
<1>2. D \subseteq Nat /\ D # {}
  BY <1>1
<1>3. PICK m \in D : \A n \in D : ~ (<<n, m>> \in OpToRel(<, Nat))
  <2> HIDE DEF D
  <2> QED
    BY <1>2, NatLessThanWellFounded, WFMin
<1>4. ASSUME NEW n \in D PROVE m <= n
  <2> HIDE DEF D
  <2>1. n \in Nat /\ m \in Nat
    BY <1>2
  <2>2. n < m => <<n, m>> \in OpToRel(<, Nat)
    BY <2>1 DEF OpToRel
  <2>3. ~ (n < m)
    BY <1>3, <2>2, Zenon
  <2> QED
    BY <2>1, <2>3
<1>5. PICK q \in DataAnc(p) : m = BitLen[p] - BitLen[q]
  OBVIOUS
<1>6. ASSUME NEW z \in DataAnc(p) PROVE BitLen[z] <= BitLen[q]
  <2>1. BitLen[p] - BitLen[z] \in D
    OBVIOUS
  <2>2. m <= BitLen[p] - BitLen[z]
    BY <1>4, <2>1
  <2> QED
    BY <1>1, <1>5, <2>2
<1> QED
  BY <1>5, <1>6 DEF getParent

LEMMA ParentStateType == ASSUME TypeOK, NEW p \in Prefix
                         PROVE  ParentState(p) \in {"NOTFOUND", "INVALID"}
<1>1. DataAnc(p) # {} => getParent(p) \in Prefix
  BY ParentInTree, TreeAssumption DEF DataAnc
<1> QED
  BY <1>1 DEF ParentState, TypeOK

-----------------------------------------------------------------------------
(* The inductive invariant holds initially.                                *)

LEMMA InitIInv == Init => IInv
<1> SUFFICES ASSUME Init PROVE IInv
  OBVIOUS
<1>1. TypeOK
  BY RoaAssumption DEF Init, TypeOK
<1> QED
  BY <1>1 DEF Init, IInv, UpdatesHaveNode, UnmatchedIsOther, ResultFollowsList,
              PendingIsQueued

-----------------------------------------------------------------------------
(* Requests.  What the three successful ones share: the update was in no   *)
(* list, it enters one of its prefix, and no other update is concerned.    *)

LEMMA EnterListStep ==
  ASSUME IInv, NEW u \in Update, NEW R \in SUBSET Roa,
         list[u] = "none", EnterList(u, R),
         tree' \in [Prefix -> {"absent", "empty", "data"}],
         roa_coverage' \in [Prefix -> 0 .. Mod - 1],
         state_of_other' \in [Prefix -> {"NOTFOUND", "INVALID"}],
         \A p \in Prefix : tree[p] = "data" => tree'[p] = "data",
         tree'[UpdPrefix[u]] = "data",
         \A p \in Prefix : tree[p] = "data" => state_of_other'[p] = state_of_other[p]
  PROVE  IInv'
<1> DEFINE n == SumRoaCount(R)
<1> USE UpdateAssumption
<1>0. n \in Nat
  BY SumType
<1> HIDE DEF n
<1>1. /\ roa_match' = [roa_match EXCEPT ![u] = n]
      /\ list' = [list EXCEPT ![u] = IF n = 0 THEN "other" ELSE "valid"]
      /\ result' = [result EXCEPT ![u] =
           IF n # 0 THEN "VALID" ELSE state_of_other'[UpdPrefix[u]]]
      /\ told' = [told EXCEPT ![u] =
           IF n # 0 THEN "VALID" ELSE state_of_other'[UpdPrefix[u]]]
      /\ update_count' =
           [r \in Roa |-> IF r \in R THEN update_count[r] + 1 ELSE update_count[r]]
      /\ UNCHANGED <<roa_count, queue, up>>
  BY DEF EnterList, n
<1>2. TypeOK'
  <2>1. ahead' \subseteq Update \X Update
    BY DEF EnterList, InList, IInv, TypeOK
  <2>2. update_count' \in [Roa -> Nat]
    BY <1>1 DEF IInv, TypeOK
  <2>3. state_of_other'[UpdPrefix[u]] \in {"NOTFOUND", "INVALID"}
    OBVIOUS
  <2> QED
    BY <1>0, <1>1, <2>1, <2>2, <2>3 DEF IInv, TypeOK
<1>3. UpdatesHaveNode'
  BY <1>1 DEF IInv, TypeOK, UpdatesHaveNode
<1>4. UnmatchedIsOther'
  BY <1>0, <1>1 DEF IInv, TypeOK, UnmatchedIsOther
<1>5. ResultFollowsList'
  BY <1>1 DEF IInv, TypeOK, ResultFollowsList, UpdatesHaveNode
<1>6. PendingIsQueued'
  BY <1>1 DEF IInv, TypeOK, PendingIsQueued
<1> QED
  BY <1>2, <1>3, <1>4, <1>5, <1>6 DEF IInv

LEMMA RequestStep ==
  ASSUME IInv, NEW u \in Update,
         \/ RequestNewPrefix(u)
         \/ RequestKnownPrefix(u)
         \/ RequestUncovered(u)
         \/ RequestEmptyNode(u)
  PROVE  IInv'
<1> USE UpdateAssumption
<1>1. CASE RequestNewPrefix(u)
  <2> DEFINE p == UpdPrefix[u]
             walk == IF ParentState(p) = "NOTFOUND" THEN {}
                     ELSE Above(p, {q \in Prefix : state_of_other[q] = "INVALID"})
             R == {r \in CoveringRoas(walk, p) : r.as = UpdAS[u]}
  <2>1. R \in SUBSET Roa
    BY DEF CoveringRoas
  <2>2. ParentState(p) \in {"NOTFOUND", "INVALID"}
    BY ParentStateType DEF IInv
  <2>3. Cardinality(CoveringRoas(walk, p)) \in Nat
    BY FS_Subset, FS_CardinalityType, RoaAssumption DEF CoveringRoas
  <2>4. Cardinality(CoveringRoas(walk, p)) % Mod \in 0 .. Mod - 1
    BY <2>3, Modulus
  <2>5. /\ EnterList(u, R)
        /\ list[u] = "none"
        /\ tree[p] = "absent"
        /\ tree' = [tree EXCEPT ![p] = "data"]
        /\ state_of_other' = [state_of_other EXCEPT ![p] = ParentState(p)]
        /\ roa_coverage' = [roa_coverage EXCEPT
             ![p] = Cardinality(CoveringRoas(walk, p)) % Mod]
    BY <1>1 DEF RequestNewPrefix, Requestable
  <2> HIDE DEF R, walk
  <2>6. roa_coverage' \in [Prefix -> 0 .. Mod - 1]
    BY <2>4, <2>5 DEF IInv, TypeOK
  <2> QED
    BY <2>1, <2>2, <2>5, <2>6, EnterListStep DEF IInv, TypeOK
<1>2. CASE RequestKnownPrefix(u)
  <2> DEFINE p == UpdPrefix[u]
             walk == {p} \cup Above(p, {q \in Prefix : roa_coverage[q] > 0})
             R == {r \in CoveringRoas(walk, p) : r.as = UpdAS[u]}
  <2>1. R \in SUBSET Roa
    BY DEF CoveringRoas
  <2>2. EnterList(u, R) /\ list[u] = "none" /\ tree[p] = "data"
    BY <1>2 DEF RequestKnownPrefix, Requestable
  <2>3. UNCHANGED <<tree, state_of_other, roa_coverage>>
    BY <1>2 DEF RequestKnownPrefix
  <2> HIDE DEF R
  <2> QED
    BY <2>1, <2>2, <2>3, EnterListStep DEF IInv, TypeOK
<1>3. CASE RequestUncovered(u)
  BY <1>3, EnterListStep DEF RequestUncovered, Requestable, IInv, TypeOK
<1>4. CASE RequestEmptyNode(u)
  BY <1>4 DEF RequestEmptyNode, IInv, TypeOK, UpdatesHaveNode, UnmatchedIsOther,
              ResultFollowsList, PendingIsQueued
<1> QED
  BY <1>1, <1>2, <1>3, <1>4

-----------------------------------------------------------------------------
(* ROA announcements.                                                      *)

LEMMA AddStep ==
  ASSUME IInv, NEW r \in Roa, AddROAwl(r)
  PROVE  IInv'
<1> USE UpdateAssumption
<1> DEFINE p        == r.prefix
           coverage == [roa_coverage EXCEPT ![p] = PrefixForRoa(p).coverage]
           state    == [state_of_other EXCEPT ![p] = PrefixForRoa(p).state]
           visited  == VisitedByAdd(r, state)
           covered  == {q \in visited : Covers(r, q)}
           newly    == {q \in visited : state[q] = "NOTFOUND"}
           matched  == OfAS(InList("valid", covered), r.as)
           moved    == OfAS(InList("other", covered), r.as)
           demoted  == InList("other", newly) \ moved
<1>1. p \in Prefix
  BY RoaAssumption
<1>2. /\ PrefixForRoa(p).state \in {"NOTFOUND", "INVALID"}
      /\ PrefixForRoa(p).coverage \in 0 .. Mod - 1
      /\ tree[p] = "data" => PrefixForRoa(p).state = state_of_other[p]
  <2> DEFINE R == CoveringRoas(Above(p, {q \in Prefix : roa_coverage[q] > 0}), p)
  <2>1. SumRoaCount(R) \in Nat
    <3>1. R \in SUBSET Roa
      BY DEF CoveringRoas
    <3> QED
      BY <3>1, SumType
  <2>2. SumRoaCount(R) % Mod \in 0 .. Mod - 1 /\ 0 \in 0 .. Mod - 1
    BY <2>1, Modulus, RoaAssumption
  <2>3. ParentState(p) \in {"NOTFOUND", "INVALID"}
    BY <1>1, ParentStateType DEF IInv
  <2> HIDE DEF R
  <2>4. roa_coverage[p] \in 0 .. Mod - 1 /\ state_of_other[p] \in {"NOTFOUND", "INVALID"}
    BY <1>1 DEF IInv, TypeOK
  <2> QED
    BY <2>2, <2>3, <2>4 DEF PrefixForRoa, R
<1>3. /\ coverage \in [Prefix -> 0 .. Mod - 1]
      /\ state \in [Prefix -> {"NOTFOUND", "INVALID"}]
      /\ \A q \in Prefix : tree[q] = "data" => state[q] = state_of_other[q]
  BY <1>1, <1>2 DEF IInv, TypeOK
<1>4. /\ matched \subseteq Update /\ moved \subseteq Update /\ demoted \subseteq Update
      /\ \A u \in matched : list[u] = "valid"
      /\ \A u \in moved : list[u] = "other"
      /\ \A u \in Update : u \in demoted <=>
           list[u] = "other" /\ UpdPrefix[u] \in newly /\ u \notin moved
  BY DEF OfAS, InList
<1>5. /\ tree' = [tree EXCEPT ![p] = "data"]
      /\ roa_count[r] < MaxCount
      /\ roa_count' = [roa_count EXCEPT ![r] = @ + 1]
      /\ roa_coverage' = [q \in Prefix |->
           IF q \in covered THEN (coverage[q] + 1) % Mod ELSE coverage[q]]
      /\ state_of_other' = [q \in Prefix |->
           IF q \in newly THEN "INVALID" ELSE state[q]]
      /\ roa_match' = [u \in Update |->
           IF u \in matched \cup moved THEN roa_match[u] + 1 ELSE roa_match[u]]
      /\ update_count' =
           [update_count EXCEPT ![r] = @ + Cardinality(matched \cup moved)]
      /\ list' = [u \in Update |-> IF u \in moved THEN "valid" ELSE list[u]]
      /\ ahead' = MovedToEnd(moved, "valid")
      /\ result' = [u \in Update |->
           IF u \in moved \cup demoted
           THEN IF u \in moved THEN "VALID" ELSE "INVALID" ELSE result[u]]
      /\ queue' = queue \cup moved \cup demoted
      /\ UNCHANGED <<told, up>>
  BY <1>4 DEF AddROAwl, NotifySuppressed
<1> HIDE DEF coverage, state, visited, covered, newly, matched, moved, demoted
<1>6. TypeOK'
  <2>1. roa_coverage' \in [Prefix -> 0 .. Mod - 1]
    <3>1. ASSUME NEW q \in Prefix PROVE (coverage[q] + 1) % Mod \in 0 .. Mod - 1
      BY <1>3, Modulus, RoaAssumption
    <3> QED
      BY <1>3, <1>5, <3>1
  <2>2. state_of_other' \in [Prefix -> {"NOTFOUND", "INVALID"}]
    BY <1>3, <1>5
  <2>3. update_count' \in [Roa -> Nat]
    <3>1. Cardinality(matched \cup moved) \in Nat
      BY <1>4, FS_Subset, FS_CardinalityType
    <3> QED
      BY <1>5, <3>1 DEF IInv, TypeOK
  <2>4. roa_count' \in [Roa -> 0 .. MaxCount]
    BY <1>5, RoaAssumption DEF IInv, TypeOK
  <2>5. ahead' \subseteq Update \X Update
    BY <1>4, <1>5 DEF MovedToEnd, InList, IInv, TypeOK
  <2>6. roa_match' \in [Update -> Nat]
    BY <1>5 DEF IInv, TypeOK
  <2>7. tree' \in [Prefix -> {"absent", "empty", "data"}]
    BY <1>5 DEF IInv, TypeOK
  <2>8. /\ list' \in [Update -> {"none", "other", "valid", "lost"}]
        /\ result' \in [Update -> {"UNDEFINED", "NOTFOUND", "INVALID", "VALID"}]
        /\ queue' \subseteq Update
        /\ told' \in [Update -> {"UNDEFINED", "NOTFOUND", "INVALID", "VALID"}]
        /\ up' \in BOOLEAN
    BY <1>4, <1>5 DEF IInv, TypeOK
  <2> QED
    BY <2>1, <2>2, <2>3, <2>4, <2>5, <2>6, <2>7, <2>8 DEF TypeOK
<1>7. UpdatesHaveNode'
  BY <1>4, <1>5 DEF IInv, TypeOK, UpdatesHaveNode
<1>8. UnmatchedIsOther'
  BY <1>4, <1>5 DEF IInv, TypeOK, UnmatchedIsOther
<1>9. ResultFollowsList'
  BY <1>3, <1>4, <1>5 DEF IInv, TypeOK, UpdatesHaveNode, ResultFollowsList
<1>10. PendingIsQueued'
  BY <1>5 DEF IInv, PendingIsQueued
<1> QED
  BY <1>6, <1>7, <1>8, <1>9, <1>10 DEF IInv

-----------------------------------------------------------------------------
(* ROA withdrawals.                                                        *)

LEMMA DelStep ==
  ASSUME IInv, NEW r \in Roa, DelROAwl(r)
  PROVE  IInv'
<1> USE UpdateAssumption
<1> DEFINE p        == r.prefix
           lowered  == [q \in Prefix |->
                          IF Covers(r, q) THEN (roa_coverage[q] + Mod - 1) % Mod
                          ELSE roa_coverage[q]]
           visited  == VisitedByDel(r, lowered)
           cleared  == {q \in visited : Clears(r, lowered, q)}
           covered  == {q \in visited : Covers(r, q)}
           promoted == InList("other", cleared)
           matching == OfAS(InList("valid", covered), r.as)
<1>1. PICK S \in SUBSET matching :
        LET moved == ToOther(S)
            gone  == Unlinked(r, S, moved)
        IN /\ roa_match' = [u \in Update |->
                IF u \in S THEN roa_match[u] - 1 ELSE roa_match[u]]
           /\ list' = [u \in Update |->
                IF u \in moved THEN "other"
                ELSE IF u \in gone THEN "lost" ELSE list[u]]
           /\ ahead' = {e \in MovedToEnd(moved, "other") :
                          e[1] \notin gone /\ e[2] \notin gone}
           /\ NotifySuppressed(moved \cup promoted,
                [u \in Update |->
                   IF UpdPrefix[u] \in cleared THEN "NOTFOUND"
                   ELSE state_of_other[UpdPrefix[u]]])
  BY DEF DelROAwl
<1> DEFINE moved == ToOther(S)
           gone  == Unlinked(r, S, moved)
<1>2. /\ roa_count[r] > 0
      /\ roa_count' = [roa_count EXCEPT ![r] = @ - 1]
      /\ update_count' =
           [update_count EXCEPT ![r] = IF roa_count[r] = 1 THEN 0 ELSE @]
      /\ roa_coverage' = [q \in Prefix |->
           IF q \in covered THEN lowered[q] ELSE roa_coverage[q]]
      /\ state_of_other' = [q \in Prefix |->
           IF q \in cleared THEN "NOTFOUND" ELSE state_of_other[q]]
      /\ tree' = [tree EXCEPT ![p] =
           IF \/ \E s \in Roa : s.prefix = p /\ roa_count'[s] > 0
              \/ \E u \in Update : UpdPrefix[u] = p /\ list[u] # "none"
           THEN "data" ELSE "empty"]
      /\ UNCHANGED up
  BY DEF DelROAwl
<1>3. /\ S \subseteq Update
      /\ \A u \in S : list[u] = "valid"
      /\ \A u \in Update : u \in moved <=> u \in S /\ roa_match[u] = 1
      /\ gone \subseteq S \ moved
      /\ moved \subseteq S
      /\ \A u \in Update : u \in promoted <=>
           list[u] = "other" /\ UpdPrefix[u] \in cleared
      /\ promoted \subseteq Update
  BY DEF OfAS, InList, ToOther, Unlinked
<1>4. /\ result' = [u \in Update |->
           IF u \in moved \cup promoted
           THEN IF UpdPrefix[u] \in cleared THEN "NOTFOUND"
                ELSE state_of_other[UpdPrefix[u]]
           ELSE result[u]]
      /\ queue' = queue \cup moved \cup promoted
      /\ UNCHANGED told
      /\ roa_match' = [u \in Update |->
           IF u \in S THEN roa_match[u] - 1 ELSE roa_match[u]]
      /\ list' = [u \in Update |->
           IF u \in moved THEN "other" ELSE IF u \in gone THEN "lost" ELSE list[u]]
      /\ ahead' \subseteq MovedToEnd(moved, "other")
  BY <1>1, <1>3 DEF NotifySuppressed
<1>5. \A q \in Prefix : lowered[q] \in 0 .. Mod - 1
  <2> SUFFICES ASSUME NEW q \in Prefix PROVE lowered[q] \in 0 .. Mod - 1
    OBVIOUS
  <2>1. roa_coverage[q] \in 0 .. Mod - 1
    BY DEF IInv, TypeOK
  <2>2. (roa_coverage[q] + Mod - 1) % Mod \in 0 .. Mod - 1
    BY <2>1, Modulus, RoaAssumption
  <2> QED
    BY <2>1, <2>2
<1>6. \A u \in S : roa_match[u] \in Nat /\ roa_match[u] # 0
  BY <1>3 DEF IInv, TypeOK, UnmatchedIsOther
<1> HIDE DEF lowered, visited, cleared, covered, promoted, matching, moved, gone
<1>7. TypeOK'
  <2>1. roa_coverage' \in [Prefix -> 0 .. Mod - 1]
    BY <1>2, <1>5 DEF IInv, TypeOK
  <2>2. state_of_other' \in [Prefix -> {"NOTFOUND", "INVALID"}]
    BY <1>2 DEF IInv, TypeOK
  <2>3. roa_count' \in [Roa -> 0 .. MaxCount] /\ update_count' \in [Roa -> Nat]
    BY <1>2, RoaAssumption DEF IInv, TypeOK
  <2>4. ahead' \subseteq Update \X Update
    BY <1>3, <1>4 DEF MovedToEnd, InList, IInv, TypeOK
  <2>5. roa_match' \in [Update -> Nat]
    BY <1>4, <1>6 DEF IInv, TypeOK
  <2>6. tree' \in [Prefix -> {"absent", "empty", "data"}]
    BY <1>2 DEF IInv, TypeOK
  <2>7. /\ list' \in [Update -> {"none", "other", "valid", "lost"}]
        /\ queue' \subseteq Update
        /\ told' \in [Update -> {"UNDEFINED", "NOTFOUND", "INVALID", "VALID"}]
        /\ up' \in BOOLEAN
    BY <1>2, <1>3, <1>4 DEF IInv, TypeOK
  <2>8. result' \in [Update -> {"UNDEFINED", "NOTFOUND", "INVALID", "VALID"}]
    BY <1>4 DEF IInv, TypeOK
  <2> QED
    BY <2>1, <2>2, <2>3, <2>4, <2>5, <2>6, <2>7, <2>8 DEF TypeOK
<1>8. UpdatesHaveNode'
  <2>1. ASSUME NEW u \in Update, list'[u] # "none" PROVE list[u] # "none"
    BY <1>3, <1>4, <2>1
  <2> QED
    BY <1>2, <2>1 DEF IInv, TypeOK, UpdatesHaveNode
<1>9. UnmatchedIsOther'
  BY <1>3, <1>4, <1>6 DEF IInv, TypeOK, UnmatchedIsOther
<1>10. ResultFollowsList'
  BY <1>2, <1>3, <1>4 DEF IInv, TypeOK, ResultFollowsList
<1>11. PendingIsQueued'
  BY <1>4 DEF IInv, PendingIsQueued
<1> QED
  BY <1>7, <1>8, <1>9, <1>10, <1>11 DEF IInv

-----------------------------------------------------------------------------
(* The theorems.                                                           *)

LEMMA NextIInv == IInv /\ [Next]_vars => IInv'
<1> SUFFICES ASSUME IInv, [Next]_vars PROVE IInv'
  OBVIOUS
<1>1. ASSUME NEW u \in Update,
             \/ RequestNewPrefix(u)
             \/ RequestKnownPrefix(u)
             \/ RequestUncovered(u)
             \/ RequestEmptyNode(u)
      PROVE  IInv'
  BY <1>1, RequestStep
<1>2. ASSUME NEW r \in Roa, AddROAwl(r) PROVE IInv'
  BY <1>2, AddStep
<1>3. ASSUME NEW r \in Roa, DelROAwl(r) PROVE IInv'
  BY <1>3, DelStep
<1>4. ASSUME NEW r \in Roa, DelUnknownROAwl(r) PROVE IInv'
  <2>1. r.prefix \in Prefix
    BY RoaAssumption
  <2> QED
    BY <1>4, <2>1, UpdateAssumption
    DEF DelUnknownROAwl, IInv, TypeOK, UpdatesHaveNode, UnmatchedIsOther,
        ResultFollowsList, PendingIsQueued
<1>5. CASE EndOfData
  BY <1>5 DEF EndOfData, IInv, TypeOK, UpdatesHaveNode, UnmatchedIsOther,
              ResultFollowsList, PendingIsQueued
<1>6. CASE UNCHANGED vars
  BY <1>6 DEF vars, IInv, TypeOK, UpdatesHaveNode, UnmatchedIsOther,
              ResultFollowsList, PendingIsQueued
<1> QED
  BY <1>1, <1>2, <1>3, <1>4, <1>5, <1>6 DEF Next

\* The invariant the others follow from.
THEOREM InductiveInvariant == Spec => []IInv
<1> QED
  BY InitIInv, NextIInv, PTL DEF Spec

\* Every counter, state and list stays in its range, however requests and ROA
\* changes interleave: roa_count, update_count and roa_match never underflow
\* (roa_coverage is unsigned and may wrap), and the state a prefix inherits is
\* always defined, for getParent is used only where there is a parent.
THEOREM TypeCorrect == Spec => []TypeOK
<1>1. IInv => TypeOK
  BY DEF IInv
<1> QED
  BY <1>1, InductiveInvariant, PTL

\* An update that matches no ROA is always in the list "other" of its prefix,
\* where changes of the prefix's state reach it, and no other update is, even
\* when ROAs are announced repeatedly.
THEOREM UnmatchedInOther == Spec => []UnmatchedIsOther
<1>1. IInv => UnmatchedIsOther
  BY DEF IInv
<1> QED
  BY <1>1, InductiveInvariant, PTL

\* The cached result of an update never disagrees with the list it stands in.
THEOREM ResultsFollowLists == Spec => []ResultFollowsList
<1>1. IInv => ResultFollowsList
  BY DEF IInv
<1> QED
  BY <1>1, InductiveInvariant, PTL

\* No validation change is lost between the prefix cache and the routers: it
\* waits in the RPKI queue until it is broadcast.
THEOREM ChangesAreQueued == Spec => []PendingIsQueued
<1>1. IInv => PendingIsQueued
  BY DEF IInv
<1> QED
  BY <1>1, InductiveInvariant, PTL

=============================================================================
