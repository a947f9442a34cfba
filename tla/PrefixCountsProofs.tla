------------------------ MODULE PrefixCountsProofs ------------------------
(***************************************************************************)
(* The counters of the prefix cache are exact, and the cache implements    *)
(* origin validation, for every tree, every set of ROAs and every set of   *)
(* updates, provided that a ROA is withdrawn before it is announced again  *)
(* and that there are fewer ROAs than an unsigned counts.  Neither can be  *)
(* dropped: see the runs prefix_cache_lost and the text of README.md.      *)
(***************************************************************************)
EXTENDS PrefixCacheProofs

\* The validation cache does not announce what it announced already, and
\* roa_coverage does not wrap.
OnceOnly == MaxCount = 1 /\ Cardinality(Roa) < Mod

InForce == {r \in Roa : roa_count[r] > 0}

On(p) == Anc[p] \cup {p}

\* The ROAs the counters count: those covering p, those u matches, and, the
\* other way round, the updates r matches.
CoverSet(p) == CoveringRoas(On(p), p)

MatchSet(u) == {r \in CoverSet(UpdPrefix[u]) : r.as = UpdAS[u]}

MatchedBy(r) == {u \in Update : list[u] # "none" /\ r \in MatchSet(u)}

-----------------------------------------------------------------------------
(* The parts of the inductive invariant.                                   *)

RoasHaveNode == \A r \in InForce : tree[r.prefix] = "data"

CoverageExact ==
  \A p \in Prefix : tree[p] = "data" => roa_coverage[p] = Cardinality(CoverSet(p))

\* An update that was not requested yet has no matches either.
MatchExact ==
  \A u \in Update :
    roa_match[u] = IF list[u] = "none" THEN 0 ELSE Cardinality(MatchSet(u))

\* update_count is what the withdrawal of a ROA stops at: as it is exact, the
\* withdrawal reaches every update.
UpdateCountExact == \A r \in Roa : update_count[r] = Cardinality(MatchedBy(r))

NoneLost == \A u \in Update : list[u] # "lost"

AheadSamePrefix == \A e \in ahead : UpdPrefix[e[1]] = UpdPrefix[e[2]]

QueuedAreAsked == \A u \in queue : list[u] # "none"

EInv ==
  /\ OnceOnly
  /\ IInv
  /\ RoasHaveNode
  /\ CoverageExact
  /\ StateOfOtherTracksROAs
  /\ MatchExact
  /\ UpdateCountExact
  /\ NoneLost
  /\ AheadSamePrefix
  /\ QueuedAreAsked

-----------------------------------------------------------------------------
(* Lemmas about the tree and the sums.                                     *)

LEMMA SmallModulus ==
  /\ \A n \in 0 .. Mod - 1 : n % Mod = n
  /\ \A n \in 1 .. Mod - 1 : (n + Mod - 1) % Mod = n - 1
<1>1. Mod \in Nat \ {0}
  BY RoaAssumption
<1>2. ASSUME NEW n \in 0 .. Mod - 1 PROVE n % Mod = n
  BY <1>1, Z3
<1>3. ASSUME NEW n \in 1 .. Mod - 1 PROVE (n + Mod - 1) % Mod = n - 1
  BY <1>1, Z3
<1> QED
  BY <1>2, <1>3

\* Sets of ROAs are finite and small.
LEMMA FewRoas ==
  ASSUME OnceOnly, NEW R \in SUBSET Roa
  PROVE  /\ IsFiniteSet(R)
         /\ Cardinality(R) \in 0 .. Mod - 1
<1>1. IsFiniteSet(R) /\ Cardinality(R) <= Cardinality(Roa)
  BY FS_Subset, RoaAssumption
<1>2. Cardinality(R) \in Nat /\ Cardinality(Roa) \in Nat
  BY <1>1, FS_CardinalityType, RoaAssumption
<1> QED
  BY <1>1, <1>2, RoaAssumption DEF OnceOnly

\* Without repeated announcements a sum of roa_count is a number of ROAs.
LEMMA SumOnce ==
  ASSUME OnceOnly, TypeOK, NEW R \in SUBSET InForce
  PROVE  SumRoaCount(R) = Cardinality(R)
<1> DEFINE I == {i \in R \X (1 .. MaxCount) : i[2] <= roa_count[i[1]]}
<1>1. R \subseteq Roa /\ IsFiniteSet(R) /\ Cardinality(R) \in Nat
  <2>1. R \in SUBSET Roa
    BY DEF InForce
  <2> QED
    BY <2>1, FewRoas
<1>2. 1 .. MaxCount = {1}
  BY DEF OnceOnly
<1>3. ASSUME NEW r \in R PROVE 1 <= roa_count[r]
  <2>1. r \in Roa /\ roa_count[r] > 0
    BY DEF InForce
  <2> QED
    BY <2>1 DEF TypeOK, OnceOnly
<1>4. I = R \X {1}
  BY <1>2, <1>3
<1>5. IsFiniteSet({1}) /\ Cardinality({1}) = 1
  BY FS_Singleton
<1>6. Cardinality(R \X {1}) = Cardinality(R) * 1
  <2> HIDE DEF I
  <2> QED
    BY <1>1, <1>5, FS_Product
<1>7. Cardinality(R) * 1 = Cardinality(R)
  BY <1>1
<1> HIDE DEF I
<1> QED
  BY <1>4, <1>6, <1>7 DEF SumRoaCount, I

\* The less specific prefixes of a prefix, in its own order.
LEMMA TreeOrder ==
  ASSUME NEW p \in Prefix, NEW q \in On(p)
  PROVE  /\ q \in Prefix
         /\ On(q) \subseteq On(p)
         /\ BitLen[q] \in Nat /\ BitLen[p] \in Nat
         /\ BitLen[q] <= BitLen[p]
         /\ q # p => q \in Anc[p] /\ BitLen[q] < BitLen[p] /\ p \notin On(q)
         /\ \A z \in On(p) : z \in On(q) \/ q \in Anc[z]
<1>1. q \in Prefix
  BY TreeAssumption DEF On
<1>2. BitLen[q] \in Nat /\ BitLen[p] \in Nat
  BY <1>1, TreeAssumption
<1>3. q \in Anc[p] => BitLen[q] < BitLen[p] /\ Anc[q] \subseteq Anc[p]
  BY TreeAssumption
<1>4. p \in Anc[q] => BitLen[p] < BitLen[q]
  BY <1>1, TreeAssumption
<1>5. \A z \in Anc[p] : q \in Anc[p] => q = z \/ q \in Anc[z] \/ z \in Anc[q]
  BY TreeAssumption
<1>6. \A z \in On(p) : z \in On(q) \/ q \in Anc[z]
  BY <1>5 DEF On
<1> QED
  BY <1>1, <1>2, <1>3, <1>4, <1>6 DEF On

\* The parent of p is its most specific ancestor with a PC_Prefix.
LEMMA ParentIsLowest ==
  ASSUME NEW p \in Prefix, DataAnc(p) # {}
  PROVE  /\ getParent(p) \in DataAnc(p)
         /\ \A z \in DataAnc(p) : z \in On(getParent(p))
<1>1. /\ getParent(p) \in DataAnc(p)
      /\ \A z \in DataAnc(p) : BitLen[z] <= BitLen[getParent(p)]
  BY ParentInTree
<1>2. ASSUME NEW z \in DataAnc(p) PROVE z \in On(getParent(p))
  <2> DEFINE q == getParent(p)
  <2>1. z \in Anc[p] /\ q \in Anc[p] /\ z \in Prefix /\ q \in Prefix
    BY <1>1, TreeAssumption DEF DataAnc
  <2>2. z = q \/ z \in Anc[q] \/ q \in Anc[z]
    BY <2>1, TreeAssumption
  <2>3. q \in Anc[z] => BitLen[q] < BitLen[z]
    BY <2>1, TreeAssumption
  <2>4. BitLen[z] <= BitLen[q] /\ BitLen[z] \in Nat /\ BitLen[q] \in Nat
    BY <1>1, <2>1, TreeAssumption
  <2> HIDE DEF q
  <2> QED
    BY <2>2, <2>3, <2>4 DEF On, q
<1> QED
  BY <1>1, <1>2

-----------------------------------------------------------------------------
(* Lemmas about the climbs.                                                *)

\* The state a new PC_Prefix inherits is that of the ROAs above it.
LEMMA ParentStateExact ==
  ASSUME EInv, NEW p \in Prefix
  PROVE  /\ ParentState(p) \in {"NOTFOUND", "INVALID"}
         /\ ParentState(p) = "INVALID" <=> \E r \in InForce : r.prefix \in Anc[p]
<1>1. ParentState(p) \in {"NOTFOUND", "INVALID"}
  BY ParentStateType DEF EInv, IInv
<1>2. ASSUME NEW r \in InForce, r.prefix \in Anc[p] PROVE ParentState(p) = "INVALID"
  <2> DEFINE q == getParent(p)
  <2>1. r.prefix \in DataAnc(p)
    BY <1>2 DEF EInv, RoasHaveNode, DataAnc
  <2>2. q \in DataAnc(p) /\ r.prefix \in On(q)
    BY <2>1, ParentIsLowest
  <2>3. q \in Prefix /\ tree[q] = "data"
    BY <2>2, TreeAssumption DEF DataAnc
  <2>4. r \in Roa /\ roa_count[r] > 0
    BY DEF InForce
  <2> HIDE DEF q
  <2>5. state_of_other[q] = "INVALID"
    BY <2>2, <2>3, <2>4 DEF EInv, StateOfOtherTracksROAs, On
  <2> QED
    BY <2>1, <2>5 DEF ParentState, q
<1>3. ASSUME ParentState(p) = "INVALID" PROVE \E r \in InForce : r.prefix \in Anc[p]
  <2> DEFINE q == getParent(p)
  <2>1. DataAnc(p) # {} /\ state_of_other[q] = "INVALID"
    BY <1>3 DEF ParentState
  <2>2. q \in DataAnc(p)
    BY <2>1, ParentIsLowest
  <2>3. q \in Prefix /\ tree[q] = "data" /\ q \in Anc[p] /\ Anc[q] \subseteq Anc[p]
    BY <2>2, TreeAssumption DEF DataAnc
  <2> HIDE DEF q
  <2>4. PICK r \in Roa : roa_count[r] > 0 /\ r.prefix \in Anc[q] \cup {q}
    BY <2>1, <2>3 DEF EInv, StateOfOtherTracksROAs
  <2> QED
    BY <2>3, <2>4 DEF InForce
<1> QED
  BY <1>1, <1>2, <1>3

\* A climb that stops where no covering ROA is left above misses none.
LEMMA AboveAll ==
  ASSUME EInv, NEW p \in Prefix, NEW S,
         \A r \in CoveringRoas(Anc[p], p), q \in DataAnc(p) : r.prefix \in On(q) => q \in S
  PROVE  CoveringRoas(Above(p, S), p) = CoveringRoas(Anc[p], p)
<1>1. Above(p, S) \subseteq Anc[p]
  BY DEF Above, DataAnc
<1>2. ASSUME NEW r \in CoveringRoas(Anc[p], p) PROVE r.prefix \in Above(p, S)
  <2>1. r \in Roa /\ roa_count[r] > 0 /\ r.prefix \in Anc[p]
    BY DEF CoveringRoas
  <2>2. r.prefix \in DataAnc(p)
    BY <2>1 DEF EInv, RoasHaveNode, InForce, DataAnc
  <2>3. ASSUME NEW y \in DataAnc(p), BitLen[y] >= BitLen[r.prefix] PROVE y \in S
    <3>1. y \in Anc[p] /\ y \in Prefix /\ r.prefix \in Prefix
      BY <2>1, TreeAssumption DEF DataAnc
    <3>2. y = r.prefix \/ y \in Anc[r.prefix] \/ r.prefix \in Anc[y]
      BY <2>1, <3>1, TreeAssumption
    <3>3. y \in Anc[r.prefix] => BitLen[y] < BitLen[r.prefix]
      BY <3>1, TreeAssumption
    <3>4. BitLen[y] \in Nat /\ BitLen[r.prefix] \in Nat
      BY <3>1, TreeAssumption
    <3>5. r.prefix \in On(y)
      BY <2>3, <3>2, <3>3, <3>4 DEF On
    <3> QED
      BY <3>5
  <2> QED
    BY <2>2, <2>3 DEF Above
<1> QED
  BY <1>1, <1>2 DEF CoveringRoas

\* A ROA that reaches down to p covers every prefix between its own and p.
LEMMA CoversDown ==
  ASSUME NEW r \in Roa, NEW p \in Prefix, NEW q \in On(p), Covers(r, p)
  PROVE  Covers(r, q)
<1>1. BitLen[q] <= BitLen[p] /\ BitLen[q] \in Nat /\ BitLen[p] \in Nat
  BY TreeOrder
<1>2. r.maxLen \in Nat
  BY RoaAssumption
<1> QED
  BY <1>1, <1>2 DEF Covers

\* Where a ROA covers there is coverage, and where there is none no ROA does.
LEMMA CoverageTells ==
  ASSUME EInv, NEW p \in Prefix, tree[p] = "data"
  PROVE  /\ roa_coverage[p] = Cardinality(CoverSet(p))
         /\ roa_coverage[p] > 0 <=> CoverSet(p) # {}
         /\ roa_coverage[p] \in 0 .. Mod - 1
<1>1. roa_coverage[p] = Cardinality(CoverSet(p))
  BY DEF EInv, CoverageExact
<1>2. CoverSet(p) \in SUBSET Roa
  BY DEF CoverSet, CoveringRoas
<1>3. IsFiniteSet(CoverSet(p)) /\ Cardinality(CoverSet(p)) \in 0 .. Mod - 1
  BY <1>2, FewRoas DEF EInv
<1>4. Cardinality(CoverSet(p)) = 0 <=> CoverSet(p) = {}
  BY <1>3, FS_EmptySet
<1> QED
  BY <1>1, <1>3, <1>4, RoaAssumption

\* Climbing while there is coverage, as a known prefix and a new ROA do.
LEMMA ClimbCoverage ==
  ASSUME EInv, NEW p \in Prefix
  PROVE  CoveringRoas(Above(p, {q \in Prefix : roa_coverage[q] > 0}), p)
           = CoveringRoas(Anc[p], p)
<1>1. ASSUME NEW r \in CoveringRoas(Anc[p], p), NEW q \in DataAnc(p), r.prefix \in On(q)
      PROVE  q \in {z \in Prefix : roa_coverage[z] > 0}
  <2>1. q \in On(p) /\ q \in Prefix /\ tree[q] = "data"
    BY TreeAssumption DEF DataAnc, On
  <2>2. r \in Roa /\ roa_count[r] > 0 /\ Covers(r, p)
    BY DEF CoveringRoas
  <2>3. Covers(r, q)
    BY <2>1, <2>2, CoversDown
  <2>4. r \in CoverSet(q)
    BY <1>1, <2>2, <2>3 DEF CoverSet, CoveringRoas
  <2> QED
    BY <2>1, <2>4, CoverageTells
<1> QED
  BY <1>1, AboveAll

\* Climbing while the state of other is INVALID, as a new prefix does.
LEMMA ClimbState ==
  ASSUME EInv, NEW p \in Prefix
  PROVE  CoveringRoas(Above(p, {q \in Prefix : state_of_other[q] = "INVALID"}), p)
           = CoveringRoas(Anc[p], p)
<1>1. ASSUME NEW r \in CoveringRoas(Anc[p], p), NEW q \in DataAnc(p), r.prefix \in On(q)
      PROVE  q \in {z \in Prefix : state_of_other[z] = "INVALID"}
  <2>1. q \in Prefix /\ tree[q] = "data"
    BY TreeAssumption DEF DataAnc
  <2>2. r \in Roa /\ roa_count[r] > 0
    BY DEF CoveringRoas
  <2> QED
    BY <1>1, <2>1, <2>2 DEF EInv, StateOfOtherTracksROAs, On
<1> QED
  BY <1>1, AboveAll

\* No ROA is attached to a prefix without PC_Prefix: all come from above.
LEMMA CoverSetOfNew ==
  ASSUME EInv, NEW p \in Prefix, tree[p] # "data"
  PROVE  CoverSet(p) = CoveringRoas(Anc[p], p)
BY DEF EInv, RoasHaveNode, InForce, CoverSet, CoveringRoas, On

-----------------------------------------------------------------------------
(* Initially nothing is counted.                                           *)

LEMMA InitEInv == OnceOnly /\ Init => EInv
<1> SUFFICES ASSUME OnceOnly, Init PROVE EInv
  OBVIOUS
<1>1. IInv
  BY InitIInv
<1>2. \A r \in Roa : MatchedBy(r) = {}
  BY DEF Init, MatchedBy
<1>3. UpdateCountExact
  BY <1>2, FS_EmptySet DEF Init, UpdateCountExact
<1>4. RoasHaveNode /\ CoverageExact /\ StateOfOtherTracksROAs
  BY DEF Init, RoasHaveNode, InForce, CoverageExact, StateOfOtherTracksROAs
<1>5. MatchExact /\ NoneLost /\ AheadSamePrefix /\ QueuedAreAsked
  BY DEF Init, MatchExact, NoneLost, AheadSamePrefix, QueuedAreAsked
<1> QED
  BY <1>1, <1>3, <1>4, <1>5 DEF EInv

\* Steps that touch neither the counters nor the lists.
LEMMA QuietExact ==
  ASSUME EInv, IInv',
         UNCHANGED <<roa_count, roa_coverage, state_of_other, list, ahead, roa_match,
                     update_count>>,
         queue' \subseteq queue,
         \A p \in Prefix : tree'[p] = "data" <=> tree[p] = "data"
  PROVE  EInv'
<1>1. \A p : CoverSet(p)' = CoverSet(p)
  BY DEF CoverSet, CoveringRoas
<1>2. \A u : MatchSet(u)' = MatchSet(u)
  BY <1>1 DEF MatchSet
<1>3. \A r : MatchedBy(r)' = MatchedBy(r)
  BY <1>2 DEF MatchedBy
<1>4. OnceOnly' /\ NoneLost' /\ AheadSamePrefix' /\ QueuedAreAsked'
  BY DEF EInv, OnceOnly, NoneLost, AheadSamePrefix, QueuedAreAsked
<1>5. RoasHaveNode'
  BY RoaAssumption DEF EInv, RoasHaveNode, InForce
<1>6. CoverageExact' /\ StateOfOtherTracksROAs'
  BY <1>1 DEF EInv, CoverageExact, StateOfOtherTracksROAs
<1>7. MatchExact' /\ UpdateCountExact'
  BY <1>2, <1>3 DEF EInv, MatchExact, UpdateCountExact
<1> QED
  BY <1>4, <1>5, <1>6, <1>7 DEF EInv

-----------------------------------------------------------------------------
(* Requests: the climb found exactly the ROAs the update matches.          *)

LEMMA EnterListExact ==
  ASSUME EInv, IInv', NEW u \in Update, list[u] = "none",
         EnterList(u, MatchSet(u)),
         \A p \in Prefix : tree[p] = "data" => tree'[p] = "data",
         CoverageExact', StateOfOtherTracksROAs'
  PROVE  EInv'
<1> USE UpdateAssumption
<1> DEFINE R == MatchSet(u)
           n == SumRoaCount(R)
<1>1. R \subseteq InForce /\ R \subseteq Roa
  BY DEF MatchSet, CoverSet, CoveringRoas, InForce
<1>2. n = Cardinality(R)
  <2>1. R \in SUBSET InForce
    BY <1>1
  <2> QED
    BY <2>1, SumOnce DEF EInv, IInv
<1> HIDE DEF n
<1>3. /\ roa_match' = [roa_match EXCEPT ![u] = n]
      /\ list' = [list EXCEPT ![u] = IF n = 0 THEN "other" ELSE "valid"]
      /\ update_count' =
           [r \in Roa |-> IF r \in R THEN update_count[r] + 1 ELSE update_count[r]]
      /\ ahead' = ahead \cup (InList(IF n = 0 THEN "other" ELSE "valid", {UpdPrefix[u]}) \X {u})
      /\ UNCHANGED <<roa_count, queue>>
  BY DEF EnterList, n
<1>4. \A p : CoverSet(p)' = CoverSet(p)
  BY <1>3 DEF CoverSet, CoveringRoas
<1>5. \A v : MatchSet(v)' = MatchSet(v)
  BY <1>4 DEF MatchSet
<1>6. list \in [Update -> {"none", "other", "valid", "lost"}] /\ roa_match \in [Update -> Nat]
  BY DEF EInv, IInv, TypeOK
<1>7. OnceOnly'
  BY DEF EInv, OnceOnly
<1>8. RoasHaveNode'
  <2>1. InForce' = InForce
    BY <1>3 DEF InForce
  <2>2. \A r \in InForce : r.prefix \in Prefix
    BY RoaAssumption DEF InForce
  <2> QED
    BY <2>1, <2>2 DEF EInv, RoasHaveNode
<1>9. MatchExact'
  BY <1>2, <1>3, <1>5, <1>6 DEF EInv, MatchExact
<1>10. UpdateCountExact'
  <2> SUFFICES ASSUME NEW r \in Roa
               PROVE  update_count'[r] = Cardinality(MatchedBy(r)')
    BY DEF UpdateCountExact
  <2>1. update_count[r] = Cardinality(MatchedBy(r)) /\ IsFiniteSet(MatchedBy(r))
    <3>1. MatchedBy(r) \in SUBSET Update
      BY DEF MatchedBy
    <3> QED
      BY <3>1, FS_Subset DEF EInv, UpdateCountExact
  <2>2. u \notin MatchedBy(r)
    BY DEF MatchedBy
  <2>3. CASE r \in R
    <3>1. MatchedBy(r)' = MatchedBy(r) \cup {u}
      BY <1>3, <1>5, <1>6, <2>3 DEF MatchedBy
    <3>2. Cardinality(MatchedBy(r) \cup {u}) = Cardinality(MatchedBy(r)) + 1
      BY <2>1, <2>2, FS_AddElement
    <3> QED
      BY <1>3, <2>1, <2>3, <3>1, <3>2
  <2>4. CASE r \notin R
    <3>1. MatchedBy(r)' = MatchedBy(r)
      BY <1>3, <1>5, <1>6, <2>4 DEF MatchedBy
    <3> QED
      BY <1>3, <2>1, <2>4, <3>1
  <2> QED
    BY <2>3, <2>4
<1>11. NoneLost' /\ QueuedAreAsked'
  BY <1>3, <1>6 DEF EInv, IInv, TypeOK, NoneLost, QueuedAreAsked
<1>12. AheadSamePrefix'
  BY <1>3 DEF EInv, AheadSamePrefix, InList
<1> QED
  BY <1>7, <1>8, <1>9, <1>10, <1>11, <1>12 DEF EInv

LEMMA RequestExact ==
  ASSUME EInv, IInv', NEW u \in Update,
         \/ RequestNewPrefix(u)
         \/ RequestKnownPrefix(u)
         \/ RequestUncovered(u)
         \/ RequestEmptyNode(u)
  PROVE  EInv'
<1> USE UpdateAssumption
<1> DEFINE p == UpdPrefix[u]
<1>0. p \in Prefix
  OBVIOUS
<1>1. CASE RequestNewPrefix(u)
  <2> DEFINE walk == IF ParentState(p) = "NOTFOUND" THEN {}
                     ELSE Above(p, {q \in Prefix : state_of_other[q] = "INVALID"})
             covering == CoveringRoas(walk, p)
  <2>1. covering = CoverSet(p)
    <3>1. CoverSet(p) = CoveringRoas(Anc[p], p)
      BY <1>1, CoverSetOfNew DEF RequestNewPrefix
    <3>2. CASE ParentState(p) = "NOTFOUND"
      <4>1. \A r \in InForce : r.prefix \notin Anc[p]
        BY <3>2, ParentStateExact
      <4>2. CoveringRoas(Anc[p], p) = {} /\ CoveringRoas({}, p) = {}
        BY <4>1 DEF CoveringRoas, InForce
      <4> QED
        BY <3>1, <3>2, <4>2
    <3>3. CASE ParentState(p) # "NOTFOUND"
      BY <3>1, <3>3, ClimbState
    <3> QED
      BY <3>2, <3>3
  <2>2. /\ list[u] = "none"
        /\ tree[p] = "absent"
        /\ tree' = [tree EXCEPT ![p] = "data"]
        /\ state_of_other' = [state_of_other EXCEPT ![p] = ParentState(p)]
        /\ roa_coverage' = [roa_coverage EXCEPT ![p] = Cardinality(covering) % Mod]
        /\ EnterList(u, {r \in covering : r.as = UpdAS[u]})
    BY <1>1 DEF RequestNewPrefix, Requestable
  <2> HIDE DEF covering
  <2>3. EnterList(u, MatchSet(u))
    BY <2>1, <2>2 DEF MatchSet
  <2>4. Cardinality(covering) % Mod = Cardinality(CoverSet(p))
    <3>1. CoverSet(p) \in SUBSET Roa
      BY DEF CoverSet, CoveringRoas
    <3> QED
      BY <2>1, <3>1, FewRoas, SmallModulus DEF EInv
  <2>5. roa_count' = roa_count
    BY <2>2 DEF EnterList
  <2>6. \A q : CoverSet(q)' = CoverSet(q)
    BY <2>5 DEF CoverSet, CoveringRoas
  <2>7. \A q \in Prefix : tree[q] = "data" => tree'[q] = "data"
    BY <2>2 DEF EInv, IInv, TypeOK
  <2>8. CoverageExact'
    BY <2>2, <2>4, <2>6 DEF EInv, CoverageExact, IInv, TypeOK
  <2>9. StateOfOtherTracksROAs'
    <3>1. ParentState(p) = "INVALID" <=> \E r \in InForce : r.prefix \in On(p)
      <4>1. \A r \in InForce : r.prefix # p
        BY <2>2 DEF EInv, RoasHaveNode
      <4> QED
        BY <4>1, ParentStateExact DEF On
    <3>2. ASSUME NEW q \in Prefix, tree'[q] = "data"
          PROVE  state_of_other'[q] = "INVALID"
                   <=> \E r \in Roa : roa_count[r] > 0 /\ r.prefix \in Anc[q] \cup {q}
      <4>1. CASE q = p
        BY <2>2, <3>1, <4>1 DEF On, InForce, EInv, IInv, TypeOK
      <4>2. CASE q # p
        BY <2>2, <3>2, <4>2 DEF EInv, IInv, TypeOK, StateOfOtherTracksROAs
      <4> QED
        BY <4>1, <4>2
    <3> QED
      BY <2>5, <3>2 DEF StateOfOtherTracksROAs
  <2> QED
    BY <2>2, <2>3, <2>7, <2>8, <2>9, EnterListExact
<1>2. ASSUME tree[p] = "data", list[u] = "none", EnterList(u, MatchSet(u)),
             UNCHANGED <<tree, state_of_other, roa_coverage>>
      PROVE  EInv'
  <2>1. roa_count' = roa_count
    BY <1>2 DEF EnterList
  <2>2. \A q : CoverSet(q)' = CoverSet(q)
    BY <2>1 DEF CoverSet, CoveringRoas
  <2>3. CoverageExact' /\ StateOfOtherTracksROAs'
    BY <1>2, <2>1, <2>2 DEF EInv, CoverageExact, StateOfOtherTracksROAs
  <2> QED
    BY <1>2, <2>3, EnterListExact
<1>3. CASE RequestKnownPrefix(u)
  <2> DEFINE walk == {p} \cup Above(p, {q \in Prefix : roa_coverage[q] > 0})
  <2>1. CoveringRoas(walk, p) = CoverSet(p)
    BY ClimbCoverage DEF CoverSet, CoveringRoas, On
  <2>2. EnterList(u, {r \in CoveringRoas(walk, p) : r.as = UpdAS[u]})
    BY <1>3 DEF RequestKnownPrefix
  <2>3. EnterList(u, MatchSet(u))
    BY <2>1, <2>2 DEF MatchSet
  <2> QED
    BY <1>2, <1>3, <2>3 DEF RequestKnownPrefix, Requestable
<1>4. CASE RequestUncovered(u)
  <2>1. CoverSet(p) = {}
    BY <1>4, CoverageTells DEF RequestUncovered
  <2>2. MatchSet(u) = {}
    BY <2>1 DEF MatchSet
  <2> QED
    BY <1>2, <1>4, <2>2 DEF RequestUncovered, Requestable
<1>5. CASE RequestEmptyNode(u)
  BY <1>5, QuietExact DEF RequestEmptyNode
<1> QED
  BY <1>1, <1>3, <1>4, <1>5

-----------------------------------------------------------------------------
(* Announcements.                                                          *)

\* What the prefix of a new ROA starts from, known or created.
LEMMA PrefixForRoaExact ==
  ASSUME EInv, NEW p \in Prefix
  PROVE  /\ PrefixForRoa(p).coverage = Cardinality(CoverSet(p))
         /\ PrefixForRoa(p).state \in {"NOTFOUND", "INVALID"}
         /\ PrefixForRoa(p).state = "INVALID" <=> \E s \in InForce : s.prefix \in On(p)
<1>1. CASE tree[p] = "data"
  BY <1>1, CoverageTells
  DEF PrefixForRoa, EInv, IInv, TypeOK, StateOfOtherTracksROAs, InForce, On
<1>2. CASE tree[p] # "data"
  <2> DEFINE R == CoveringRoas(Above(p, {q \in Prefix : roa_coverage[q] > 0}), p)
  <2>1. R = CoverSet(p)
    BY <1>2, ClimbCoverage, CoverSetOfNew
  <2>2. /\ CoverSet(p) \in SUBSET InForce
        /\ CoverSet(p) \in SUBSET Roa
    BY DEF CoverSet, CoveringRoas, InForce
  <2>3. SumRoaCount(CoverSet(p)) = Cardinality(CoverSet(p))
    BY <2>2, SumOnce DEF EInv, IInv
  <2>4. Cardinality(CoverSet(p)) % Mod = Cardinality(CoverSet(p))
    BY <2>2, FewRoas, SmallModulus DEF EInv
  <2>5. /\ ParentState(p) \in {"NOTFOUND", "INVALID"}
        /\ ParentState(p) = "INVALID" <=> \E s \in InForce : s.prefix \in Anc[p]
    BY ParentStateExact
  <2>6. \A s \in InForce : s.prefix # p
    BY <1>2 DEF EInv, RoasHaveNode
  <2>7. ParentState(p) = "NOTFOUND" => Cardinality(CoverSet(p)) = 0
    <3>1. ParentState(p) = "NOTFOUND" => CoverSet(p) = {}
      BY <2>5, <2>6 DEF CoverSet, CoveringRoas, On, InForce
    <3> QED
      BY <3>1, FS_EmptySet
  <2> HIDE DEF R
  <2>8. PrefixForRoa(p).coverage = Cardinality(CoverSet(p))
    BY <1>2, <2>1, <2>3, <2>4, <2>7 DEF PrefixForRoa, R
  <2>9. PrefixForRoa(p).state = ParentState(p)
    BY <1>2 DEF PrefixForRoa
  <2> QED
    BY <2>5, <2>6, <2>8, <2>9 DEF On
<1> QED
  BY <1>1, <1>2

\* The counting of r concerns the prefixes and updates that r reaches, and no
\* other ROA's.
LEMMA CountedOnce ==
  ASSUME EInv, NEW r \in Roa, roa_count[r] = 0,
         roa_count' = [roa_count EXCEPT ![r] = @ + 1]
  PROVE  /\ InForce' = InForce \cup {r}
         /\ \A q : CoverSet(q)' =
              IF r.prefix \in On(q) /\ Covers(r, q) THEN CoverSet(q) \cup {r} ELSE CoverSet(q)
         /\ \A q : r \notin CoverSet(q)
<1>1. roa_count \in [Roa -> 0 .. MaxCount] /\ MaxCount \in Nat
  BY RoaAssumption DEF EInv, IInv, TypeOK
<1>2. \A s \in Roa : roa_count'[s] > 0 <=> roa_count[s] > 0 \/ s = r
  BY <1>1
<1>3. InForce' = InForce \cup {r}
  BY <1>2 DEF InForce
<1>4. \A q : CoverSet(q)' = {s \in Roa : roa_count'[s] > 0 /\ s.prefix \in On(q) /\ Covers(s, q)}
  BY DEF CoverSet, CoveringRoas, On, Covers
<1>5. \A q : CoverSet(q) = {s \in Roa : roa_count[s] > 0 /\ s.prefix \in On(q) /\ Covers(s, q)}
  BY DEF CoverSet, CoveringRoas
<1> QED
  BY <1>2, <1>3, <1>4, <1>5

\* The walk of an announcement finds the prefixes r covers and those whose
\* state it changes.
LEMMA AddReaches ==
  ASSUME EInv, NEW r \in Roa, NEW state \in [Prefix -> {"NOTFOUND", "INVALID"}],
         \A q \in Prefix : tree[q] = "data" \/ q = r.prefix =>
           (state[q] = "INVALID" <=> \E s \in InForce : s.prefix \in On(q)),
         NEW q \in Prefix, tree[q] = "data" \/ q = r.prefix,
         r.prefix \in On(q), Covers(r, q) \/ state[q] = "NOTFOUND"
  PROVE  q \in VisitedByAdd(r, state)
<1>1. r.prefix \in Prefix /\ Covers(r, r.prefix)
  BY RoaAssumption DEF Covers
<1>2. CASE q = r.prefix
  BY <1>2 DEF VisitedByAdd
<1>3. CASE q # r.prefix
  <2>1. q \in Below(r.prefix)
    BY <1>3 DEF Below, On
  <2>2. ASSUME NEW y \in Below(r.prefix), y \in Anc[q]
        PROVE  Covers(r, y) \/ state[y] = "NOTFOUND"
    <3>1. y \in On(q) /\ y \in Prefix /\ tree[y] = "data" /\ On(y) \subseteq On(q)
      BY <2>2, TreeOrder DEF Below, On
    <3>2. CASE Covers(r, q)
      BY <3>1, <3>2, CoversDown
    <3>3. CASE state[q] = "NOTFOUND"
      <4>1. ~ \E s \in InForce : s.prefix \in On(q)
        BY <3>3
      <4> QED
        BY <3>1, <4>1
    <3> QED
      BY <3>2, <3>3
  <2> QED
    BY <1>1, <2>1, <2>2 DEF VisitedByAdd
<1> QED
  BY <1>2, <1>3

LEMMA AddExact ==
  ASSUME EInv, IInv', NEW r \in Roa, AddROAwl(r)
  PROVE  EInv'
<1> USE UpdateAssumption
<1> DEFINE p        == r.prefix
           coverage == [roa_coverage EXCEPT ![p] = PrefixForRoa(p).coverage]
           state    == [state_of_other EXCEPT ![p] = PrefixForRoa(p).state]
           visited  == VisitedByAdd(r, state)
           covered  == {q \in visited : Covers(r, q)}
           newly    == {q \in visited : state[q] = "NOTFOUND"}
           matched  == OfAS(InList("valid", covered), r.as)
           moved    == OfAS(InList("other", covered), r.as)
           demoted  == InList("other", newly) \ moved
           M        == matched \cup moved
<1>1. p \in Prefix /\ Covers(r, p)
  BY RoaAssumption DEF Covers
<1>2. /\ tree' = [tree EXCEPT ![p] = "data"]
      /\ roa_count[r] < MaxCount
      /\ roa_count' = [roa_count EXCEPT ![r] = @ + 1]
      /\ roa_coverage' = [q \in Prefix |->
           IF q \in covered THEN (coverage[q] + 1) % Mod ELSE coverage[q]]
      /\ state_of_other' = [q \in Prefix |->
           IF q \in newly THEN "INVALID" ELSE state[q]]
      /\ roa_match' = [u \in Update |->
           IF u \in M THEN roa_match[u] + 1 ELSE roa_match[u]]
      /\ update_count' = [update_count EXCEPT ![r] = @ + Cardinality(M)]
      /\ list' = [u \in Update |-> IF u \in moved THEN "valid" ELSE list[u]]
      /\ ahead' = MovedToEnd(moved, "valid")
      /\ queue' = queue \cup moved \cup demoted
  BY DEF AddROAwl, NotifySuppressed
<1>3. roa_count[r] = 0
  BY <1>2 DEF EInv, OnceOnly, IInv, TypeOK
<1>4. /\ InForce' = InForce \cup {r}
      /\ \A q : CoverSet(q)' =
           IF p \in On(q) /\ Covers(r, q) THEN CoverSet(q) \cup {r} ELSE CoverSet(q)
      /\ \A q : r \notin CoverSet(q)
  BY <1>2, <1>3, CountedOnce
<1>5. \A q \in Prefix : tree'[q] = "data" <=> tree[q] = "data" \/ q = p
  BY <1>1, <1>2 DEF EInv, IInv, TypeOK
<1>6. /\ state \in [Prefix -> {"NOTFOUND", "INVALID"}]
      /\ coverage \in [Prefix -> 0 .. Mod - 1]
      /\ \A q \in Prefix : tree[q] = "data" \/ q = p =>
           /\ coverage[q] = Cardinality(CoverSet(q))
           /\ state[q] = "INVALID" <=> \E s \in InForce : s.prefix \in On(q)
  <2>1. /\ PrefixForRoa(p).coverage = Cardinality(CoverSet(p))
        /\ PrefixForRoa(p).state \in {"NOTFOUND", "INVALID"}
        /\ PrefixForRoa(p).state = "INVALID" <=> \E s \in InForce : s.prefix \in On(p)
    BY <1>1, PrefixForRoaExact
  <2>2. Cardinality(CoverSet(p)) \in 0 .. Mod - 1
    <3>1. CoverSet(p) \in SUBSET Roa
      BY DEF CoverSet, CoveringRoas
    <3> QED
      BY <3>1, FewRoas DEF EInv
  <2>3. \A q \in Prefix : q # p => coverage[q] = roa_coverage[q] /\ state[q] = state_of_other[q]
    BY DEF EInv, IInv, TypeOK
  <2>4. coverage[p] = Cardinality(CoverSet(p)) /\ state[p] = PrefixForRoa(p).state
    BY <1>1, <2>1 DEF EInv, IInv, TypeOK
  <2>5. /\ state \in [Prefix -> {"NOTFOUND", "INVALID"}]
        /\ coverage \in [Prefix -> 0 .. Mod - 1]
    <3>1. /\ state_of_other \in [Prefix -> {"NOTFOUND", "INVALID"}]
          /\ roa_coverage \in [Prefix -> 0 .. Mod - 1]
      BY DEF EInv, IInv, TypeOK
    <3>2. state \in [Prefix -> {"NOTFOUND", "INVALID"}]
      BY <2>1, <3>1
    <3>3. PrefixForRoa(p).coverage \in 0 .. Mod - 1
      BY <2>1, <2>2
    <3>4. coverage \in [Prefix -> 0 .. Mod - 1]
      BY <3>1, <3>3
    <3> QED
      BY <3>2, <3>4
  <2>6. ASSUME NEW q \in Prefix, tree[q] = "data"
        PROVE  /\ roa_coverage[q] = Cardinality(CoverSet(q))
               /\ state_of_other[q] = "INVALID" <=> \E s \in InForce : s.prefix \in On(q)
    BY <2>6 DEF EInv, CoverageExact, StateOfOtherTracksROAs, InForce, On
  <2> QED
    BY <2>1, <2>3, <2>4, <2>5, <2>6
<1> HIDE DEF coverage, state
<1>7. \A q \in Prefix : tree'[q] = "data" =>
        /\ q \in covered <=> p \in On(q) /\ Covers(r, q)
        /\ q \in newly <=> p \in On(q) /\ state[q] = "NOTFOUND"
  <2>1. \A q \in visited : p \in On(q)
    BY DEF VisitedByAdd, Below, On
  <2>2. ASSUME NEW q \in Prefix, tree'[q] = "data", p \in On(q),
               Covers(r, q) \/ state[q] = "NOTFOUND"
        PROVE  q \in visited
    BY <1>5, <1>6, <2>2, AddReaches
  <2> HIDE DEF visited
  <2> QED
    BY <2>1, <2>2
<1> HIDE DEF visited, covered, newly
<1>8. ASSUME NEW u \in Update
      PROVE  /\ u \in M <=> list[u] # "none" /\ r.as = UpdAS[u] /\ p \in On(UpdPrefix[u])
                             /\ Covers(r, UpdPrefix[u])
             /\ u \in M \cup demoted => list[u] # "none"
  <2>1. list[u] \in {"none", "other", "valid"}
    BY DEF EInv, IInv, TypeOK, NoneLost
  <2>2. list[u] # "none" => tree[UpdPrefix[u]] = "data"
    BY DEF EInv, IInv, UpdatesHaveNode
  <2>3. u \in M <=> list[u] # "none" /\ UpdAS[u] = r.as /\ UpdPrefix[u] \in covered
    BY <2>1 DEF OfAS, InList
  <2>4. u \in demoted => list[u] # "none"
    BY DEF InList
  <2> QED
    BY <1>5, <1>7, <2>2, <2>3, <2>4
<1>9. M \subseteq Update /\ moved \subseteq M
  BY DEF OfAS, InList
<1> HIDE DEF M, demoted
<1>10. \A u \in Update : list'[u] # "none" <=> list[u] # "none"
  BY <1>2, <1>8, <1>9
<1>11. \A u \in Update :
         /\ r \notin MatchSet(u)
         /\ MatchSet(u)' = IF p \in On(UpdPrefix[u]) /\ Covers(r, UpdPrefix[u]) /\ r.as = UpdAS[u]
                           THEN MatchSet(u) \cup {r} ELSE MatchSet(u)
  BY <1>4 DEF MatchSet
<1>12. OnceOnly' /\ RoasHaveNode'
  BY <1>4, <1>5, RoaAssumption DEF EInv, OnceOnly, RoasHaveNode, InForce
<1>13. CoverageExact'
  <2> SUFFICES ASSUME NEW q \in Prefix, tree'[q] = "data"
               PROVE  roa_coverage'[q] = Cardinality(CoverSet(q)')
    BY DEF CoverageExact
  <2>1. CoverSet(q) \in SUBSET Roa /\ CoverSet(q)' \in SUBSET Roa
    BY DEF CoverSet, CoveringRoas
  <2>2. /\ IsFiniteSet(CoverSet(q))
        /\ Cardinality(CoverSet(q)) \in 0 .. Mod - 1
        /\ Cardinality(CoverSet(q)') \in 0 .. Mod - 1
    BY <2>1, FewRoas DEF EInv
  <2>3. coverage[q] = Cardinality(CoverSet(q))
    BY <1>5, <1>6
  <2>4. CASE q \in covered
    <3>1. CoverSet(q)' = CoverSet(q) \cup {r}
      BY <1>4, <1>7, <2>4
    <3>2. Cardinality(CoverSet(q)') = Cardinality(CoverSet(q)) + 1
      BY <1>4, <2>2, <3>1, FS_AddElement
    <3>3. (coverage[q] + 1) % Mod = coverage[q] + 1
      BY <2>2, <2>3, <3>2, SmallModulus
    <3> QED
      BY <1>2, <2>3, <2>4, <3>2, <3>3
  <2>5. CASE q \notin covered
    BY <1>2, <1>4, <1>7, <2>3, <2>5
  <2> QED
    BY <2>4, <2>5
<1>14. StateOfOtherTracksROAs'
  <2> SUFFICES ASSUME NEW q \in Prefix, tree'[q] = "data"
               PROVE  state_of_other'[q] = "INVALID" <=> \E s \in InForce' : s.prefix \in On(q)
    BY DEF StateOfOtherTracksROAs, InForce, On
  <2>1. state[q] = "INVALID" <=> \E s \in InForce : s.prefix \in On(q)
    BY <1>5, <1>6
  <2>2. state[q] \in {"NOTFOUND", "INVALID"}
    BY <1>6
  <2>3. state_of_other'[q] = IF q \in newly THEN "INVALID" ELSE state[q]
    BY <1>2
  <2> QED
    BY <1>4, <1>7, <2>1, <2>2, <2>3
<1>15. MatchExact'
  <2> SUFFICES ASSUME NEW u \in Update
               PROVE  roa_match'[u] = IF list'[u] = "none" THEN 0 ELSE Cardinality(MatchSet(u)')
    BY DEF MatchExact
  <2>1. roa_match[u] = IF list[u] = "none" THEN 0 ELSE Cardinality(MatchSet(u))
    BY DEF EInv, MatchExact
  <2>2. CASE u \in M
    <3>1. MatchSet(u)' = MatchSet(u) \cup {r} /\ list[u] # "none"
      BY <1>8, <1>11, <2>2
    <3>2. MatchSet(u) \in SUBSET Roa
      BY DEF MatchSet, CoverSet, CoveringRoas
    <3>3. Cardinality(MatchSet(u)') = Cardinality(MatchSet(u)) + 1
      BY <1>11, <3>1, <3>2, FewRoas, FS_AddElement DEF EInv
    <3> QED
      BY <1>2, <1>10, <2>1, <2>2, <3>1, <3>3
  <2>3. CASE u \notin M
    <3>1. list[u] # "none" => MatchSet(u)' = MatchSet(u)
      BY <1>8, <1>11, <2>3
    <3> QED
      BY <1>2, <1>10, <2>1, <2>3, <3>1
  <2> QED
    BY <2>2, <2>3
<1>16. UpdateCountExact'
  <2> SUFFICES ASSUME NEW s \in Roa
               PROVE  update_count'[s] = Cardinality(MatchedBy(s)')
    BY DEF UpdateCountExact
  <2>1. update_count[s] = Cardinality(MatchedBy(s))
    BY DEF EInv, UpdateCountExact
  <2>2. update_count \in [Roa -> Nat]
    BY DEF EInv, IInv, TypeOK
  <2>3. CASE s = r
    <3>1. MatchedBy(r) = {}
      BY <1>11 DEF MatchedBy
    <3>2. MatchedBy(r)' = M
      BY <1>8, <1>9, <1>10, <1>11 DEF MatchedBy
    <3>3. Cardinality(M) \in Nat
      BY <1>9, FS_Subset, FS_CardinalityType
    <3>4. update_count[r] = 0
      BY <2>1, <2>3, <3>1, FS_EmptySet
    <3> QED
      BY <1>2, <2>2, <2>3, <3>2, <3>3, <3>4
  <2>4. CASE s # r
    <3>1. MatchedBy(s)' = MatchedBy(s)
      BY <1>10, <1>11, <2>4 DEF MatchedBy
    <3> QED
      BY <1>2, <2>1, <2>2, <2>4, <3>1
  <2> QED
    BY <2>3, <2>4
<1>17. NoneLost'
  BY <1>2 DEF EInv, NoneLost
<1>18. AheadSamePrefix'
  BY <1>2 DEF EInv, AheadSamePrefix, MovedToEnd, InList
<1>19. QueuedAreAsked'
  <2>1. queue \subseteq Update /\ demoted \subseteq Update
    BY DEF EInv, IInv, TypeOK, demoted, InList
  <2> QED
    BY <1>2, <1>8, <1>9, <1>10, <2>1 DEF EInv, QueuedAreAsked
<1> QED
  BY <1>12, <1>13, <1>14, <1>15, <1>16, <1>17, <1>18, <1>19 DEF EInv

-----------------------------------------------------------------------------
(* Withdrawals.                                                            *)

\* The ROA that is withdrawn was counted once, wherever it reaches.
LEMMA UncountedOnce ==
  ASSUME EInv, NEW r \in Roa, roa_count[r] > 0,
         roa_count' = [roa_count EXCEPT ![r] = @ - 1]
  PROVE  /\ InForce' = InForce \ {r}
         /\ r \in InForce
         /\ \A q : CoverSet(q)' = CoverSet(q) \ {r}
         /\ \A q : r \in CoverSet(q) <=> r.prefix \in On(q) /\ Covers(r, q)
<1>1. roa_count \in [Roa -> 0 .. 1]
  BY DEF EInv, OnceOnly, IInv, TypeOK
<1>2. \A s \in Roa : roa_count'[s] > 0 <=> roa_count[s] > 0 /\ s # r
  BY <1>1
<1>3. \A q : CoverSet(q)' = {s \in Roa : roa_count'[s] > 0 /\ s.prefix \in On(q) /\ Covers(s, q)}
  BY DEF CoverSet, CoveringRoas, On, Covers
<1>4. \A q : CoverSet(q) = {s \in Roa : roa_count[s] > 0 /\ s.prefix \in On(q) /\ Covers(s, q)}
  BY DEF CoverSet, CoveringRoas
<1> QED
  BY <1>2, <1>3, <1>4 DEF InForce

\* The coverage a withdrawal computes is what the other ROAs leave.
LEMMA LoweredExact ==
  ASSUME EInv, NEW r \in InForce, NEW q \in Prefix, tree[q] = "data", r.prefix \in On(q)
  PROVE  IF Covers(r, q)
         THEN (roa_coverage[q] + Mod - 1) % Mod = Cardinality(CoverSet(q) \ {r})
         ELSE roa_coverage[q] = Cardinality(CoverSet(q) \ {r})
<1>1. /\ roa_coverage[q] = Cardinality(CoverSet(q))
      /\ roa_coverage[q] \in 0 .. Mod - 1
  BY CoverageTells
<1>2. r \in CoverSet(q) <=> Covers(r, q)
  BY DEF CoverSet, CoveringRoas, InForce
<1>3. CoverSet(q) \in SUBSET Roa
  BY DEF CoverSet, CoveringRoas
<1>4. IsFiniteSet(CoverSet(q))
  BY <1>3, FewRoas DEF EInv
<1>5. Cardinality(CoverSet(q) \ {r})
        = IF r \in CoverSet(q) THEN Cardinality(CoverSet(q)) - 1 ELSE Cardinality(CoverSet(q))
  BY <1>4, FS_RemoveElement
<1>6. CASE Covers(r, q)
  <2>1. roa_coverage[q] # 0
    BY <1>2, <1>6, CoverageTells
  <2>2. roa_coverage[q] \in 1 .. Mod - 1
    BY <1>1, <2>1, RoaAssumption
  <2>3. (roa_coverage[q] + Mod - 1) % Mod = roa_coverage[q] - 1
    BY <2>2, SmallModulus
  <2> QED
    BY <1>1, <1>2, <1>5, <1>6, <2>3
<1>7. CASE ~ Covers(r, q)
  BY <1>1, <1>2, <1>5, <1>7
<1> QED
  BY <1>6, <1>7

\* A withdrawal sets a state back exactly where no other ROA is left, neither
\* at the prefix nor above it, even one whose max_len does not reach it.
LEMMA ClearsExact ==
  ASSUME EInv, NEW r \in InForce, NEW lowered,
         \A y \in Prefix : tree[y] = "data" /\ r.prefix \in On(y) =>
           lowered[y] = Cardinality(CoverSet(y) \ {r}),
         NEW q \in Prefix, tree[q] = "data", r.prefix \in On(q)
  PROVE  Clears(r, lowered, q) <=> ~ \E s \in InForce \ {r} : s.prefix \in On(q)
<1> DEFINE p == r.prefix
<1>0. p \in Prefix /\ r \in Roa /\ roa_count[r] > 0 /\ tree[p] = "data"
  BY RoaAssumption DEF InForce, EInv, RoasHaveNode
<1>1. \A y \in Chain(p, q) : y \in Prefix /\ tree[y] = "data" /\ p \in On(y) /\ y \in On(q)
  BY <1>0 DEF Chain, Below, On
<1>2. \A y \in Chain(p, q) : y # p => ParentState(y) = "INVALID"
  <2>1. ASSUME NEW y \in Chain(p, q), y # p PROVE ParentState(y) = "INVALID"
    <3>1. y \in Prefix /\ p \in Anc[y]
      BY <1>1, <2>1 DEF On
    <3> QED
      BY <3>1, ParentStateExact
  <2> QED
    BY <2>1
<1>3. p \in Chain(p, q) /\ \A y \in Chain(p, q) : y = p \/ p \in Anc[y]
  BY <1>1 DEF Chain, On
<1>4. Clears(r, lowered, q) <=>
        ParentState(p) = "NOTFOUND" /\ \A y \in Chain(p, q) : lowered[y] = 0
  BY <1>2, <1>3 DEF Clears
<1>5. ASSUME NEW y \in Chain(p, q)
      PROVE  lowered[y] = 0 <=> CoverSet(y) \ {r} = {}
  <2>1. lowered[y] = Cardinality(CoverSet(y) \ {r})
    BY <1>1
  <2>2. CoverSet(y) \ {r} \in SUBSET Roa
    BY DEF CoverSet, CoveringRoas
  <2>3. IsFiniteSet(CoverSet(y) \ {r})
    BY <2>2, FewRoas DEF EInv
  <2> QED
    BY <2>1, <2>3, FS_EmptySet
<1>6. ParentState(p) = "NOTFOUND" <=> \A s \in InForce : s.prefix \notin Anc[p]
  BY <1>0, ParentStateExact
<1>7. p \notin Anc[p]
  BY <1>0, TreeAssumption
<1>8. ASSUME ~ \E s \in InForce \ {r} : s.prefix \in On(q) PROVE Clears(r, lowered, q)
  <2>1. On(p) \subseteq On(q)
    BY TreeOrder
  <2>2. ParentState(p) = "NOTFOUND"
    BY <1>6, <1>7, <1>8, <2>1 DEF On
  <2>3. ASSUME NEW y \in Chain(p, q) PROVE CoverSet(y) \ {r} = {}
    <3>1. On(y) \subseteq On(q)
      BY <1>1, TreeOrder
    <3> QED
      BY <1>8, <3>1 DEF CoverSet, CoveringRoas, InForce
  <2> QED
    BY <1>4, <1>5, <2>2, <2>3
<1>9. ASSUME Clears(r, lowered, q), NEW s \in InForce \ {r}, s.prefix \in On(q) PROVE FALSE
  <2> DEFINE y == s.prefix
  <2>1. s \in Roa /\ roa_count[s] > 0 /\ y \in Prefix /\ tree[y] = "data" /\ Covers(s, y)
    BY RoaAssumption DEF InForce, EInv, RoasHaveNode, Covers
  <2>2. y \notin Anc[p]
    BY <1>4, <1>6, <1>9
  <2>3. y \in On(p) \/ p \in Anc[y]
    BY <1>9, TreeOrder
  <2>4. y = p \/ p \in Anc[y]
    BY <2>2, <2>3 DEF On
  <2>5. y \in Chain(p, q)
    BY <1>9, <2>1, <2>4 DEF Chain, Below, On
  <2>6. s \in CoverSet(y) \ {r}
    BY <2>1 DEF CoverSet, CoveringRoas, On
  <2> QED
    BY <1>4, <1>5, <1>9, <2>5, <2>6
<1> QED
  BY <1>8, <1>9

\* Its walk reaches every prefix that r covers or whose state it sets back.
LEMMA DelReaches ==
  ASSUME EInv, NEW r \in InForce, NEW lowered,
         \A y \in Prefix : tree[y] = "data" /\ r.prefix \in On(y) =>
           lowered[y] = Cardinality(CoverSet(y) \ {r}),
         NEW q \in Prefix, tree[q] = "data", r.prefix \in On(q),
         Covers(r, q) \/ Clears(r, lowered, q)
  PROVE  q \in VisitedByDel(r, lowered)
<1> DEFINE p == r.prefix
<1>1. q \in {p} \cup Below(p) /\ r \in Roa
  BY DEF Below, On, InForce
<1>2. ASSUME NEW y \in Chain(p, q) PROVE Covers(r, y) \/ Clears(r, lowered, y)
  <2>1. p \in Prefix /\ tree[p] = "data"
    BY RoaAssumption DEF InForce, EInv, RoasHaveNode
  <2>2. y \in Prefix /\ tree[y] = "data" /\ p \in On(y) /\ y \in On(q)
    BY <2>1 DEF Chain, Below, On
  <2>3. CASE Covers(r, q)
    BY <1>1, <2>2, <2>3, CoversDown
  <2>4. CASE Clears(r, lowered, q)
    <3>1. ~ \E s \in InForce \ {r} : s.prefix \in On(q)
      BY <2>4, ClearsExact
    <3>2. ~ \E s \in InForce \ {r} : s.prefix \in On(y)
      BY <2>2, <3>1, TreeOrder
    <3> QED
      BY <2>2, <3>2, ClearsExact
  <2> QED
    BY <2>3, <2>4
<1> QED
  BY <1>1, <1>2 DEF VisitedByDel

\* All updates r matches are decremented, and the unlinking loses none of them.
LEMMA AllDecremented ==
  ASSUME EInv, NEW r \in InForce, NEW S,
         Decremented(r, MatchedBy(r), S)
  PROVE  S = MatchedBy(r) /\ Unlinked(r, S, ToOther(S)) = {}
<1> USE UpdateAssumption
<1> DEFINE M == MatchedBy(r)
<1>1. r \in Roa /\ roa_count[r] = 1
  BY DEF InForce, EInv, OnceOnly, IInv, TypeOK
<1>2. update_count[r] = Cardinality(M)
  BY <1>1 DEF EInv, UpdateCountExact
<1>3. IsFiniteSet(M) /\ Cardinality(M) \in Nat
  <2>1. M \in SUBSET Update
    BY DEF MatchedBy
  <2> QED
    BY <2>1, FS_Subset, FS_CardinalityType
<1> HIDE DEF M
<1>4. S \in SUBSET M /\ Cardinality(S) = Cardinality(M)
  BY <1>1, <1>2, <1>3 DEF Decremented, M
<1>5. S = M
  BY <1>3, <1>4, FS_Subset
<1>6. ASSUME NEW u \in S, NEW m \in ToOther(S), <<u, m>> \in ahead PROVE u \in ToOther(S)
  <2>1. u \in Update /\ m \in Update /\ m \in S /\ roa_match[m] = 1
    BY <1>5 DEF ToOther, M, MatchedBy
  <2>2. UpdPrefix[u] = UpdPrefix[m]
    BY <1>6 DEF EInv, AheadSamePrefix
  <2>3. UpdAS[u] = r.as /\ UpdAS[m] = r.as /\ list[u] # "none" /\ list[m] # "none"
    BY <1>5, <2>1 DEF M, MatchedBy, MatchSet
  <2>4. MatchSet(u) = MatchSet(m)
    BY <2>2, <2>3 DEF MatchSet
  <2>5. roa_match[u] = roa_match[m]
    BY <2>1, <2>3, <2>4 DEF EInv, MatchExact
  <2> QED
    BY <2>1, <2>5 DEF ToOther
<1>7. Unlinked(r, S, ToOther(S)) = {}
  BY <1>6 DEF Unlinked
<1> QED
  BY <1>5, <1>7 DEF M

LEMMA DelExact ==
  ASSUME EInv, IInv', NEW r \in Roa, DelROAwl(r)
  PROVE  EInv'
<1> USE UpdateAssumption
<1> DEFINE p        == r.prefix
           lowered  == [q \in Prefix |->
                          IF Covers(r, q) THEN (roa_coverage[q] + Mod - 1) % Mod
                          ELSE roa_coverage[q]]
           visited  == VisitedByDel(r, lowered)
           cleared  == {q \in visited : Clears(r, lowered, q)}
           covered  == {q \in visited : Covers(r, q)}
           promoted == InList("other", cleared)
           matching == OfAS(InList("valid", covered), r.as)
<1>1. PICK S \in SUBSET matching :
        LET moved == ToOther(S)
            gone  == Unlinked(r, S, moved)
        IN /\ Decremented(r, matching, S)
           /\ roa_match' = [u \in Update |->
                IF u \in S THEN roa_match[u] - 1 ELSE roa_match[u]]
           /\ list' = [u \in Update |->
                IF u \in moved THEN "other"
                ELSE IF u \in gone THEN "lost" ELSE list[u]]
           /\ ahead' = {e \in MovedToEnd(moved, "other") :
                          e[1] \notin gone /\ e[2] \notin gone}
           /\ NotifySuppressed(moved \cup promoted,
                [u \in Update |->
                   IF UpdPrefix[u] \in cleared THEN "NOTFOUND"
                   ELSE state_of_other[UpdPrefix[u]]])
  BY DEF DelROAwl
<1>2. /\ roa_count[r] > 0
      /\ roa_count' = [roa_count EXCEPT ![r] = @ - 1]
      /\ update_count' =
           [update_count EXCEPT ![r] = IF roa_count[r] = 1 THEN 0 ELSE @]
      /\ roa_coverage' = [q \in Prefix |->
           IF q \in covered THEN lowered[q] ELSE roa_coverage[q]]
      /\ state_of_other' = [q \in Prefix |->
           IF q \in cleared THEN "NOTFOUND" ELSE state_of_other[q]]
      /\ tree' = [tree EXCEPT ![p] =
           IF \/ \E s \in Roa : s.prefix = p /\ roa_count'[s] > 0
              \/ \E u \in Update : UpdPrefix[u] = p /\ list[u] # "none"
           THEN "data" ELSE "empty"]
  BY DEF DelROAwl
<1>3. roa_count[r] = 1
  BY <1>2 DEF EInv, OnceOnly, IInv, TypeOK
<1>4. /\ InForce' = InForce \ {r}
      /\ r \in InForce
      /\ \A q : CoverSet(q)' = CoverSet(q) \ {r}
      /\ \A q : r \in CoverSet(q) <=> p \in On(q) /\ Covers(r, q)
  BY <1>2, UncountedOnce
<1>5. /\ p \in Prefix
      /\ tree[p] = "data"
      /\ \A q \in Prefix : tree'[q] = "data" => tree[q] = "data"
  <2>1. p \in Prefix /\ tree[p] = "data"
    BY <1>4, RoaAssumption DEF EInv, RoasHaveNode
  <2> QED
    BY <1>2, <2>1 DEF EInv, IInv, TypeOK
<1>6. \A y \in Prefix : tree[y] = "data" /\ p \in On(y) =>
        lowered[y] = Cardinality(CoverSet(y) \ {r})
  BY <1>4, LoweredExact
<1>7. visited \subseteq {p} \cup Below(p)
  BY DEF VisitedByDel
<1>8. ASSUME NEW q \in Prefix, tree[q] = "data"
      PROVE  /\ q \in covered <=> p \in On(q) /\ Covers(r, q)
             /\ q \in cleared <=> p \in On(q) /\ ~ \E s \in InForce \ {r} : s.prefix \in On(q)
  <2> HIDE DEF lowered
  <2>1. q \in visited => p \in On(q)
    BY <1>7 DEF Below, On
  <2>2. p \in On(q) /\ (Covers(r, q) \/ Clears(r, lowered, q)) => q \in visited
    BY <1>4, <1>6, <1>8, DelReaches
  <2>3. p \in On(q) =>
          (Clears(r, lowered, q) <=> ~ \E s \in InForce \ {r} : s.prefix \in On(q))
    BY <1>4, <1>6, <1>8, ClearsExact
  <2> HIDE DEF visited
  <2> QED
    BY <2>1, <2>2, <2>3
<1> HIDE DEF lowered, visited, cleared, covered
<1>9. \A u \in Update :
        /\ MatchSet(u)' = MatchSet(u) \ {r}
        /\ r \in MatchSet(u) <=>
             UpdAS[u] = r.as /\ p \in On(UpdPrefix[u]) /\ Covers(r, UpdPrefix[u])
  BY <1>4 DEF MatchSet
<1>10. matching = MatchedBy(r)
  <2> SUFFICES ASSUME NEW u \in Update PROVE u \in matching <=> u \in MatchedBy(r)
    BY DEF OfAS, InList, MatchedBy
  <2>1. list[u] # "none" => tree[UpdPrefix[u]] = "data"
    BY DEF EInv, IInv, UpdatesHaveNode
  <2>2. u \in matching <=> list[u] = "valid" /\ UpdAS[u] = r.as /\ UpdPrefix[u] \in covered
    BY DEF OfAS, InList
  <2>3. list[u] # "none" => (UpdPrefix[u] \in covered <=>
                             p \in On(UpdPrefix[u]) /\ Covers(r, UpdPrefix[u]))
    BY <1>8, <2>1
  <2>4. list[u] # "none" /\ r \in MatchSet(u) => list[u] = "valid"
    <3>1. MatchSet(u) \in SUBSET Roa
      BY DEF MatchSet, CoverSet, CoveringRoas
    <3>2. Cardinality(MatchSet(u)) = 0 => MatchSet(u) = {}
      BY <3>1, FewRoas, FS_EmptySet DEF EInv
    <3> QED
      BY <3>2 DEF EInv, IInv, TypeOK, UnmatchedIsOther, MatchExact, NoneLost
  <2> QED
    BY <1>9, <2>2, <2>3, <2>4 DEF MatchedBy
<1>11. S = MatchedBy(r) /\ Unlinked(r, S, ToOther(S)) = {}
  BY <1>1, <1>4, <1>10, AllDecremented
<1>12. /\ roa_match' = [u \in Update |->
            IF u \in MatchedBy(r) THEN roa_match[u] - 1 ELSE roa_match[u]]
       /\ list' = [u \in Update |-> IF u \in ToOther(S) THEN "other" ELSE list[u]]
       /\ ahead' \subseteq MovedToEnd(ToOther(S), "other")
       /\ queue' = queue \cup ToOther(S) \cup promoted
  BY <1>1, <1>11 DEF NotifySuppressed
<1>13. /\ \A u \in ToOther(S) : list[u] # "none"
       /\ \A u \in promoted : u \in Update /\ list[u] # "none"
       /\ ToOther(S) \subseteq Update
  BY <1>11 DEF ToOther, MatchedBy, InList
<1> HIDE DEF promoted, matching
<1>14. \A u \in Update : list'[u] # "none" <=> list[u] # "none"
  BY <1>12, <1>13
<1>15. OnceOnly' /\ NoneLost'
  BY <1>12 DEF EInv, OnceOnly, NoneLost
<1>16. RoasHaveNode'
  <2> SUFFICES ASSUME NEW s \in InForce' PROVE tree'[s.prefix] = "data"
    BY DEF RoasHaveNode
  <2>1. s \in Roa /\ roa_count'[s] > 0 /\ tree[s.prefix] = "data" /\ s.prefix \in Prefix
    BY <1>4, RoaAssumption DEF EInv, RoasHaveNode, InForce
  <2> QED
    BY <1>2, <2>1 DEF EInv, IInv, TypeOK
<1>17. CoverageExact'
  <2> SUFFICES ASSUME NEW q \in Prefix, tree'[q] = "data"
               PROVE  roa_coverage'[q] = Cardinality(CoverSet(q)')
    BY DEF CoverageExact
  <2>1. tree[q] = "data" /\ CoverSet(q)' = CoverSet(q) \ {r}
    BY <1>4, <1>5
  <2>2. CASE q \in covered
    BY <1>2, <1>6, <1>8, <2>1, <2>2
  <2>3. CASE q \notin covered
    <3>1. r \notin CoverSet(q)
      BY <1>4, <1>8, <2>1, <2>3
    <3>2. CoverSet(q)' = CoverSet(q)
      BY <2>1, <3>1
    <3> QED
      BY <1>2, <2>1, <2>3, <3>2 DEF EInv, CoverageExact
  <2> QED
    BY <2>2, <2>3
<1>18. StateOfOtherTracksROAs'
  <2> SUFFICES ASSUME NEW q \in Prefix, tree'[q] = "data"
               PROVE  state_of_other'[q] = "INVALID" <=> \E s \in InForce' : s.prefix \in On(q)
    BY DEF StateOfOtherTracksROAs, InForce, On
  <2>1. tree[q] = "data"
    BY <1>5
  <2>2. state_of_other[q] = "INVALID" <=> \E s \in InForce : s.prefix \in On(q)
    BY <2>1 DEF EInv, StateOfOtherTracksROAs, InForce, On
  <2>3. q \in cleared <=> p \in On(q) /\ ~ \E s \in InForce \ {r} : s.prefix \in On(q)
    BY <1>8, <2>1
  <2>4. state_of_other'[q] = IF q \in cleared THEN "NOTFOUND" ELSE state_of_other[q]
    BY <1>2
  <2> QED
    BY <1>4, <2>2, <2>3, <2>4
<1>19. MatchExact'
  <2> SUFFICES ASSUME NEW u \in Update
               PROVE  roa_match'[u] = IF list'[u] = "none" THEN 0 ELSE Cardinality(MatchSet(u)')
    BY DEF MatchExact
  <2>1. roa_match[u] = IF list[u] = "none" THEN 0 ELSE Cardinality(MatchSet(u))
    BY DEF EInv, MatchExact
  <2>2. MatchSet(u) \in SUBSET Roa
    BY DEF MatchSet, CoverSet, CoveringRoas
  <2>3. Cardinality(MatchSet(u)') = IF r \in MatchSet(u) THEN Cardinality(MatchSet(u)) - 1
                                    ELSE Cardinality(MatchSet(u))
    BY <1>9, <2>2, FewRoas, FS_RemoveElement DEF EInv
  <2>4. u \in MatchedBy(r) <=> list[u] # "none" /\ r \in MatchSet(u)
    BY DEF MatchedBy
  <2> QED
    BY <1>12, <1>14, <2>1, <2>3, <2>4
<1>20. UpdateCountExact'
  <2> SUFFICES ASSUME NEW s \in Roa
               PROVE  update_count'[s] = Cardinality(MatchedBy(s)')
    BY DEF UpdateCountExact
  <2>1. update_count[s] = Cardinality(MatchedBy(s))
    BY DEF EInv, UpdateCountExact
  <2>2. update_count \in [Roa -> Nat]
    BY DEF EInv, IInv, TypeOK
  <2>3. CASE s = r
    <3>1. MatchedBy(r)' = {}
      BY <1>9 DEF MatchedBy
    <3> QED
      BY <1>2, <1>3, <2>2, <2>3, <3>1, FS_EmptySet
  <2>4. CASE s # r
    <3>1. MatchedBy(s)' = MatchedBy(s)
      BY <1>9, <1>14, <2>4 DEF MatchedBy
    <3> QED
      BY <1>2, <2>1, <2>2, <2>4, <3>1
  <2> QED
    BY <2>3, <2>4
<1>21. AheadSamePrefix'
  BY <1>12 DEF EInv, AheadSamePrefix, MovedToEnd, InList
<1>22. QueuedAreAsked'
  <2>1. queue \subseteq Update
    BY DEF EInv, IInv, TypeOK
  <2> QED
    BY <1>12, <1>13, <1>14, <2>1 DEF EInv, QueuedAreAsked
<1> QED
  BY <1>15, <1>16, <1>17, <1>18, <1>19, <1>20, <1>21, <1>22 DEF EInv

-----------------------------------------------------------------------------
(* The theorems about the counters.                                        *)

LEMMA NextEInv == EInv /\ IInv' /\ [Next]_vars => EInv'
<1> SUFFICES ASSUME EInv, IInv', [Next]_vars PROVE EInv'
  OBVIOUS
<1>1. ASSUME NEW u \in Update,
             \/ RequestNewPrefix(u)
             \/ RequestKnownPrefix(u)
             \/ RequestUncovered(u)
             \/ RequestEmptyNode(u)
      PROVE  EInv'
  BY <1>1, RequestExact
<1>2. ASSUME NEW r \in Roa, AddROAwl(r) PROVE EInv'
  BY <1>2, AddExact
<1>3. ASSUME NEW r \in Roa, DelROAwl(r) PROVE EInv'
  BY <1>3, DelExact
<1>4. ASSUME NEW r \in Roa, DelUnknownROAwl(r) PROVE EInv'
  <2>1. \A p \in Prefix : tree'[p] = "data" <=> tree[p] = "data"
    BY <1>4, RoaAssumption DEF DelUnknownROAwl, EInv, IInv, TypeOK
  <2> QED
    BY <1>4, <2>1, QuietExact DEF DelUnknownROAwl
<1>5. CASE EndOfData
  BY <1>5, QuietExact DEF EndOfData
<1>6. CASE UNCHANGED vars
  BY <1>6, QuietExact DEF vars
<1> QED
  BY <1>1, <1>2, <1>3, <1>4, <1>5, <1>6 DEF Next

\* The invariant of a cache whose ROAs are announced once.
THEOREM ExactInvariant ==
  ASSUME MaxCount = 1, Cardinality(Roa) < Mod
  PROVE  Spec => []EInv
<1>1. OnceOnly
  BY DEF OnceOnly
<1>2. Init => EInv
  BY <1>1, InitEInv
<1> QED
  BY <1>2, NextEInv, InductiveInvariant, PTL DEF Spec

\* roa_coverage, which addROAwl and delROAwl change prefix by prefix along the
\* tree and a new prefix collects from its parents, counts the covering ROAs.
THEOREM CoverageIsExact ==
  ASSUME MaxCount = 1, Cardinality(Roa) < Mod
  PROVE  Spec => []CoverageCountsROAs
<1>1. EInv => CoverageCountsROAs
  <2> SUFFICES ASSUME EInv, NEW p \in Prefix, tree[p] = "data"
               PROVE  roa_coverage[p]
                        = SumRoaCount(CoveringRoas(Anc[p] \cup {p}, p)) % Mod
    BY DEF CoverageCountsROAs
  <2>1. CoverSet(p) \in SUBSET InForce
    BY DEF CoverSet, CoveringRoas, InForce
  <2>2. SumRoaCount(CoverSet(p)) = Cardinality(CoverSet(p))
    BY <2>1, SumOnce DEF EInv, IInv
  <2>3. roa_coverage[p] = Cardinality(CoverSet(p)) /\ roa_coverage[p] \in 0 .. Mod - 1
    BY CoverageTells
  <2>4. roa_coverage[p] % Mod = roa_coverage[p]
    BY <2>3, SmallModulus
  <2> QED
    BY <2>2, <2>3, <2>4 DEF CoverSet, On
<1> QED
  BY <1>1, ExactInvariant, PTL

\* roa_match agrees between the climb of a request and the descents of all the
\* announcements and withdrawals before and after it.
THEOREM MatchesAreExact ==
  ASSUME MaxCount = 1, Cardinality(Roa) < Mod
  PROVE  Spec => []MatchCountsROAs
<1>1. EInv => MatchCountsROAs
  <2> SUFFICES ASSUME EInv, NEW u \in Update, list[u] # "none"
               PROVE  roa_match[u] = SumRoaCount(MatchSet(u))
    BY DEF MatchCountsROAs, MatchSet, CoverSet, On
  <2>1. MatchSet(u) \in SUBSET InForce
    BY DEF MatchSet, CoverSet, CoveringRoas, InForce
  <2> QED
    BY <2>1, SumOnce DEF EInv, IInv, MatchExact
<1> QED
  BY <1>1, ExactInvariant, PTL

\* The state inherited by the updates no ROA matches is INVALID exactly below
\* a ROA: no withdrawal clears it too early, too late or only in part.
THEOREM StatesAreExact ==
  ASSUME MaxCount = 1, Cardinality(Roa) < Mod
  PROVE  Spec => []StateOfOtherTracksROAs
<1>1. EInv => StateOfOtherTracksROAs
  BY DEF EInv
<1> QED
  BY <1>1, ExactInvariant, PTL

\* The update a withdrawal unlinks from both lists, which repeated announcements
\* bring about (the comment at PC_Update.roa_match is violated then), needs them:
\* with ROAs announced once a matched update is always in the list "valid".
THEOREM MatchedIsValidOnce ==
  ASSUME MaxCount = 1, Cardinality(Roa) < Mod
  PROVE  Spec => []MatchedIsValid
<1>1. EInv => MatchedIsValid
  BY DEF EInv, IInv, TypeOK, UnmatchedIsOther, NoneLost, MatchExact, MatchedIsValid
<1> QED
  BY <1>1, ExactInvariant, PTL

-----------------------------------------------------------------------------
(* The refinement.                                                         *)

\* The cached result of a requested update is its outcome as of RFC 6811.
ResultIsOutcome ==
  \A u \in Update : list[u] # "none" => result[u] = OV!Outcome(u)

LEMMA ResultExact == EInv => ResultIsOutcome
<1> SUFFICES ASSUME EInv, NEW u \in Update, list[u] # "none"
             PROVE  result[u] = OV!Outcome(u)
  BY DEF ResultIsOutcome
<1> DEFINE p == UpdPrefix[u]
<1>1. p \in Prefix /\ tree[p] = "data"
  BY UpdateAssumption DEF EInv, IInv, UpdatesHaveNode
<1>2. OV!Covering(u) = {r \in InForce : r.prefix \in On(p)}
  BY DEF OV!Covering, InForce, On
<1>3. MatchSet(u) = {r \in OV!Covering(u) : OV!Matches(r, u)}
  BY <1>2 DEF MatchSet, CoverSet, CoveringRoas, InForce, OV!Matches, Covers
<1>4. Cardinality(MatchSet(u)) = 0 <=> MatchSet(u) = {}
  <2>1. MatchSet(u) \in SUBSET Roa
    BY DEF MatchSet, CoverSet, CoveringRoas
  <2> QED
    BY <2>1, FewRoas, FS_EmptySet DEF EInv
<1>5. list[u] \in {"other", "valid"} /\ (list[u] = "other" <=> MatchSet(u) = {})
  BY <1>4 DEF EInv, IInv, TypeOK, UnmatchedIsOther, NoneLost, MatchExact
<1>6. /\ state_of_other[p] \in {"NOTFOUND", "INVALID"}
      /\ state_of_other[p] = "INVALID" <=> OV!Covering(u) # {}
  BY <1>1, <1>2 DEF EInv, IInv, TypeOK, StateOfOtherTracksROAs, InForce, On
<1>7. CASE list[u] = "valid"
  <2>1. result[u] = "VALID"
    BY <1>7 DEF EInv, IInv, ResultFollowsList
  <2> QED
    BY <1>3, <1>5, <1>7, <2>1 DEF OV!Outcome
<1>8. CASE list[u] = "other"
  <2>1. result[u] = state_of_other[p]
    BY <1>8 DEF EInv, IInv, ResultFollowsList
  <2> QED
    BY <1>3, <1>5, <1>6, <1>8, <2>1 DEF OV!Outcome
<1> QED
  BY <1>5, <1>7, <1>8

LEMMA InitRefines == Init => OV!AInit
BY DEF Init, OV!AInit

\* A successful request is one of the abstract requests.
LEMMA RequestRefines ==
  ASSUME EInv, ResultIsOutcome', NEW u \in Update, list[u] = "none",
         NEW R, EnterList(u, R)
  PROVE  OV!ANext
<1> USE UpdateAssumption
<1>1. /\ \E l \in {"other", "valid"} : list' = [list EXCEPT ![u] = l]
      /\ \E v : result' = [result EXCEPT ![u] = v] /\ told' = [told EXCEPT ![u] = v]
      /\ roa_count' = roa_count
  BY DEF EnterList
<1>2. PICK v : result' = [result EXCEPT ![u] = v] /\ told' = [told EXCEPT ![u] = v]
  BY <1>1
<1>3. list'[u] # "none" /\ result'[u] = v
  BY <1>1, <1>2 DEF EInv, IInv, TypeOK
<1>4. OV!Outcome(u)' = OV!Outcome(u)
  BY <1>1 DEF OV!Outcome, OV!Covering, OV!Matches
<1>5. v = OV!Outcome(u)
  BY <1>3, <1>4 DEF ResultIsOutcome
<1>6. {w \in Update : list'[w] # "none"} = {w \in Update : list[w] # "none"} \cup {u}
  BY <1>1 DEF EInv, IInv, TypeOK
<1>7. OV!Ask(u)
  BY <1>1, <1>2, <1>5, <1>6 DEF OV!Ask
<1> QED
  BY <1>7 DEF OV!ANext

LEMMA StepRefines ==
  EInv /\ EInv' /\ ResultIsOutcome /\ ResultIsOutcome' /\ [Next]_vars => [OV!ANext]_OV!avars
<1> SUFFICES ASSUME EInv, EInv', ResultIsOutcome, ResultIsOutcome', [Next]_vars
             PROVE  [OV!ANext]_OV!avars
  OBVIOUS
<1>1. ASSUME NEW u \in Update, RequestNewPrefix(u) PROVE OV!ANext
  BY <1>1, RequestRefines DEF RequestNewPrefix, Requestable
<1>2. ASSUME NEW u \in Update, RequestKnownPrefix(u) PROVE OV!ANext
  BY <1>2, RequestRefines DEF RequestKnownPrefix, Requestable
<1>3. ASSUME NEW u \in Update, RequestUncovered(u) PROVE OV!ANext
  BY <1>3, RequestRefines DEF RequestUncovered, Requestable
<1>4. ASSUME NEW r \in Roa, AddROAwl(r) PROVE OV!ChangeVrps
  <2>1. roa_count' = [roa_count EXCEPT ![r] = @ + 1] /\ roa_count[r] = 0 /\ told' = told
    BY <1>4 DEF AddROAwl, NotifySuppressed, EInv, OnceOnly, IInv, TypeOK
  <2>2. InForce' = InForce \cup {r}
    BY <2>1, CountedOnce
  <2>3. \A u \in Update : list'[u] # "none" <=> list[u] # "none"
    BY <1>4 DEF AddROAwl, OfAS, InList
  <2> QED
    BY <2>1, <2>2, <2>3 DEF OV!ChangeVrps, InForce
<1>5. ASSUME NEW r \in Roa, DelROAwl(r) PROVE OV!ChangeVrps
  <2>1. /\ roa_count' = [roa_count EXCEPT ![r] = @ - 1]
        /\ roa_count[r] > 0
        /\ told' = told
    BY <1>5 DEF DelROAwl, NotifySuppressed
  <2>2. InForce' = InForce \ {r}
    BY <2>1, UncountedOnce
  <2>3. \A u \in Update : list'[u] # "none" <=> list[u] # "none"
    BY <1>5 DEF DelROAwl, OfAS, InList, ToOther, Unlinked
  <2> QED
    BY <2>1, <2>2, <2>3 DEF OV!ChangeVrps, InForce
<1>6. CASE EndOfData
  <2>1. /\ told' = [u \in Update |-> IF u \in queue THEN result[u] ELSE told[u]]
        /\ UNCHANGED <<roa_count, list>>
    BY <1>6 DEF EndOfData
  <2>2. ASSUME NEW u \in Update
        PROVE  told'[u] = IF list[u] # "none" THEN OV!Outcome(u) ELSE told[u]
    BY <2>1 DEF EInv, IInv, PendingIsQueued, QueuedAreAsked, ResultIsOutcome
  <2>3. told' = [u \in Update |->
           IF u \in {w \in Update : list[w] # "none"} THEN OV!Outcome(u) ELSE told[u]]
    BY <2>1, <2>2
  <2>4. OV!TellAll
    BY <2>1, <2>3 DEF OV!TellAll
  <2> QED
    BY <2>4 DEF OV!ANext
<1>7. ASSUME NEW u \in Update, RequestEmptyNode(u) PROVE UNCHANGED OV!avars
  BY <1>7 DEF RequestEmptyNode, OV!avars
<1>8. ASSUME NEW r \in Roa, DelUnknownROAwl(r) PROVE UNCHANGED OV!avars
  BY <1>8 DEF DelUnknownROAwl, OV!avars
<1>9. CASE UNCHANGED vars
  BY <1>9 DEF vars, OV!avars
<1> QED
  BY <1>1, <1>2, <1>3, <1>4, <1>5, <1>6, <1>7, <1>8, <1>9 DEF Next, OV!ANext

\* The prefix cache implements origin validation: whatever the order of
\* requests, ROA changes and Ends of Data, a router is told the outcome as of
\* RFC 6811 under the ROAs in force, at once for a request and at the next End
\* of Data for a change.
THEOREM ImplementsOriginValidation ==
  ASSUME MaxCount = 1, Cardinality(Roa) < Mod
  PROVE  Spec => OriginValidationSpec
<1>1. Spec => []EInv
  BY ExactInvariant
<1>2. EInv => ResultIsOutcome
  BY ResultExact
<1> QED
  BY <1>1, <1>2, InitRefines, StepRefines, PTL DEF Spec, OriginValidationSpec, OV!ASpec
=============================================================================
