---------------------------- MODULE PrefixCache ----------------------------
(***************************************************************************)
(* The prefix cache of the SRx server (server/prefix_cache.c): a Patricia  *)
(* tree whose nodes carry the ROA white-list entries received from the     *)
(* RPKI validation cache and the updates announced for the prefix.  Every  *)
(* prefix keeps the number of ROAs that cover it and the validation state  *)
(* of the updates no ROA matches; each update keeps the number of ROAs it  *)
(* matches.  Adding and removing a ROA maintains all of these              *)
(* incrementally, by walking the tree below the ROA's prefix.              *)
(*                                                                         *)
(* Each operation is one step.  The list of a prefix is a set of updates   *)
(* with the order in which they stand in it (ahead).                       *)
(***************************************************************************)
EXTENDS Integers, FiniteSets

CONSTANTS
  Prefix,      \* IP prefixes of the tree
  BitLen,      \* BitLen[p]: prefix length
  Anc,         \* Anc[p]: the strictly less specific prefixes of p
  AS,          \* AS numbers
  Reserved,    \* those belonging to RFC 5398
  Roa,         \* ROA white-list entries of the validation cache
  Update,      \* update IDs
  UpdPrefix,   \* UpdPrefix[u], UpdAS[u]: prefix and origin AS of the update
  UpdAS,
  MaxCount,    \* bound: announcements of one ROA that are not yet withdrawn
  Mod          \* roa_coverage is unsigned and wraps at Mod (2^32 in the code)

ASSUME TreeAssumption ==
  /\ BitLen \in [Prefix -> Nat]
  /\ Anc \in [Prefix -> SUBSET Prefix]
  /\ \A p \in Prefix : \A q \in Anc[p] : BitLen[q] < BitLen[p] /\ Anc[q] \subseteq Anc[p]
  /\ \A p \in Prefix : \A q, z \in Anc[p] : q = z \/ q \in Anc[z] \/ z \in Anc[q]

ASSUME RoaAssumption ==
  /\ Reserved \subseteq AS
  /\ Roa \subseteq [prefix : Prefix, as : AS, maxLen : Nat]
  /\ IsFiniteSet(Roa)
  /\ \A r \in Roa : r.maxLen >= BitLen[r.prefix]
  /\ MaxCount \in Nat \ {0}
  /\ Mod \in Nat \ {0}

ASSUME UpdateAssumption ==
  /\ IsFiniteSet(Update)
  /\ UpdPrefix \in [Update -> Prefix]
  /\ UpdAS \in [Update -> AS]

VARIABLES
  tree,            \* tree[p]: "absent", "empty" (node without PC_Prefix), "data"
  roa_coverage,    \* PC_Prefix.roa_coverage
  state_of_other,  \* PC_Prefix.state_of_other
  roa_count,       \* PC_ROA.roa_count; 0: no PC_ROA instance exists
  update_count,    \* PC_ROA.update_count
  list,            \* the list of its PC_Prefix an update stands in
  ahead,           \* <<u, v>>: u stands before v in the same list
  roa_match,       \* PC_Update.roa_match
  result,          \* roaResult of the update cache entry
  queue,           \* updates queued in the RPKI queue with reason RQ_ROA
  told,            \* roaResult last broadcast for the update
  up               \* FALSE once the server process died

vars == <<tree, roa_coverage, state_of_other, roa_count, update_count, list,
          ahead, roa_match, result, queue, told, up>>

TypeOK ==
  /\ tree \in [Prefix -> {"absent", "empty", "data"}]
  /\ roa_coverage \in [Prefix -> 0 .. Mod - 1]
  /\ state_of_other \in [Prefix -> {"NOTFOUND", "INVALID"}]
  /\ roa_count \in [Roa -> 0 .. MaxCount]
  /\ update_count \in [Roa -> Nat]
  /\ list \in [Update -> {"none", "other", "valid", "lost"}]
  /\ ahead \subseteq Update \X Update
  /\ roa_match \in [Update -> Nat]
  /\ result \in [Update -> {"UNDEFINED", "NOTFOUND", "INVALID", "VALID"}]
  /\ queue \subseteq Update
  /\ told \in [Update -> {"UNDEFINED", "NOTFOUND", "INVALID", "VALID"}]
  /\ up \in BOOLEAN

Init ==
  /\ tree = [p \in Prefix |-> "absent"]
  /\ roa_coverage = [p \in Prefix |-> 0]
  /\ state_of_other = [p \in Prefix |-> "NOTFOUND"]
  /\ roa_count = [r \in Roa |-> 0]
  /\ update_count = [r \in Roa |-> 0]
  /\ list = [u \in Update |-> "none"]
  /\ ahead = {}
  /\ roa_match = [u \in Update |-> 0]
  /\ result = [u \in Update |-> "UNDEFINED"]
  /\ queue = {}
  /\ told = [u \in Update |-> "UNDEFINED"]
  /\ up = TRUE

-----------------------------------------------------------------------------
(* Helpers: the tree.                                                      *)

\* The PC_Prefix instances on the way from p to the root, p not included.
DataAnc(p) == {q \in Anc[p] : tree[q] = "data"}

getParent(p) == CHOOSE q \in DataAnc(p) : \A z \in DataAnc(p) : BitLen[z] <= BitLen[q]

\* The state a prefix without a ROA of its own takes over from its parent.
\* (Operators named ..._bug are seeded faults: slips in the definition that
\* follows, which the checks of the properties must notice.)
ParentState_bug(p) ==
  IF DataAnc(p) = {} THEN "UNDEFINED" ELSE state_of_other[getParent(p)]

ParentState(p) ==
  IF DataAnc(p) = {} THEN "NOTFOUND" ELSE state_of_other[getParent(p)]

\* Climbing from the parent of p, as long as the prefixes reached are in S.
Above_bug(p, S) == {q \in DataAnc(p) \cap S : q = getParent(p)}

Above(p, S) ==
  {q \in DataAnc(p) : \A y \in DataAnc(p) : BitLen[y] >= BitLen[q] => y \in S}

\* The PC_Prefix instances below p.
Below(p) == {q \in Prefix : tree[q] = "data" /\ p \in Anc[q]}

Covers(r, p) == BitLen[p] <= r.maxLen

\* The PC_ROA instances attached to prefixes of S whose max_len covers p.
CoveringRoas(S, p) ==
  {r \in Roa : roa_count[r] > 0 /\ r.prefix \in S /\ Covers(r, p)}

\* The sum of roa_count over R.
SumRoaCount(R) ==
  Cardinality({i \in R \X (1 .. MaxCount) : i[2] <= roa_count[i[1]]})

\* The updates standing in list l of a prefix of S.
InList(l, S) == {u \in Update : list[u] = l /\ UpdPrefix[u] \in S}

OfAS(U, as) == {u \in U : UpdAS[u] = as}

\* The order of the lists after M moved, in its order, to the end of lists l.
MovedToEnd(M, l) ==
  {e \in ahead : (e[1] \in M) = (e[2] \in M)}
    \cup {e \in (Update \ M) \X M : e[1] \in InList(l, {UpdPrefix[e[2]]})}

-----------------------------------------------------------------------------
(* requestUpdateValidation: the command handler asks once per update.      *)

\* The walk ended with the matching ROAs R; the update enters its list and
\* the update cache broadcasts the result.
EnterList(u, R) ==
  LET p == UpdPrefix[u]
      l == IF SumRoaCount(R) = 0 THEN "other" ELSE "valid"
      v == IF l = "valid" THEN "VALID" ELSE state_of_other'[p]
  IN /\ roa_match' = [roa_match EXCEPT ![u] = SumRoaCount(R)]
     /\ update_count' =
          [r \in Roa |-> IF r \in R THEN update_count[r] + 1 ELSE update_count[r]]
     /\ list' = [list EXCEPT ![u] = l]
     /\ ahead' = ahead \cup (InList(l, {p}) \X {u})
     /\ result' = [result EXCEPT ![u] = v]
     /\ told' = [told EXCEPT ![u] = v]
     /\ UNCHANGED <<roa_count, queue, up>>

Requestable(u) == up /\ list[u] = "none"

\* The prefix was not in the tree: climb while the state of other is INVALID.
RequestNewPrefix(u) ==
  LET p == UpdPrefix[u]
      walk == IF ParentState(p) = "NOTFOUND" THEN {}
              ELSE Above(p, {q \in Prefix : state_of_other[q] = "INVALID"})
      covering == CoveringRoas(walk, p)
  IN /\ Requestable(u)
     /\ tree[p] = "absent"
     /\ tree' = [tree EXCEPT ![p] = "data"]
     /\ state_of_other' = [state_of_other EXCEPT ![p] = ParentState(p)]
     /\ roa_coverage' = [roa_coverage EXCEPT ![p] = Cardinality(covering) % Mod]
     /\ EnterList(u, {r \in covering : r.as = UpdAS[u]})

\* The prefix is known and covered: climb while there is coverage.
RequestKnownPrefix(u) ==
  LET p == UpdPrefix[u]
      walk == {p} \cup Above(p, {q \in Prefix : roa_coverage[q] > 0})
  IN /\ Requestable(u)
     /\ tree[p] = "data"
     /\ roa_coverage[p] > 0
     /\ UNCHANGED <<tree, state_of_other, roa_coverage>>
     /\ EnterList(u, {r \in CoveringRoas(walk, p) : r.as = UpdAS[u]})

\* The prefix is known and not covered: no walk.
RequestUncovered(u) ==
  LET p == UpdPrefix[u]
  IN /\ Requestable(u)
     /\ tree[p] = "data"
     /\ roa_coverage[p] = 0
     /\ UNCHANGED <<tree, state_of_other, roa_coverage>>
     /\ EnterList(u, {})

\* The prefix is in the tree but has no PC_Prefix: pcPrefix is NULL when its
\* roa_coverage is read, and the process dies.
RequestEmptyNode(u) ==
  /\ Requestable(u)
  /\ tree[UpdPrefix[u]] = "empty"
  /\ up' = FALSE
  /\ UNCHANGED <<tree, roa_coverage, state_of_other, roa_count, update_count,
                 list, ahead, roa_match, result, queue, told>>

-----------------------------------------------------------------------------
(* addROAwl: the validation cache announced a ROA white-list entry.        *)

\* The update cache stores the result v[u] of the updates U and the RPKI
\* queue remembers them until End of Data (PC_DO_SUPPRESS).
NotifySuppressed_bug(U, v) ==
  /\ result' = [u \in Update |-> IF u \in U \ queue THEN v[u] ELSE result[u]]
  /\ queue' = queue \cup U
  /\ UNCHANGED told

NotifySuppressed(U, v) ==
  /\ result' = [u \in Update |-> IF u \in U THEN v[u] ELSE result[u]]
  /\ queue' = queue \cup U
  /\ UNCHANGED told

\* The coverage and state of r's prefix before r is counted: a new PC_Prefix
\* takes the state of its parent and collects the coverage of its parents.
PrefixForRoa_bug(p) ==
  IF tree[p] = "data"
  THEN [coverage |-> roa_coverage[p], state |-> state_of_other[p]]
  ELSE [coverage |-> 0, state |-> ParentState(p)]

PrefixForRoa(p) ==
  IF tree[p] = "data"
  THEN [coverage |-> roa_coverage[p], state |-> state_of_other[p]]
  ELSE [coverage |->
          IF ParentState(p) = "NOTFOUND" THEN 0
          ELSE SumRoaCount(
                 CoveringRoas(Above(p, {q \in Prefix : roa_coverage[q] > 0}), p))
               % Mod,
        state |-> ParentState(p)]

\* The prefixes _addROAwl_verifyUpdates visits: it goes on to the children
\* of a prefix that r covers or whose state it changed.
VisitedByAdd_bug(r, state) ==
  {r.prefix} \cup {q \in Below(r.prefix) : Covers(r, q)}

VisitedByAdd(r, state) ==
  LET descends(y) == Covers(r, y) \/ state[y] = "NOTFOUND"
  IN {r.prefix} \cup
     {q \in Below(r.prefix) :
        descends(r.prefix) /\ \A y \in Below(r.prefix) \cap Anc[q] : descends(y)}

AddROAwl(r) ==
  LET p         == r.prefix
      coverage  == [roa_coverage EXCEPT ![p] = PrefixForRoa(p).coverage]
      state     == [state_of_other EXCEPT ![p] = PrefixForRoa(p).state]
      visited   == VisitedByAdd(r, state)
      covered   == {q \in visited : Covers(r, q)}
      newly     == {q \in visited : state[q] = "NOTFOUND"}
      matched   == OfAS(InList("valid", covered), r.as)
      moved     == OfAS(InList("other", covered), r.as)
      demoted   == InList("other", newly) \ moved
  IN /\ up
     /\ r.as \notin Reserved
     /\ roa_count[r] < MaxCount
     /\ tree' = [tree EXCEPT ![p] = "data"]
     /\ roa_count' = [roa_count EXCEPT ![r] = @ + 1]
     /\ roa_coverage' = [q \in Prefix |->
          IF q \in covered THEN (coverage[q] + 1) % Mod ELSE coverage[q]]
     /\ state_of_other' = [q \in Prefix |->
          IF q \in newly THEN "INVALID" ELSE state[q]]
     /\ roa_match' = [u \in Update |->
          IF u \in matched \cup moved THEN roa_match[u] + 1 ELSE roa_match[u]]
     /\ update_count' = [update_count EXCEPT ![r] = @ + Cardinality(matched \cup moved)]
     /\ list' = [u \in Update |-> IF u \in moved THEN "valid" ELSE list[u]]
     /\ ahead' = MovedToEnd(moved, "valid")
     /\ NotifySuppressed(moved \cup demoted,
          [u \in Update |-> IF u \in moved THEN "VALID" ELSE "INVALID"])
     /\ UNCHANGED up

-----------------------------------------------------------------------------
(* delROAwl: the validation cache withdrew a ROA white-list entry.         *)

\* The PC_Prefix instances from p down to q.
Chain(p, q) == {y \in {p} \cup Below(p) : q = y \/ y \in Anc[q]}

\* Whether _delROAwl_validateUpdates sets the state of q back to NOTFOUND once it
\* gets there: nothing covers q any more, and the state above is NOTFOUND,
\* before the walk or by it.
Clears_bug(r, coverage, q) == coverage[q] = 0

Clears(r, coverage, q) ==
  \E s \in Chain(r.prefix, q) :
    /\ ParentState(s) = "NOTFOUND"
    /\ \A y \in Chain(r.prefix, q) : y = s \/ s \in Anc[y] => coverage[y] = 0

\* The prefixes it visits: it goes on to the children of a prefix that r covers
\* or whose state it sets back.
VisitedByDel(r, coverage) ==
  {q \in {r.prefix} \cup Below(r.prefix) :
     \A y \in Chain(r.prefix, q) \ {q} : Covers(r, y) \/ Clears(r, coverage, y)}

\* The matching updates _delROAwl_moveToOther decrements: those in the valid
\* lists, in list order, while update_count is positive; deleting the last
\* instance of r uses it up.
Decremented(r, matching, S) ==
  LET n == IF update_count[r] = 0 THEN 0
           ELSE IF roa_count[r] > 1 \/ update_count[r] > Cardinality(matching)
           THEN Cardinality(matching)
           ELSE update_count[r]
  IN /\ S \in SUBSET matching
     /\ Cardinality(S) = n
     /\ \A e \in ahead : e[1] \in matching /\ e[2] \in S => e[1] \in S

\* Those that match no ROA any more and move to the list other.
ToOther_bug(S) == {u \in S : roa_match[u] = 0}

ToOther(S) == {u \in S : roa_match[u] = 1}

\* Unlinking a moved node also unlinks the nodes before it that matched but
\* stay valid: prevNode is not advanced over them.
Unlinked(r, S, moved) ==
  {u \in S \ moved : \E m \in moved :
     /\ <<u, m>> \in ahead
     /\ \A w \in Update :
          <<u, w>> \in ahead /\ <<w, m>> \in ahead => UpdAS[w] = r.as}

DelROAwl(r) ==
  LET p        == r.prefix
      lowered  == [q \in Prefix |->
                     IF Covers(r, q) THEN (roa_coverage[q] + Mod - 1) % Mod
                     ELSE roa_coverage[q]]
      visited  == VisitedByDel(r, lowered)
      cleared  == {q \in visited : Clears(r, lowered, q)}
      covered  == {q \in visited : Covers(r, q)}
      promoted == InList("other", cleared)
      matching == OfAS(InList("valid", covered), r.as)
  IN /\ up
     /\ roa_count[r] > 0
     /\ \E S \in SUBSET matching :
          LET moved == ToOther(S)
              gone  == Unlinked(r, S, moved)
          IN /\ Decremented(r, matching, S)
             /\ roa_match' = [u \in Update |->
                  IF u \in S THEN roa_match[u] - 1 ELSE roa_match[u]]
             /\ list' = [u \in Update |->
                  IF u \in moved THEN "other"
                  ELSE IF u \in gone THEN "lost" ELSE list[u]]
             /\ ahead' = {e \in MovedToEnd(moved, "other") :
                            e[1] \notin gone /\ e[2] \notin gone}
             /\ NotifySuppressed(moved \cup promoted,
                  [u \in Update |->
                     IF UpdPrefix[u] \in cleared THEN "NOTFOUND"
                     ELSE state_of_other[UpdPrefix[u]]])
     /\ roa_count' = [roa_count EXCEPT ![r] = @ - 1]
     /\ update_count' = [update_count EXCEPT ![r] = IF roa_count[r] = 1 THEN 0 ELSE @]
     /\ roa_coverage' = [q \in Prefix |->
          IF q \in covered THEN lowered[q] ELSE roa_coverage[q]]
     /\ state_of_other' = [q \in Prefix |->
          IF q \in cleared THEN "NOTFOUND" ELSE state_of_other[q]]
     /\ tree' = [tree EXCEPT ![p] =
          IF \/ \E s \in Roa : s.prefix = p /\ roa_count'[s] > 0
             \/ \E u \in Update : UpdPrefix[u] = p /\ list[u] # "none"
          THEN "data" ELSE "empty"]
     /\ UNCHANGED up

\* The withdrawn ROA is not in the cache, for one because its AS is reserved
\* and addROAwl ignored it.  The lookup adds the prefix to the tree.
DelUnknownROAwl(r) ==
  /\ up
  /\ roa_count[r] = 0
  /\ tree[r.prefix] = "absent"
  /\ tree' = [tree EXCEPT ![r.prefix] = "empty"]
  /\ UNCHANGED <<roa_coverage, state_of_other, roa_count, update_count, list,
                 ahead, roa_match, result, queue, told, up>>

-----------------------------------------------------------------------------

\* handleEndOfData: the queued updates are broadcast with the cached result.
EndOfData_bug ==
  /\ up
  /\ \E u \in queue : told' = [told EXCEPT ![u] = result[u]]
  /\ queue' = {}
  /\ UNCHANGED <<tree, roa_coverage, state_of_other, roa_count, update_count,
                 list, ahead, roa_match, result, up>>

EndOfData ==
  /\ up
  /\ queue # {}
  /\ told' = [u \in Update |-> IF u \in queue THEN result[u] ELSE told[u]]
  /\ queue' = {}
  /\ UNCHANGED <<tree, roa_coverage, state_of_other, roa_count, update_count,
                 list, ahead, roa_match, result, up>>

Next ==
  \/ \E u \in Update : RequestNewPrefix(u)
  \/ \E u \in Update : RequestKnownPrefix(u)
  \/ \E u \in Update : RequestUncovered(u)
  \/ \E u \in Update : RequestEmptyNode(u)
  \/ \E r \in Roa : AddROAwl(r)
  \/ \E r \in Roa : DelROAwl(r)
  \/ \E r \in Roa : DelUnknownROAwl(r)
  \/ EndOfData

Spec == Init /\ [][Next]_vars

-----------------------------------------------------------------------------
(* Properties.                                                             *)

\* An update whose validation was requested is in the list "other" exactly if
\* it matches no ROA, and only then (first half of the comment at
\* PC_Update.roa_match, prefix_cache.h:100-102).
UnmatchedIsOther ==
  \A u \in Update : list[u] # "none" => (list[u] = "other" <=> roa_match[u] = 0)

\* An update that matches a ROA is in the list "valid" (second half of it): no
\* sequence of requests and ROA changes unlinks an update from both lists.
MatchedIsValid ==
  \A u \in Update : roa_match[u] > 0 => list[u] = "valid"

\* The update cache's result is the one the update's list stands for, whatever
\* the order of ROA changes and requests: VALID in the list valid, the state of
\* its prefix in the list other.
ResultFollowsList ==
  \A u \in Update :
    /\ list[u] = "none" => result[u] = "UNDEFINED"
    /\ list[u] = "valid" => result[u] = "VALID"
    /\ list[u] = "other" => result[u] = state_of_other[UpdPrefix[u]]

\* roa_coverage, maintained along every walk, is the number of ROAs that cover
\* the prefix, attached to it or to a less specific prefix (the comment at
\* PC_Prefix.roa_coverage, prefix_cache.h:109).
CoverageCountsROAs ==
  \A p \in Prefix : tree[p] = "data" =>
    roa_coverage[p] = SumRoaCount(CoveringRoas(Anc[p] \cup {p}, p)) % Mod

\* roa_match, maintained from both sides - by the climb of a request and by the
\* descents of ROA changes - is the number of ROAs that make the update valid.
MatchCountsROAs ==
  \A u \in Update : list[u] # "none" =>
    LET p == UpdPrefix[u]
    IN roa_match[u] =
         SumRoaCount({r \in CoveringRoas(Anc[p] \cup {p}, p) : r.as = UpdAS[u]})

\* The state of other is INVALID exactly if some ROA is attached to the prefix
\* or to a less specific one, even one whose max_len does not reach it.
StateOfOtherTracksROAs ==
  \A p \in Prefix : tree[p] = "data" =>
    (state_of_other[p] = "INVALID" <=>
       \E r \in Roa : roa_count[r] > 0 /\ r.prefix \in Anc[p] \cup {p})

\* No validation change is forgotten: an update whose cached result is not the
\* one last broadcast waits in the RPKI queue for the next End of Data.
PendingIsQueued ==
  \A u \in Update : result[u] # told[u] => u \in queue

\* Reading an update's prefix never meets a tree node without PC_Prefix: the
\* branch "(Does P exist ? Yes)" of requestUpdateValidation (prefix_cache.c:594)
\* dereferences treeNode->data.
PrefixOfKnownNodeExists == up

\* The prefix cache implements origin validation as of RFC 6811.
OV == INSTANCE OriginValidation WITH
        vrps  <- {r \in Roa : roa_count[r] > 0},
        asked <- {u \in Update : list[u] # "none"}

OriginValidationSpec == OV!ASpec

=============================================================================
