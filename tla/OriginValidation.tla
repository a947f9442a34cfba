------------------------- MODULE OriginValidation -------------------------
(***************************************************************************)
(* What the prefix cache promises: route origin validation (RFC 6811) of   *)
(* the announced updates against the set of validated ROA payloads (VRPs)  *)
(* received from the RPKI validation cache.  A router is told the outcome  *)
(* of its update at once; when the VRPs change, the routers hear of it at  *)
(* the next End of Data and not before ("To prevent churn",                *)
(* prefix_cache.c, notifyUpdateCacheForROAChange).                         *)
(***************************************************************************)
EXTENDS Naturals

CONSTANTS
  Prefix,     \* IP prefixes
  BitLen,     \* BitLen[p]: prefix length of p
  Anc,        \* Anc[p]: the prefixes that are strictly less specific than p
  Roa,        \* VRPs: records [prefix, as, maxLen]
  Update,     \* updates, as identified by the update cache
  UpdPrefix,  \* UpdPrefix[u]: the announced prefix
  UpdAS       \* UpdAS[u]: the origin AS

VARIABLES
  vrps,   \* the VRPs in force
  asked,  \* the updates whose validation was requested
  told    \* told[u]: the outcome the routers heard last

avars == <<vrps, asked, told>>

Covering(u) == {r \in vrps : r.prefix \in Anc[UpdPrefix[u]] \cup {UpdPrefix[u]}}

Matches(r, u) == BitLen[UpdPrefix[u]] <= r.maxLen /\ r.as = UpdAS[u]

Outcome(u) ==
  IF Covering(u) = {} THEN "NOTFOUND"
  ELSE IF \E r \in Covering(u) : Matches(r, u) THEN "VALID"
  ELSE "INVALID"

-----------------------------------------------------------------------------

AInit ==
  /\ vrps = {}
  /\ asked = {}
  /\ told = [u \in Update |-> "UNDEFINED"]

Ask(u) ==
  /\ u \notin asked
  /\ asked' = asked \cup {u}
  /\ told' = [told EXCEPT ![u] = Outcome(u)]
  /\ UNCHANGED vrps

ChangeVrps ==
  /\ \E r \in Roa : vrps' \in {vrps \cup {r}, vrps \ {r}}
  /\ UNCHANGED <<asked, told>>

TellAll ==
  /\ told' = [u \in Update |-> IF u \in asked THEN Outcome(u) ELSE told[u]]
  /\ UNCHANGED <<vrps, asked>>

ANext ==
  \/ \E u \in Update : Ask(u)
  \/ ChangeVrps
  \/ TellAll

ASpec == AInit /\ [][ANext]_avars
=============================================================================
