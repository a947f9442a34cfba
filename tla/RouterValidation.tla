-------------------------- MODULE RouterValidation --------------------------
(***************************************************************************)
(* Validation of routes in QuaggaSRx (bgpd/bgp_route.c, bgpd/bgpd.c,       *)
(* bgpd/bgp_info_hash.c) with the proxy API (client/srx_api.c).            *)
(*                                                                         *)
(* A route is entered under a local ID when it is sent to the server, and  *)
(* under its update ID once the server has answered.  Results arrive any   *)
(* time later, when the route may have been replaced or withdrawn.  The    *)
(* daemon is one thread with an event loop: every handler is one step, and *)
(* the selection of the best route is a scheduled one.                     *)
(*                                                                         *)
(* One prefix, and only the result of origin validation.  The server is    *)
(* the one of processValidationRequest with its registrations; it keeps    *)
(* them, and the results, over a lost connection, as ClientRegistry does.  *)
(***************************************************************************)
EXTENDS Naturals, Sequences, FiniteSets, FiniteSetsExt

CONSTANTS
  Peer,
  UidOf,        \* UidOf[p]: IDs of the updates that peer p can send
  Outcome,      \* Outcome[u]: results that the validation of update u may have first
  Rank,         \* Rank[p]: what the rest of the decision process says of p
  Ignored,      \* srx_val_policy: results whose routes are ignored
  LocalPref,    \* srx_val_local_pref: the preference by result
  PreferValid,  \* SRX_VAL_POLICY_ROA_PREFER_VALID
  MaxUpdates,   \* bound: announcements and withdrawals
  MaxEvents,    \* bound: losses of the connection and changes of results
  MaxChanges,   \* bound: all of these together
  None

Uid == UNION {UidOf[p] : p \in Peer}
Id == 1 .. MaxUpdates             \* bgp_info structures, in the order of their making
Lid == 1 .. MaxUpdates            \* local IDs
Result == {"VALID", "INVALID", "UNDEFINED"}

Route == [peer : Peer, own : Uid, updateID : Uid \cup {0}, localID : Lid \cup {0},
          hash : {"lid", "uid"}, result : Result, ignore : BOOLEAN, removed : BOOLEAN]

Notification == [type : {"NOTIFY"}, lid : Lid \cup {0}, uid : Uid, result : Result]

ASSUME RouterAssumption ==
  /\ {MaxUpdates, MaxEvents, MaxChanges} \subseteq Nat
  /\ \A p, q \in Peer : p # q => Rank[p] # Rank[q] /\ UidOf[p] \cap UidOf[q] = {}
  /\ Ignored \subseteq Result /\ LocalPref \in [Result -> Nat] /\ PreferValid \in BOOLEAN
  /\ 0 \notin Uid /\ Outcome \in [Uid -> SUBSET {"VALID", "INVALID"}]
  /\ None \notin Route /\ None \notin Result

VARIABLES
  \* the router
  info,       \* bgp_info; rn->info is the list of the live ones, the youngest first
  selected,   \* the route with BGP_INFO_SELECTED
  scheduled,  \* BGP_NODE_PROCESS_SCHEDULED
  lids, uids, \* info_lid_hash, info_uid_hash: sets of entries
  made,       \* bgp_info structures made
  lid,        \* suiLocalID
  updates,
  up,         \* FALSE after a freed structure was written to
  \* the connection
  connected, toServer, toRouter,
  \* the server
  known,      \* results in the update cache
  registered, \* updates with the router as client
  queued,     \* validation commands
  sendQueue,  \* SEND_QUEUE: the answers to requests
  \* losses of the connection and changes of results so far
  events,
  \* history
  crossed,    \* routes replaced while they waited for their update ID
  cancelled,  \* updates with a route the router told the server to delete
  overtaken,  \* updates with an answer in the send queue that a newer result overtook
  unsynced    \* routes not sent to the server since a loss of the connection

rib == <<info, selected, scheduled, lids, uids, made, lid>>
server == <<known, registered, queued, sendQueue>>
history == <<crossed, cancelled, overtaken, unsynced>>
vars == <<rib, updates, up, connected, toServer, toRouter, server, events, history>>

Live == {i \in Id : info[i] # None}

TypeOK ==
  /\ info \in [Id -> Route \cup {None}]
  /\ selected \in Live \cup {0}
  /\ scheduled \in BOOLEAN /\ up \in BOOLEAN /\ connected \in BOOLEAN
  /\ lids \subseteq [key : Lid, info : Id, at : Nat]
  /\ uids \subseteq [key : Uid, info : Id, at : Nat]
  /\ made \in 0 .. MaxUpdates /\ lid \in 0 .. MaxUpdates /\ updates \in 0 .. MaxUpdates
  /\ toServer \in Seq([type : {"VERIFY"}, lid : Lid \cup {0}, uid : Uid, default : Result]
                        \cup [type : {"DELETE"}, uid : Uid])
  /\ toRouter \in Seq(Notification \cup [type : {"SYNC"}]) /\ sendQueue \in Seq(Notification)
  /\ known \in [Uid -> Result \cup {None}]
  /\ registered \subseteq Uid /\ queued \subseteq Uid
  /\ events \in 0 .. MaxEvents

Init ==
  /\ info = [i \in Id |-> None] /\ selected = 0 /\ scheduled = FALSE
  /\ lids = {} /\ uids = {} /\ made = 0 /\ lid = 0
  /\ updates = 0 /\ up = TRUE
  /\ connected = TRUE /\ toServer = <<>> /\ toRouter = <<>>
  /\ known = [u \in Uid |-> None] /\ registered = {} /\ queued = {} /\ sendQueue = <<>>
  /\ events = 0 /\ crossed = {} /\ cancelled = {} /\ overtaken = {} /\ unsynced = {}

-----------------------------------------------------------------------------
(* bgp_info_hash.c: keys may occur more than once, "at" is the order in     *)
(* which the entries were made.                                            *)

Register(t, key, i) ==
  t \cup {[key |-> key, info |-> i, at |-> Max({e.at : e \in t} \cup {0}) + 1]}

\* HASH_FIND meets the entry of a key that was made last.
Unregister(t, keys) ==
  {e \in t : e.key \in keys => \E f \in t : f.key = e.key /\ f.at > e.at}

\* bgp_info_fetch walks from the one made first.
Entries(t, key) == {e \in t : e.key = key}

Fetch(t, key) ==
  IF Entries(t, key) = {} THEN 0
  ELSE (CHOOSE e \in Entries(t, key) : \A f \in Entries(t, key) : e.at <= f.at).info

Tables == [lid |-> lids, uid |-> uids]
SetTables(t) == lids' = t.lid /\ uids' = t.uid

\* Packets go out on an established connection only.
SendToServer(ms) == toServer' = IF connected THEN toServer \o ms ELSE toServer

Verify(r) == [type |-> "VERIFY", lid |-> r.localID, uid |-> r.own, default |-> r.result]
Delete(u) == [type |-> "DELETE", uid |-> u]

-----------------------------------------------------------------------------
(* Updates of the peers.                                                   *)

RouteOf(p) == {i \in Live : info[i].peer = p}

NewRoute(p, u, l) ==
  [peer |-> p, own |-> u, updateID |-> 0, localID |-> l, hash |-> "lid",
   result |-> "UNDEFINED", ignore |-> "UNDEFINED" \in Ignored, removed |-> FALSE]

\* The local ID is new, the update ID not known yet.
Replaced_bug(route, u, l) == [NewRoute(route.peer, u, l) EXCEPT !.updateID = route.updateID]

Replaced(route, u, l) == NewRoute(route.peer, u, l)

Unsynced(i) == unsynced' = IF connected THEN unsynced \ {i} ELSE unsynced \cup {i}

\* bgp_update_main for a new route: it becomes the head of the list.
AnnounceNew(p, u) ==
  /\ RouteOf(p) = {}
  /\ LET i == made + 1
         r == NewRoute(p, u, lid + 1)
     IN /\ info' = [info EXCEPT ![i] = r]
        /\ made' = i /\ lid' = lid + 1
        /\ lids' = Register(lids, lid + 1, i)
        /\ SendToServer(<<Verify(r)>>)
        /\ Unsynced(i)
  /\ scheduled' = TRUE
  /\ UNCHANGED <<selected, uids, crossed, cancelled, overtaken>>

\* BZ324: the key that is unregistered is 0 while the route has a local ID.
Unlisted_bug(r) == Tables

Unlisted(r) ==
  [Tables EXCEPT ![r.hash] = Unregister(@, {IF r.localID # 0 THEN 0 ELSE r.updateID})]

\* bgp_update_main for a route with other attributes, or one that was withdrawn
\* and not yet reaped.
AnnounceOther(p, u) ==
  \E i \in RouteOf(p) :
    LET old == info[i]
        r == Replaced(old, u, lid + 1)
    IN /\ old.removed \/ old.own # u
       /\ info' = [info EXCEPT ![i] = r]
       /\ lid' = lid + 1
       /\ uids' = Unlisted(old).uid
       /\ lids' = Register(Unlisted(old).lid, lid + 1, i)
       /\ SendToServer((IF old.updateID = 0 THEN <<>> ELSE <<Delete(old.updateID)>>)
                          \o <<Verify(r)>>)
       /\ crossed' = IF old.updateID = 0 THEN crossed \cup {i} ELSE crossed
       /\ Unsynced(i)
       /\ scheduled' = TRUE
       /\ UNCHANGED <<selected, made, cancelled, overtaken>>

Announce(p, u) ==
  /\ updates < MaxUpdates /\ updates + events < MaxChanges /\ updates' = updates + 1
  /\ u \in UidOf[p]
  /\ AnnounceNew(p, u) \/ AnnounceOther(p, u)
  /\ UNCHANGED <<up, connected, toRouter, events, server>>

Withdraw(p) ==
  /\ updates < MaxUpdates /\ updates + events < MaxChanges /\ updates' = updates + 1
  /\ \E i \in RouteOf(p) :
       /\ ~info[i].removed
       /\ info' = [info EXCEPT ![i].removed = TRUE]
  /\ scheduled' = TRUE
  /\ UNCHANGED <<selected, lids, uids, made, lid, up>>
  /\ UNCHANGED <<connected, toServer, toRouter, events, server, history>>

-----------------------------------------------------------------------------
(* The decision process.                                                   *)

\* srx_loc_prev_value, the preference for valid routes, and the rest of
\* bgp_info_cmp.
Better(r, s) ==
  \/ LocalPref[r.result] > LocalPref[s.result]
  \/ /\ LocalPref[r.result] = LocalPref[s.result]
     /\ LET rValid == PreferValid /\ r.result = "VALID"
            sValid == PreferValid /\ s.result = "VALID"
        IN (rValid /\ ~sValid) \/ (rValid = sValid /\ Rank[r.peer] > Rank[s.peer])

BestOf(S) ==
  LET best == {i \in S : \A j \in S \ {i} : Better(info[i], info[j])}
  IN IF best = {} THEN 0 ELSE CHOOSE i \in best : TRUE

Usable_bug == {i \in Live : ~info[i].ignore}

Usable == {i \in Live : ~info[i].removed /\ ~info[i].ignore}

\* What was withdrawn is reaped, the youngest first and the route that was
\* selected last.
Reaped == {i \in Live : info[i].removed}

Before(i, j) == i # selected /\ (j = selected \/ i > j)

Ordered(S) ==
  {s \in [1 .. Cardinality(S) -> S] : \A m, n \in DOMAIN s : m < n => Before(s[m], s[n])}

\* bgp_info_free: a route leaves its table, and the server is told to delete its
\* update.  No two routes have the same one.
Freed ==
  LET keys(hash) == {IF info[i].updateID # 0 THEN info[i].updateID ELSE info[i].localID :
                       i \in {j \in Reaped : info[j].hash = hash}}
  IN [lid |-> Unregister(lids, keys("lid")), uid |-> Unregister(uids, keys("uid"))]

Deletes ==
  {[n \in DOMAIN s |-> Delete(info[s[n]].updateID)] :
     s \in Ordered({i \in Reaped : info[i].updateID # 0})}

\* bgp_process_main
Process ==
  /\ scheduled
  /\ info' = [i \in Id |-> IF i \in Reaped THEN None ELSE info[i]]
  /\ SetTables(Freed)
  /\ \E s \in Deletes : SendToServer(s)
  /\ unsynced' = unsynced \ Reaped
  /\ selected' = BestOf(Usable)
  /\ scheduled' = FALSE
  /\ UNCHANGED <<made, lid, updates, up, connected, toRouter, events, server>>
  /\ UNCHANGED <<crossed, cancelled, overtaken>>

-----------------------------------------------------------------------------
(* Packets of the server.                                                  *)

WithResult(route, r) == [route EXCEPT !.result = r, !.ignore = r \in Ignored]

\* bgp_info_set_validation_result puts the route back if anything changed.
SetResult_bug(i, r, route) ==
  /\ info' = [info EXCEPT ![i] = WithResult(route, r)]
  /\ scheduled' = (scheduled \/ (r \in Ignored) # route.ignore)

SetResult(i, r, route) ==
  /\ info' = [info EXCEPT ![i] = WithResult(route, r)]
  /\ scheduled' = (scheduled \/ r # route.result \/ (r \in Ignored) # route.ignore)

\* The first answer to a request binds the route to its update ID.
Bind(i, m) ==
  /\ SetResult(i, m.result, [info[i] EXCEPT !.updateID = m.uid, !.localID = 0, !.hash = "uid"])
  /\ SetTables([uid |-> Register(uids, m.uid, i), lid |-> Unregister(lids, {m.lid})])
  /\ UNCHANGED <<toServer, up, cancelled>>

Update(i, m) ==
  /\ SetResult(i, m.result, info[i])
  /\ UNCHANGED <<lids, uids, toServer, up, cancelled>>

\* An update that is not known is deleted at the server.
Refuse(m) ==
  /\ SendToServer(<<Delete(m.uid)>>)
  /\ cancelled' = cancelled \cup {info[i].own : i \in {j \in Live : info[j].own = m.uid}}
  /\ UNCHANGED <<info, scheduled, lids, uids, up>>

WriteToFreed == up' = FALSE /\ UNCHANGED <<info, scheduled, lids, uids, toServer, cancelled>>

handleSRxValidationResult ==
  /\ toRouter # <<>> /\ Head(toRouter).type = "NOTIFY"
  /\ toRouter' = Tail(toRouter)
  /\ LET m == Head(toRouter)
         i == IF m.lid # 0 THEN Fetch(lids, m.lid) ELSE Fetch(uids, m.uid)
     IN IF i = 0 THEN Refuse(m)
        ELSE IF i \notin Live THEN WriteToFreed
        ELSE IF m.lid # 0 THEN Bind(i, m) ELSE Update(i, m)
  /\ UNCHANGED <<selected, made, lid, updates, connected, events, server>>
  /\ UNCHANGED <<crossed, overtaken, unsynced>>

\* Only the first route of the node is sent again, with its present result.
handleSRxSynchRequest ==
  /\ toRouter # <<>> /\ Head(toRouter).type = "SYNC"
  /\ toRouter' = Tail(toRouter)
  /\ IF Live = {} THEN UNCHANGED <<toServer, unsynced>>
     ELSE \E i \in Live :
            /\ \A j \in Live : i >= j
            /\ SendToServer(<<Verify(info[i])>>)
            /\ unsynced' = unsynced \ {i}
  /\ UNCHANGED <<rib, updates, up, connected, events, server, crossed, cancelled, overtaken>>

\* The connection is lost with what it carries and what is queued for it, and
\* established again.
Disconnect ==
  /\ connected /\ events < MaxEvents /\ updates + events < MaxChanges
  /\ connected' = FALSE /\ events' = events + 1
  /\ toServer' = <<>> /\ toRouter' = <<>> /\ sendQueue' = <<>>
  /\ unsynced' = Live
  /\ UNCHANGED <<rib, updates, up, known, registered, queued, crossed, cancelled, overtaken>>

checkClientConnection ==
  /\ ~connected
  /\ connected' = TRUE
  /\ toRouter' = <<[type |-> "SYNC"]>>
  /\ UNCHANGED <<rib, updates, up, toServer, events, server, history>>

-----------------------------------------------------------------------------
(* The server.                                                             *)

Notice(l, u, r) == [type |-> "NOTIFY", lid |-> l, uid |-> u, result |-> r]

\* broadcastResult sends to the router directly.
Broadcast(u, r) ==
  IF connected /\ u \in registered
  THEN /\ toRouter' = Append(toRouter, Notice(0, u, r))
       /\ overtaken' = IF \E n \in DOMAIN sendQueue :
                             sendQueue[n].uid = u /\ sendQueue[n].result # r
                       THEN overtaken \cup {u} ELSE overtaken \ {u}
  ELSE UNCHANGED <<toRouter, overtaken>>

\* Without a receipt only a router with another result is answered.
Answered_bug(m, r) == m.lid # 0

Answered(m, r) == m.lid # 0 \/ m.default # r

processValidationRequest ==
  /\ toServer # <<>> /\ Head(toServer).type = "VERIFY"
  /\ toServer' = Tail(toServer)
  /\ LET m == Head(toServer)
         r == IF known[m.uid] = None THEN m.default ELSE known[m.uid]
     IN /\ registered' = registered \cup {m.uid}
        /\ known' = IF known[m.uid] = None THEN [known EXCEPT ![m.uid] = "UNDEFINED"] ELSE known
        /\ IF Answered(m, r)
           THEN /\ sendQueue' = Append(sendQueue, Notice(m.lid, m.uid, r))
                /\ queued' = IF known'[m.uid] = "UNDEFINED" THEN queued \cup {m.uid} ELSE queued
           ELSE UNCHANGED <<sendQueue, queued>>
  /\ UNCHANGED <<rib, updates, up, connected, toRouter, events, history>>

sendQueueThreadLoop ==
  /\ sendQueue # <<>>
  /\ sendQueue' = Tail(sendQueue)
  /\ toRouter' = Append(toRouter, Head(sendQueue))
  /\ UNCHANGED <<rib, updates, up, connected, toServer, known, registered, queued, events, history>>

deleteUpdateFromCache ==
  /\ toServer # <<>> /\ Head(toServer).type = "DELETE"
  /\ toServer' = Tail(toServer)
  /\ registered' = registered \ {Head(toServer).uid}
  /\ UNCHANGED <<rib, updates, up, connected, toRouter, known, queued, sendQueue, events, history>>

\* A command validates an update that has no result yet.
Validate(u) ==
  /\ u \in queued
  /\ queued' = queued \ {u}
  /\ IF known[u] = "UNDEFINED"
     THEN \E r \in Outcome[u] : known' = [known EXCEPT ![u] = r] /\ Broadcast(u, r)
     ELSE UNCHANGED <<known, toRouter, overtaken>>
  /\ UNCHANGED <<rib, updates, up, connected, toServer, registered, sendQueue, events>>
  /\ UNCHANGED <<crossed, cancelled, unsynced>>

\* The RPKI changes.
ChangeResult(u) ==
  /\ events < MaxEvents /\ updates + events < MaxChanges /\ events' = events + 1
  /\ \E r \in {"VALID", "INVALID"} \ {known[u]} :
       known[u] \in {"VALID", "INVALID"} /\ known' = [known EXCEPT ![u] = r] /\ Broadcast(u, r)
  /\ UNCHANGED <<rib, updates, up, connected, toServer, registered, queued, sendQueue>>
  /\ UNCHANGED <<crossed, cancelled, unsynced>>

-----------------------------------------------------------------------------
Router ==
  \/ \E p \in Peer : (\E u \in UidOf[p] : Announce(p, u)) \/ Withdraw(p)
  \/ Process
  \/ handleSRxValidationResult \/ handleSRxSynchRequest \/ checkClientConnection

Server ==
  \/ processValidationRequest \/ sendQueueThreadLoop \/ deleteUpdateFromCache
  \/ \E u \in Uid : Validate(u) \/ ChangeResult(u)

Next == up /\ (Router \/ Server \/ Disconnect)

Spec == Init /\ [][Next]_vars

-----------------------------------------------------------------------------
\* A route is bound to its own update, however its answers, replacements and
\* losses of the connection come together (bgp_route.c:3553-3572); a route
\* replaced while it waits for its update ID makes the exception.
BoundToOwnUpdate ==
  \A i \in Live \ crossed : info[i].updateID \in {0, info[i].own}

\* What a notification can find in the tables was not freed
\* (bgp_info_free, bgp_info_hash.c:263), with the same exception.
EntriesAreLive ==
  \A e \in lids \cup uids : e.info \in Live \cup crossed

\* When no selection is due the selected route is the best one among those
\* whose result the policy does not ignore: every result that arrives
\* schedules a selection if it can matter (bgp_route.c:1031-1040).
SelectionFollowsResults ==
  ~scheduled /\ up =>
    LET usable == {i \in Live : ~info[i].removed /\ info[i].result \notin Ignored}
    IN selected = BestOf(usable)

\* When all packets are processed a route has the result the server has for its
\* update: the router is registered for it, and the notifications came in
\* order.  Exceptions are routes replaced while they waited, routes whose
\* update the router made the server delete with an answer to a route
\* withdrawn before, and those a synchronisation left out.
RouteHasServerResult ==
  up /\ connected /\ toServer = <<>> /\ sendQueue = <<>> /\ toRouter = <<>> /\ queued = {} =>
    \A i \in Live \ (crossed \cup unsynced) :
      info[i].own \notin cancelled \cup overtaken =>
        /\ info[i].own \in registered
        /\ info[i].result = known[info[i].own]

\* The update ID of a replaced route is a different one, that of its own update
\* (bgp_route.c:3549-3551).
ReplacedGetsNewUpdateID == \A i \in Live : info[i].updateID \in {0, info[i].own}
=============================================================================
