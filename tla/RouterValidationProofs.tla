----------------------- MODULE RouterValidationProofs -----------------------
(***************************************************************************)
(* Proofs about the validation of routes in QuaggaSRx, for any number of   *)
(* peers, updates, announcements and losses of the connection, and for any *)
(* policy.  First the routes and their entries (IInv), then their results  *)
(* and what is under way between router and server (RInv).                 *)
(***************************************************************************)
EXTENDS RouterValidation, FiniteSetTheorems, NaturalsInduction, SequenceTheorems, TLAPS

Entry(K) == [key : K, info : Id, at : Nat]

\* A table is finite: its entries were made one after the other.
Bounded(t) == \E n \in Nat : \A e \in t : e.at <= n

\* The types, with what bounds the tables and the counters.
Typed ==
  /\ TypeOK
  /\ Bounded(lids) /\ Bounded(uids)
  /\ made <= updates /\ lid <= updates

\* A route is ignored because of its result.
IgnoredByResult == \A i \in Live : info[i].ignore = (info[i].result \in Ignored)

SelectionCurrent == ~scheduled /\ up => selected = BestOf(Usable)

\* A route has one of the two IDs, and is entered in the table of that one.
RoutesHaveOneID ==
  \A i \in Live :
    /\ i <= made
    /\ info[i].own \in UidOf[info[i].peer]
    /\ info[i].localID <= lid
    /\ info[i].updateID = 0 <=> info[i].localID # 0
    /\ info[i].hash = IF info[i].updateID = 0 THEN "lid" ELSE "uid"

\* Routes differ in their peers and in their local IDs.
RoutesDiffer ==
  \A i, j \in Live :
    info[i].peer = info[j].peer \/ (info[i].localID = info[j].localID /\ info[i].localID # 0) =>
      i = j

\* A local ID is entered once, for the route that has it, if the route was not
\* replaced while it waited.
LocalEntries ==
  /\ \A e \in lids : e.key <= lid /\ e.info <= made
  /\ \A e, f \in lids : e.key = f.key => e = f
  /\ \A e \in lids : e.info \in Live \ crossed => info[e.info].localID = e.key
  /\ \A e \in lids : \A i \in Live : info[i].localID = e.key => e.info = i

\* The entry of a route is the last one made for its update ID.
UpdateEntries ==
  \A e \in uids :
    /\ e.info <= made
    /\ e.info \in Live \ crossed =>
         /\ info[e.info].updateID = e.key
         /\ \A f \in uids : f.key = e.key /\ f # e => f.at < e.at

\* A packet with a local ID names the update of the route that has it.
Fits(m) ==
  /\ m.lid <= lid
  /\ \A i \in Live \ crossed : info[i].localID = m.lid => m.uid = info[i].own
  /\ \A e \in lids : e.key = m.lid /\ e.info \in Live => m.uid \in UidOf[info[e.info].peer]

Request ==
  [type : {"VERIFY"}, lid : Lid \cup {0}, uid : Uid, default : Result]
    \cup [type : {"DELETE"}, uid : Uid]

Packet == Notification \cup [type : {"SYNC"}]

FittingRequest == {m \in Request : m.type = "VERIFY" /\ m.lid # 0 => Fits(m)}
FittingNotice == {m \in Notification : m.lid # 0 => Fits(m)}
FittingPacket == FittingNotice \cup [type : {"SYNC"}]

PacketsFit ==
  /\ toServer \in Seq(FittingRequest)
  /\ sendQueue \in Seq(FittingNotice) /\ toRouter \in Seq(FittingPacket)

\* What relates the routes to the tables.
RoutesEntered ==
  /\ RoutesHaveOneID /\ RoutesDiffer
  /\ LocalEntries /\ UpdateEntries
  /\ BoundToOwnUpdate /\ EntriesAreLive

\* The inductive invariant.
IInv ==
  /\ Typed
  /\ IgnoredByResult /\ SelectionCurrent
  /\ RoutesEntered
  /\ PacketsFit

-----------------------------------------------------------------------------
(* The tables.                                                             *)

\* A bounded set of numbers has a greatest member.
LEMMA MaxOf ==
  ASSUME NEW S \in SUBSET Nat, S # {}, NEW n \in Nat, \A x \in S : x <= n
  PROVE  Max(S) \in S /\ \A y \in S : y <= Max(S)
<1> DEFINE T == {n - x : x \in S}
<1>1. T \in SUBSET Nat /\ T # {}
  <2>1. \A x \in S : n - x \in Nat
    OBVIOUS
  <2> QED
    BY <2>1, Zenon
<1>2. PICK k \in T : \A m \in T : ~ (<<m, k>> \in OpToRel(<, Nat))
  BY <1>1, NatLessThanWellFounded, WFMin
<1>3. PICK x \in S : k = n - x
  BY <1>2
<1>4. ASSUME NEW y \in S PROVE y <= x
  <2>1. n - y \in T /\ n - y \in Nat /\ n - x \in Nat
    BY <1>1
  <2>2. n - y < n - x => <<n - y, k>> \in OpToRel(<, Nat)
    BY <2>1, <1>3 DEF OpToRel
  <2>3. ~ (n - y < n - x)
    BY <1>2, <2>1, <2>2, Zenon
  <2> HIDE DEF T
  <2> QED
    BY <2>3
<1>5. x \in S /\ \A y \in S : x >= y /\ x \in Nat /\ y \in Nat
  <2> HIDE DEF T
  <2> QED
    BY <1>4
<1>6. Max(S) \in S /\ \A y \in S : Max(S) >= y
  BY <1>5, Zenon DEF Max
<1> HIDE DEF T
<1> QED
  BY <1>5, <1>6

\* A new entry is the last one of its table.
LEMMA Registered ==
  ASSUME NEW K, NEW t \in SUBSET Entry(K), Bounded(t), NEW k \in K, NEW i \in Id
  PROVE  /\ Register(t, k, i) \in SUBSET Entry(K) /\ Bounded(Register(t, k, i))
         /\ \E n \in Nat : /\ Register(t, k, i) = t \cup {[key |-> k, info |-> i, at |-> n]}
                           /\ \A e \in t : e.at < n
<1> DEFINE S == {e.at : e \in t} \cup {0}
<1>1. PICK b \in Nat : \A e \in t : e.at <= b
  BY DEF Bounded
<1>2. S \in SUBSET Nat /\ S # {} /\ \A x \in S : x <= b
  BY <1>1 DEF Entry
<1>3. Max(S) \in S /\ \A y \in S : y <= Max(S)
  <2> HIDE DEF S
  <2> QED
    BY <1>2, MaxOf
<1>4. Max(S) + 1 \in Nat /\ \A e \in t : e.at < Max(S) + 1
  <2>1. Max(S) \in Nat
    BY <1>2, <1>3
  <2>2. \A e \in t : e.at \in Nat /\ e.at <= Max(S)
    BY <1>3 DEF Entry
  <2> HIDE DEF S
  <2> QED
    BY <2>1, <2>2
<1> DEFINE n == Max(S) + 1
<1>5. Register(t, k, i) = t \cup {[key |-> k, info |-> i, at |-> n]}
  BY DEF Register
<1> HIDE DEF n
<1>6. n \in Nat /\ \A e \in t : e.at < n
  BY <1>4 DEF n
<1>7. \A e \in Register(t, k, i) : e.at <= n
  <2>1. \A e \in t : e.at \in Nat
    BY DEF Entry
  <2> QED
    BY <1>5, <1>6, <2>1
<1> QED
  BY <1>5, <1>6, <1>7 DEF Bounded, Entry

\* An entry is found if there is one.
LEMMA Fetched ==
  ASSUME NEW K, NEW t \in SUBSET Entry(K), NEW k
  PROVE  Fetch(t, k) = 0 \/ \E e \in t : e.key = k /\ e.info = Fetch(t, k)
<1>1. CASE Entries(t, k) = {}
  BY <1>1 DEF Fetch
<1>2. CASE Entries(t, k) # {}
  <2> DEFINE S == {e.at : e \in Entries(t, k)}
  <2>1. S \in SUBSET Nat /\ S # {}
    BY <1>2 DEF Entries, Entry
  <2>2. PICK n \in S : \A m \in S : ~ (<<m, n>> \in OpToRel(<, Nat))
    BY <2>1, NatLessThanWellFounded, WFMin
  <2>3. ASSUME NEW m \in S PROVE n <= m
    <3>1. m < n => <<m, n>> \in OpToRel(<, Nat)
      BY <2>1 DEF OpToRel
    <3>2. ~ (m < n) /\ m \in Nat /\ n \in Nat
      BY <2>1, <2>2, <3>1, Zenon
    <3> QED
      BY <3>2
  <2>4. \E e \in Entries(t, k) : \A f \in Entries(t, k) : e.at <= f.at
    BY <2>2, <2>3
  <2>5. \E e \in Entries(t, k) : Fetch(t, k) = e.info
    BY <1>2, <2>4 DEF Fetch
  <2> QED
    BY <2>5 DEF Entries
<1> QED
  BY <1>1, <1>2

\* Entries are removed, never made, by Unregister.
LEMMA Unregistered ==
  ASSUME NEW t, NEW keys
  PROVE  Unregister(t, keys) \subseteq t
BY DEF Unregister

LEMMA StaysBounded ==
  ASSUME NEW t, NEW s \in SUBSET t, Bounded(t)
  PROVE  Bounded(s)
BY DEF Bounded

-----------------------------------------------------------------------------
(* The selection.                                                          *)

\* The selection depends on the peers and the results of the routes it is made
\* among, and on nothing else.
LEMMA SelectionSame ==
  ASSUME Usable' = Usable,
         \A i \in Usable : info'[i].peer = info[i].peer /\ info'[i].result = info[i].result
  PROVE  BestOf(Usable)' = BestOf(Usable)
<1> DEFINE best == {i \in Usable : \A j \in Usable \ {i} : Better(info[i], info[j])}
           bestNow == {i \in Usable : \A j \in Usable \ {i} : Better(info'[i], info'[j])}
<1>1. \A i, j \in Usable : Better(info'[i], info'[j]) = Better(info[i], info[j])
  BY DEF Better
<1>2. bestNow = best
  BY <1>1
<1>3. BestOf(Usable) = IF best = {} THEN 0 ELSE CHOOSE i \in best : TRUE
  BY DEF BestOf
<1>4. BestOf(Usable)' = IF bestNow = {} THEN 0 ELSE CHOOSE i \in bestNow : TRUE
  BY DEF BestOf
<1> HIDE DEF best, bestNow
<1> QED
  BY <1>2, <1>3, <1>4

\* A usable route is selected, or none.
LEMMA SelectedIsUsable == BestOf(Usable) \in Usable \cup {0}
BY DEF BestOf

-----------------------------------------------------------------------------
(* Steps that leave the tables alone.                                      *)

SameName(r, s) ==
  /\ r.peer = s.peer /\ r.own = s.own
  /\ r.updateID = s.updateID /\ r.localID = s.localID /\ r.hash = s.hash

\* What relates routes and tables depends on the names of the routes only.
LEMMA SameNames ==
  ASSUME RoutesEntered,
         Live' = Live, \A i \in Live : SameName(info'[i], info[i]),
         UNCHANGED <<lids, uids, made, lid, crossed>>
  PROVE  /\ RoutesEntered' /\ FittingRequest' = FittingRequest
         /\ FittingNotice' = FittingNotice /\ FittingPacket' = FittingPacket
<1>1. RoutesHaveOneID' /\ RoutesDiffer'
  BY DEF RoutesEntered, RoutesHaveOneID, RoutesDiffer, SameName
<1>2. LocalEntries'
  BY DEF RoutesEntered, LocalEntries, SameName
<1>3. UpdateEntries'
  BY DEF RoutesEntered, UpdateEntries, SameName
<1>4. BoundToOwnUpdate' /\ EntriesAreLive'
  BY DEF RoutesEntered, BoundToOwnUpdate, EntriesAreLive, SameName
<1>5. ASSUME NEW m PROVE Fits(m)' <=> Fits(m)
  BY DEF Fits, SameName
<1> QED
  BY <1>1, <1>2, <1>3, <1>4, <1>5 DEF RoutesEntered, FittingRequest, FittingNotice, FittingPacket

\* A request for a route fits it.
LEMMA VerifyFits ==
  ASSUME RoutesEntered, TypeOK, NEW i \in Live
  PROVE  Verify(info[i]) \in FittingRequest
<1>1. info[i] \in Route
  BY DEF TypeOK, Live
<1>2. Verify(info[i]) \in Request
  BY <1>1 DEF Verify, Request, Route
<1>3. info[i].localID # 0 => Fits(Verify(info[i]))
  BY DEF RoutesEntered, RoutesHaveOneID, RoutesDiffer, LocalEntries, Fits, Verify
<1> QED
  BY <1>2, <1>3 DEF FittingRequest, Verify

\* What the server receives is sent, and it receives it if it is connected.
LEMMA Sent ==
  ASSUME NEW R, toServer \in Seq(R), NEW ms \in Seq(R), SendToServer(ms)
  PROVE  toServer' \in Seq(R)
BY ConcatProperties DEF SendToServer

LEMMA QueueTypes ==
  ASSUME PacketsFit'
  PROVE  /\ toServer' \in Seq(Request) /\ toRouter' \in Seq(Packet)
         /\ sendQueue' \in Seq(Notification)
<1>1. FittingRequest' \subseteq Request /\ FittingNotice' \subseteq Notification
      /\ FittingPacket' \subseteq Packet
  BY DEF FittingRequest, FittingNotice, FittingPacket, Packet
<1> QED
  BY <1>1, SeqMonotonic DEF PacketsFit

-----------------------------------------------------------------------------
(* Steps of the server and of the connection.                              *)

\* Steps that leave the routes alone.
LEMMA RibSame ==
  ASSUME IInv, UNCHANGED <<rib, updates, crossed>>, up' \in {up, FALSE},
         toServer' \in Seq(FittingRequest), toRouter' \in Seq(FittingPacket),
         sendQueue' \in Seq(FittingNotice),
         known' \in [Uid -> Result \cup {None}], connected' \in BOOLEAN,
         registered' \subseteq Uid, queued' \subseteq Uid, events' \in 0 .. MaxEvents
  PROVE  IInv'
<1>1. Live' = Live /\ Usable' = Usable
  BY DEF rib, Live, Usable
<1>2. /\ RoutesEntered' /\ FittingRequest' = FittingRequest
      /\ FittingNotice' = FittingNotice /\ FittingPacket' = FittingPacket
  BY <1>1, SameNames DEF IInv, rib, SameName
<1>3. PacketsFit'
  BY <1>2 DEF PacketsFit
<1>4. toServer' \in Seq(Request) /\ toRouter' \in Seq(Packet) /\ sendQueue' \in Seq(Notification)
  BY <1>3, QueueTypes
<1>5. TypeOK'
  BY <1>1, <1>4 DEF IInv, Typed, TypeOK, rib, Request, Packet
<1>6. Typed'
  BY <1>5 DEF IInv, Typed, rib
<1>7. IgnoredByResult'
  BY <1>1 DEF IInv, IgnoredByResult, rib
<1>8. SelectionCurrent'
  BY <1>1, SelectionSame DEF IInv, SelectionCurrent, rib
<1> QED
  BY <1>2, <1>3, <1>6, <1>7, <1>8 DEF IInv

\* Types of what the steps of the server use.
LEMMA ServerTypes ==
  ASSUME IInv
  PROVE  /\ toServer \in Seq(FittingRequest) /\ toRouter \in Seq(FittingPacket)
         /\ sendQueue \in Seq(FittingNotice)
         /\ known \in [Uid -> Result \cup {None}] /\ connected \in BOOLEAN
         /\ registered \subseteq Uid /\ queued \subseteq Uid /\ events \in 0 .. MaxEvents
         /\ MaxEvents \in Nat
BY RouterAssumption DEF IInv, Typed, TypeOK, PacketsFit

LEMMA ProcessRequestStep ==
  ASSUME IInv, processValidationRequest
  PROVE  IInv'
<1> DEFINE m == Head(toServer)
           r == IF known[m.uid] = None THEN m.default ELSE known[m.uid]
<1>1. m \in FittingRequest /\ toServer' \in Seq(FittingRequest)
  BY ServerTypes, HeadTailProperties DEF processValidationRequest
<1>2. m \in [type : {"VERIFY"}, lid : Lid \cup {0}, uid : Uid, default : Result] /\ m.type = "VERIFY"
  BY <1>1 DEF processValidationRequest, FittingRequest, Request
<1>3. r \in Result
  BY <1>2, ServerTypes
<1>4. known' \in [Uid -> Result \cup {None}]
  <2>1. "UNDEFINED" \in Result
    BY DEF Result
  <2> QED
    BY <1>2, <2>1, ServerTypes DEF processValidationRequest
<1>5. registered' \subseteq Uid /\ queued' \subseteq Uid
  BY <1>2, ServerTypes DEF processValidationRequest
<1>6. sendQueue' \in Seq(FittingNotice)
  <2> DEFINE n == Notice(m.lid, m.uid, r)
  <2>1. n \in Notification
    BY <1>2, <1>3 DEF Notice, Notification
  <2>2. m.lid # 0 => Fits(m)
    BY <1>1, <1>2 DEF FittingRequest
  <2>3. n \in FittingNotice
    BY <2>1, <2>2 DEF FittingNotice, Notice, Fits
  <2>4. sendQueue' = sendQueue \/ sendQueue' = Append(sendQueue, n)
    BY DEF processValidationRequest
  <2> HIDE DEF n
  <2>5. sendQueue \in Seq(FittingNotice)
    BY ServerTypes
  <2>6. Append(sendQueue, n) \in Seq(FittingNotice)
    BY <2>3, <2>5, AppendProperties
  <2> QED
    BY <2>4, <2>5, <2>6
<1> QED
  BY <1>1, <1>4, <1>5, <1>6, ServerTypes, RibSame DEF processValidationRequest, history

LEMMA SendAnswerStep ==
  ASSUME IInv, sendQueueThreadLoop
  PROVE  IInv'
<1>1. Head(sendQueue) \in FittingNotice /\ sendQueue' \in Seq(FittingNotice)
  BY ServerTypes, HeadTailProperties DEF sendQueueThreadLoop
<1>2. Head(sendQueue) \in FittingPacket
  BY <1>1 DEF FittingPacket
<1>3. toRouter' \in Seq(FittingPacket)
  BY <1>2, ServerTypes, AppendProperties DEF sendQueueThreadLoop
<1> QED
  BY <1>1, <1>3, ServerTypes, RibSame DEF sendQueueThreadLoop, history

LEMMA DeleteRequestStep ==
  ASSUME IInv, deleteUpdateFromCache
  PROVE  IInv'
<1>1. toServer' \in Seq(FittingRequest)
  BY ServerTypes, HeadTailProperties DEF deleteUpdateFromCache
<1>2. registered' \subseteq Uid
  BY ServerTypes DEF deleteUpdateFromCache
<1> QED
  BY <1>1, <1>2, ServerTypes, RibSame DEF deleteUpdateFromCache, history

\* A notification without a local ID fits.
LEMMA BroadcastFits ==
  ASSUME IInv, NEW u \in Uid, NEW r \in Result, Broadcast(u, r)
  PROVE  toRouter' \in Seq(FittingPacket)
<1> DEFINE n == Notice(0, u, r)
<1>1. n \in FittingPacket
  BY DEF FittingPacket, FittingNotice, Notification, Notice
<1>2. toRouter' = toRouter \/ toRouter' = Append(toRouter, n)
  BY DEF Broadcast
<1> HIDE DEF n
<1>3. toRouter \in Seq(FittingPacket)
  BY ServerTypes
<1>4. Append(toRouter, n) \in Seq(FittingPacket)
  BY <1>1, <1>3, AppendProperties
<1> QED
  BY <1>2, <1>3, <1>4

LEMMA ValidateStep ==
  ASSUME IInv, NEW u \in Uid, Validate(u)
  PROVE  IInv'
<1>1. Outcome[u] \subseteq Result /\ "UNDEFINED" \in Result
  BY RouterAssumption DEF Result
<1>2. known' \in [Uid -> Result \cup {None}]
  BY <1>1, ServerTypes DEF Validate
<1>3. toRouter' \in Seq(FittingPacket)
  <2>1. CASE known[u] = "UNDEFINED"
    BY <1>1, <2>1, BroadcastFits DEF Validate
  <2>2. CASE known[u] # "UNDEFINED"
    BY <2>2, ServerTypes DEF Validate
  <2> QED
    BY <2>1, <2>2
<1> QED
  BY <1>2, <1>3, ServerTypes, RibSame DEF Validate

LEMMA ChangeResultStep ==
  ASSUME IInv, NEW u \in Uid, ChangeResult(u)
  PROVE  IInv'
<1>1. PICK r \in {"VALID", "INVALID"} : known' = [known EXCEPT ![u] = r] /\ Broadcast(u, r)
  BY DEF ChangeResult
<1>2. known' \in [Uid -> Result \cup {None}]
  BY <1>1, ServerTypes DEF Result
<1>3. toRouter' \in Seq(FittingPacket)
  BY <1>1, BroadcastFits DEF Result
<1>4. events' \in 0 .. MaxEvents
  BY ServerTypes DEF ChangeResult
<1> QED
  BY <1>2, <1>3, <1>4, ServerTypes, RibSame DEF ChangeResult

LEMMA DisconnectStep ==
  ASSUME IInv, Disconnect
  PROVE  IInv'
<1>1. events' \in 0 .. MaxEvents
  BY ServerTypes DEF Disconnect
<1>2. /\ toServer' \in Seq(FittingRequest) /\ toRouter' \in Seq(FittingPacket)
      /\ sendQueue' \in Seq(FittingNotice)
  BY EmptySeq DEF Disconnect
<1> QED
  BY <1>1, <1>2, ServerTypes, RibSame DEF Disconnect

LEMMA ReconnectStep ==
  ASSUME IInv, checkClientConnection
  PROVE  IInv'
<1>1. [type |-> "SYNC"] \in FittingPacket
  BY DEF FittingPacket
<1>2. toRouter' \in Seq(FittingPacket)
  <2> DEFINE n == [type |-> "SYNC"]
  <2> HIDE DEF n
  <2>1. <<n>> \in Seq(FittingPacket)
    BY <1>1 DEF n
  <2> QED
    BY <2>1 DEF checkClientConnection, n
<1> QED
  BY <1>2, ServerTypes, RibSame DEF checkClientConnection, server, history

LEMMA SynchroniseStep ==
  ASSUME IInv, handleSRxSynchRequest
  PROVE  IInv'
<1>1. toRouter' \in Seq(FittingPacket)
  BY ServerTypes, HeadTailProperties DEF handleSRxSynchRequest
<1>2. toServer' \in Seq(FittingRequest)
  <2>1. CASE Live = {}
    BY <2>1, ServerTypes DEF handleSRxSynchRequest
  <2>2. CASE Live # {}
    <3>1. PICK i \in Live : SendToServer(<<Verify(info[i])>>)
      BY <2>2 DEF handleSRxSynchRequest
    <3>2. Verify(info[i]) \in FittingRequest
      BY VerifyFits DEF IInv, Typed
    <3>3. <<Verify(info[i])>> \in Seq(FittingRequest)
      BY <3>2
    <3> QED
      BY <3>1, <3>3, Sent, ServerTypes
  <2> QED
    BY <2>1, <2>2
<1> QED
  BY <1>1, <1>2, ServerTypes, RibSame DEF handleSRxSynchRequest, server

-----------------------------------------------------------------------------
(* Steps of the router.                                                    *)

LEMMA RouterTypes ==
  ASSUME IInv
  PROVE  /\ info \in [Id -> Route \cup {None}]
         /\ \A i \in Live : i \in Id /\ i \in Nat /\ i # 0 /\ info[i] \in Route
         /\ selected \in Live \cup {0} /\ scheduled \in BOOLEAN /\ up \in BOOLEAN
         /\ lids \in SUBSET Entry(Lid) /\ uids \in SUBSET Entry(Uid)
         /\ Bounded(lids) /\ Bounded(uids)
         /\ MaxUpdates \in Nat /\ updates \in Nat /\ updates <= MaxUpdates
         /\ made \in Nat /\ lid \in Nat /\ made <= updates /\ lid <= updates
         /\ None \notin Route
<1>1. MaxUpdates \in Nat /\ None \notin Route
  BY RouterAssumption
<1>2. \A i \in Live : i \in Id /\ i \in Nat /\ i # 0 /\ info[i] \in Route
  BY <1>1 DEF IInv, Typed, TypeOK, Live, Id
<1> QED
  BY <1>1, <1>2 DEF IInv, Typed, TypeOK, Entry

\* A route that is withdrawn, or gets a result, keeps its name.
LEMMA RouteSet ==
  ASSUME IInv, NEW i \in Live, NEW r \in Route, SameName(r, info[i]),
         r.ignore = (r.result \in Ignored),
         info' = [info EXCEPT ![i] = r], scheduled' \in BOOLEAN, up' \in BOOLEAN,
         SelectionCurrent',
         UNCHANGED <<selected, lids, uids, made, lid, connected, server, events, crossed>>,
         updates' \in updates .. MaxUpdates,
         toServer' \in Seq(FittingRequest), toRouter' \in Seq(FittingPacket)
  PROVE  IInv'
<1>1. Live' = Live
  BY RouterTypes DEF Live
<1>2. \A j \in Live : SameName(info'[j], info[j])
  BY RouterTypes DEF SameName
<1>3. /\ RoutesEntered' /\ FittingRequest' = FittingRequest
      /\ FittingNotice' = FittingNotice /\ FittingPacket' = FittingPacket
  BY <1>1, <1>2, SameNames DEF IInv
<1>4. PacketsFit'
  BY <1>3, ServerTypes DEF PacketsFit, server
<1>5. toServer' \in Seq(Request) /\ toRouter' \in Seq(Packet) /\ sendQueue' \in Seq(Notification)
  BY <1>4, QueueTypes
<1>6. info' \in [Id -> Route \cup {None}]
  BY RouterTypes
<1>7. TypeOK'
  BY <1>1, <1>5, <1>6, RouterTypes DEF IInv, Typed, TypeOK, server, Request, Packet
<1>8. Typed'
  BY <1>7, RouterTypes DEF IInv, Typed
<1>9. IgnoredByResult'
  BY <1>1, RouterTypes DEF IInv, IgnoredByResult
<1> QED
  BY <1>3, <1>4, <1>8, <1>9 DEF IInv

LEMMA WithdrawStep ==
  ASSUME IInv, NEW p \in Peer, Withdraw(p)
  PROVE  IInv'
<1>1. PICK i \in RouteOf(p) : info' = [info EXCEPT ![i].removed = TRUE]
  BY DEF Withdraw
<1>2. i \in Live /\ info[i] \in Route
  BY RouterTypes DEF RouteOf
<1> DEFINE r == [info[i] EXCEPT !.removed = TRUE]
<1>3. r \in Route /\ SameName(r, info[i]) /\ r.ignore = (r.result \in Ignored)
  BY <1>2 DEF Route, SameName, IInv, IgnoredByResult
<1>4. info' = [info EXCEPT ![i] = r]
  BY <1>1
<1> HIDE DEF r
<1>5. SelectionCurrent'
  BY DEF Withdraw, SelectionCurrent
<1>6. updates' \in updates .. MaxUpdates
  BY RouterTypes DEF Withdraw
<1> QED
  BY <1>2, <1>3, <1>4, <1>5, <1>6, RouterTypes, ServerTypes, RouteSet DEF Withdraw, history

LEMMA ResultOfRoute ==
  ASSUME NEW route \in Route, NEW r \in Result
  PROVE  LET s == WithResult(route, r)
         IN /\ s \in Route /\ s.result = r /\ s.ignore = (r \in Ignored)
            /\ s.removed = route.removed /\ SameName(s, route)
<1> DEFINE b == r \in Ignored
           s == WithResult(route, r)
           t == [route EXCEPT !.result = r]
<1>1. t \in Route /\ t.result = r /\ t.removed = route.removed /\ SameName(t, route)
  BY DEF Route, SameName
<1>2. s = [t EXCEPT !.ignore = b]
  BY DEF Route, WithResult
<1>3. b \in BOOLEAN
  OBVIOUS
<1> HIDE DEF b, s, t
<1>4. s \in Route /\ s.ignore = b /\ s.result = t.result /\ s.removed = t.removed
      /\ SameName(s, t)
  BY <1>1, <1>2, <1>3 DEF Route, SameName
<1> QED
  BY <1>1, <1>4 DEF SameName, b, s

\* A result schedules a selection if it can matter to it.
LEMMA SetResultStep ==
  ASSUME IInv, NEW i \in Live, NEW r \in Result, NEW route \in Route,
         route.result = info[i].result, route.ignore = info[i].ignore,
         route.peer = info[i].peer, route.removed = info[i].removed,
         SetResult(i, r, route), UNCHANGED <<selected, up>>
  PROVE  /\ scheduled' \in BOOLEAN /\ SelectionCurrent' /\ IgnoredByResult' /\ Live' = Live
         /\ WithResult(route, r) \in Route
         /\ info' = [info EXCEPT ![i] = WithResult(route, r)]
<1> DEFINE s == WithResult(route, r)
<1>1. s \in Route /\ s.result = r /\ s.ignore = (r \in Ignored)
      /\ s.peer = route.peer /\ s.removed = route.removed
  BY ResultOfRoute DEF SameName
<1>2. info' = [info EXCEPT ![i] = s] /\ s # None
  BY <1>1, RouterTypes DEF SetResult
<1>3. scheduled' \in BOOLEAN
  BY DEF SetResult
<1> HIDE DEF s
<1>4. Live' = Live /\ \A j \in Live : info'[j] = IF j = i THEN s ELSE info[j]
  BY <1>2, RouterTypes DEF Live
<1>5. IgnoredByResult'
  BY <1>1, <1>4 DEF IInv, IgnoredByResult
<1>6. SelectionCurrent'
  <2> SUFFICES ASSUME ~scheduled', up' PROVE selected' = BestOf(Usable)'
    BY DEF SelectionCurrent
  <2>1. ~scheduled /\ r = route.result /\ (r \in Ignored) = route.ignore
    BY RouterTypes DEF SetResult, Route
  <2>2. Usable' = Usable
    BY <1>1, <1>4, <2>1 DEF Usable
  <2>3. \A j \in Usable : info'[j].peer = info[j].peer /\ info'[j].result = info[j].result
    BY <1>1, <1>4, <2>1 DEF Usable
  <2> QED
    BY <2>1, <2>2, <2>3, SelectionSame DEF IInv, SelectionCurrent
<1> QED
  BY <1>1, <1>2, <1>3, <1>4, <1>5, <1>6 DEF s

\* A later result.
LEMMA UpdateStep ==
  ASSUME IInv, NEW i \in Live, NEW m, m.result \in Result, Update(i, m),
         UNCHANGED <<selected, made, lid, updates, connected, events, server, crossed>>,
         toRouter' \in Seq(FittingPacket)
  PROVE  IInv'
<1>1. info[i] \in Route
  BY RouterTypes
<1> DEFINE r == WithResult(info[i], m.result)
<1>2. SetResult(i, m.result, info[i]) /\ UNCHANGED <<up, lids, uids, toServer>>
  BY DEF Update
<1>3. scheduled' \in BOOLEAN /\ SelectionCurrent' /\ r \in Route /\ info' = [info EXCEPT ![i] = r]
  BY <1>1, <1>2, SetResultStep
<1>4. SameName(r, info[i]) /\ r.ignore = (r.result \in Ignored)
  BY <1>1, ResultOfRoute
<1> HIDE DEF r
<1>5. updates' \in updates .. MaxUpdates /\ up' \in BOOLEAN
  BY <1>2, RouterTypes
<1> QED
  BY <1>2, <1>3, <1>4, <1>5, ServerTypes, RouteSet

\* The first answer moves a route from one table to the other.
LEMMA BindStep ==
  ASSUME IInv, NEW m \in FittingPacket, m.type = "NOTIFY", m.lid # 0,
         NEW e \in lids, e.key = m.lid, e.info \in Live, Bind(e.info, m),
         UNCHANGED <<selected, made, lid, updates, connected, events, server, crossed>>,
         toRouter' \in Seq(FittingPacket)
  PROVE  IInv'
<1> DEFINE i == e.info
           route == [info[i] EXCEPT !.updateID = m.uid, !.localID = 0, !.hash = "uid"]
           r == WithResult(route, m.result)
<1>1. m.uid \in Uid /\ m.uid # 0 /\ m.result \in Result /\ Fits(m) /\ m.lid \in Lid
  BY RouterAssumption DEF FittingPacket, FittingNotice, Notification
<1>2. i \in Live /\ i \in Id /\ info[i] \in Route
  BY RouterTypes
<1>3. /\ route \in Route /\ route.updateID = m.uid /\ route.localID = 0 /\ route.hash = "uid"
      /\ route.peer = info[i].peer /\ route.own = info[i].own
      /\ route.result = info[i].result /\ route.ignore = info[i].ignore
      /\ route.removed = info[i].removed
  BY <1>1, <1>2 DEF Route
<1>4. /\ SetResult(i, m.result, route)
      /\ uids' = Register(uids, m.uid, i) /\ lids' = Unregister(lids, {m.lid})
      /\ UNCHANGED <<toServer, up>>
  BY DEF Bind, SetTables
<1> HIDE DEF route
<1>5. /\ scheduled' \in BOOLEAN /\ SelectionCurrent' /\ IgnoredByResult' /\ Live' = Live
      /\ r \in Route /\ info' = [info EXCEPT ![i] = r]
  BY <1>1, <1>2, <1>3, <1>4, SetResultStep
<1>6. /\ r.updateID = m.uid /\ r.localID = 0 /\ r.hash = "uid"
      /\ r.peer = info[i].peer /\ r.own = info[i].own
  BY <1>1, <1>3, ResultOfRoute DEF SameName
<1> HIDE DEF r
<1>7. \A j \in Live : info'[j] = IF j = i THEN r ELSE info[j]
  BY <1>5, RouterTypes
<1>8. lids' = lids \ {e}
  BY <1>4, RouterTypes DEF Unregister, IInv, RoutesEntered, LocalEntries, Entry
<1>9. /\ uids' \in SUBSET Entry(Uid) /\ Bounded(uids')
      /\ \E n \in Nat : /\ uids' = uids \cup {[key |-> m.uid, info |-> i, at |-> n]}
                        /\ \A f \in uids : f.at < n
  <2>1. uids \in SUBSET Entry(Uid) /\ Bounded(uids)
    BY RouterTypes
  <2> HIDE DEF i
  <2>2. m.uid \in Uid /\ i \in Id
    BY <1>1, <1>2
  <2> DEFINE t == Register(uids, m.uid, i)
  <2>3. t \in SUBSET Entry(Uid) /\ Bounded(t)
    BY <2>1, <2>2, Registered, Zenon
  <2>4. \E n \in Nat : /\ t = uids \cup {[key |-> m.uid, info |-> i, at |-> n]}
                       /\ \A f \in uids : f.at < n
    BY <2>1, <2>2, Registered, ZenonT(30)
  <2> QED
    BY <1>4, <2>3, <2>4, Zenon
<1>10. PICK n \in Nat : /\ uids' = uids \cup {[key |-> m.uid, info |-> i, at |-> n]}
                        /\ \A f \in uids : f.at < n
  BY <1>9
<1> HIDE DEF i
<1>11. RoutesHaveOneID'
  BY RouterTypes, <1>1, <1>5, <1>6, <1>7 DEF IInv, RoutesEntered, RoutesHaveOneID
<1>12. RoutesDiffer'
  BY <1>5, <1>6, <1>7 DEF IInv, RoutesEntered, RoutesDiffer
<1>13. LocalEntries'
  <2>1. \A f \in lids : f.key # 0
    BY RouterTypes DEF Entry, Lid
  <2>2. \A f \in lids' : f.info = i => i \in crossed
    BY <1>2, <1>8 DEF IInv, RoutesEntered, LocalEntries, i
  <2> QED
    BY <1>5, <1>6, <1>7, <1>8, <2>1, <2>2 DEF IInv, RoutesEntered, LocalEntries
<1> DEFINE e1 == [key |-> m.uid, info |-> i, at |-> n]
<1>14. UpdateEntries'
  <2>1. ASSUME NEW f \in uids PROVE f.info # i \/ i \in crossed
    <3>1. f.key # 0
      BY RouterTypes, RouterAssumption DEF Entry
    <3>2. info[i].localID # 0 \/ i \in crossed
      BY <1>1, <1>2 DEF IInv, RoutesEntered, LocalEntries, i
    <3> QED
      BY <1>2, <3>1, <3>2 DEF IInv, RoutesEntered, UpdateEntries, RoutesHaveOneID
  <2>2. ASSUME NEW f \in uids, f.info \in Live \ crossed, f.info # i PROVE f.key # m.uid
    <3>1. m.uid \in UidOf[info[i].peer]
      BY <1>1, <1>2 DEF Fits, i
    <3>2. f.key \in UidOf[info[f.info].peer]
      <4>1. f.key = info[f.info].updateID /\ f.key # 0
        BY <2>2, RouterTypes, RouterAssumption DEF IInv, RoutesEntered, UpdateEntries, Entry
      <4> QED
        BY <2>2, <4>1 DEF IInv, RoutesEntered, BoundToOwnUpdate, RoutesHaveOneID
    <3>3. info[i].peer # info[f.info].peer
      BY <1>2, <2>2 DEF IInv, RoutesEntered, RoutesDiffer
    <3>4. info[i].peer \in Peer /\ info[f.info].peer \in Peer
      BY <1>2, <2>2, RouterTypes DEF Route
    <3> QED
      BY <3>1, <3>2, <3>3, <3>4, RouterAssumption
  <2>3. i <= made
    BY <1>2 DEF IInv, RoutesEntered, RoutesHaveOneID
  <2>4. \A f \in uids : f.at \in Nat
    BY RouterTypes DEF Entry
  <2>5. uids' = uids \cup {e1} /\ e1.key = m.uid /\ e1.info = i /\ e1.at = n
    BY <1>10
  <2> HIDE DEF e1
  <2>6. ASSUME NEW f \in uids'
        PROVE  f.info <= made /\ (f.info \in Live \ crossed => info'[f.info].updateID = f.key)
    BY <1>6, <1>7, <2>1, <2>3, <2>5 DEF IInv, RoutesEntered, UpdateEntries
  <2>7. ASSUME NEW f \in uids', f.info \in Live \ crossed,
               NEW g \in uids', g.key = f.key, g # f
        PROVE  g.at < f.at
    BY <1>10, <2>1, <2>2, <2>5, <2>7 DEF IInv, RoutesEntered, UpdateEntries
  <2> QED
    BY <1>5, <2>6, <2>7 DEF UpdateEntries
<1>15. BoundToOwnUpdate'
  <2>1. i \in crossed \/ m.uid = info[i].own
    BY <1>1, <1>2 DEF IInv, RoutesEntered, LocalEntries, Fits, i
  <2> QED
    BY <1>5, <1>6, <1>7, <2>1 DEF IInv, RoutesEntered, BoundToOwnUpdate
<1>16. EntriesAreLive'
  BY <1>2, <1>5, <1>8, <1>10 DEF IInv, RoutesEntered, EntriesAreLive
<1>17. ASSUME NEW k, Fits(k), k.lid # 0 PROVE Fits(k)'
  BY <1>5, <1>6, <1>7, <1>8, <1>17 DEF Fits
<1>18. PacketsFit'
  <2>1. FittingRequest \subseteq FittingRequest' /\ FittingNotice \subseteq FittingNotice'
    BY <1>17 DEF FittingRequest, FittingNotice
  <2>2. FittingPacket \subseteq FittingPacket'
    BY <2>1 DEF FittingPacket
  <2>3. sendQueue' = sendQueue /\ toServer' = toServer
    BY <1>4 DEF server
  <2> QED
    BY <2>1, <2>2, <2>3, SeqMonotonic, ServerTypes DEF PacketsFit
<1>19. Typed'
  <2>1. info' \in [Id -> Route \cup {None}]
    BY <1>5, RouterTypes
  <2>2. lids' \in SUBSET Entry(Lid) /\ Bounded(lids')
    BY <1>8, RouterTypes, StaysBounded
  <2>3. toServer' \in Seq(Request) /\ toRouter' \in Seq(Packet) /\ sendQueue' \in Seq(Notification)
    BY <1>18, QueueTypes
  <2>4. TypeOK'
    BY <1>4, <1>5, <1>9, <2>1, <2>2, <2>3
    DEF IInv, Typed, TypeOK, Entry, Request, Packet, server
  <2> QED
    BY <1>4, <1>9, <2>2, <2>4, RouterTypes DEF Typed
<1> QED
  BY <1>5, <1>11, <1>12, <1>13, <1>14, <1>15, <1>16, <1>18, <1>19 DEF IInv, RoutesEntered

LEMMA ResultStep ==
  ASSUME IInv, handleSRxValidationResult
  PROVE  IInv'
<1> DEFINE m == Head(toRouter)
           i == IF m.lid # 0 THEN Fetch(lids, m.lid) ELSE Fetch(uids, m.uid)
<1>1. m \in FittingPacket /\ toRouter' \in Seq(FittingPacket)
  BY ServerTypes, HeadTailProperties DEF handleSRxValidationResult
<1>2. /\ m.type = "NOTIFY"
      /\ UNCHANGED <<selected, made, lid, updates, connected, events, server, crossed>>
      /\ IF i = 0 THEN Refuse(m)
         ELSE IF i \notin Live THEN WriteToFreed
         ELSE IF m.lid # 0 THEN Bind(i, m) ELSE Update(i, m)
  BY DEF handleSRxValidationResult
<1>3. m.uid \in Uid /\ m.result \in Result
  BY <1>1, <1>2 DEF FittingPacket, FittingNotice, Notification
<1> HIDE DEF m
<1>4. CASE i = 0
  <2>1. <<Delete(m.uid)>> \in Seq(FittingRequest)
    BY <1>3 DEF FittingRequest, Request, Delete
  <2>2. Refuse(m)
    BY <1>2, <1>4
  <2>3. toServer' \in Seq(FittingRequest)
    BY <2>1, <2>2, Sent, ServerTypes DEF Refuse
  <2> QED
    BY <1>1, <1>2, <2>2, <2>3, ServerTypes, RibSame DEF Refuse, rib, server
<1>5. CASE i # 0 /\ i \notin Live
  <2>1. WriteToFreed
    BY <1>2, <1>5
  <2> QED
    BY <1>1, <1>2, <2>1, ServerTypes, RibSame DEF WriteToFreed, rib, server
<1>6. CASE i \in Live /\ i # 0 /\ m.lid # 0
  <2>1. Bind(i, m)
    BY <1>2, <1>6
  <2>2. PICK e \in lids : e.key = m.lid /\ e.info = i
    <3>1. Fetch(lids, m.lid) # 0
      BY <1>6
    <3>2. \E e \in lids : e.key = m.lid /\ e.info = Fetch(lids, m.lid)
      BY <3>1, RouterTypes, Fetched
    <3> QED
      BY <1>6, <3>2
  <2>3. Bind(e.info, m) /\ e.info \in Live
    BY <1>6, <2>1, <2>2
  <2> HIDE DEF i
  <2> QED
    BY <1>1, <1>2, <1>6, <2>2, <2>3, BindStep
<1>7. CASE i \in Live /\ i # 0 /\ m.lid = 0
  <2>1. Update(i, m)
    BY <1>2, <1>7
  <2> HIDE DEF i
  <2> QED
    BY <1>1, <1>2, <1>3, <1>7, <2>1, UpdateStep
<1> QED
  BY <1>4, <1>5, <1>6, <1>7

\* The route of an announcement.
LEMMA NewRouteType ==
  ASSUME NEW p \in Peer, NEW u \in UidOf[p], NEW l \in Lid
  PROVE  LET r == NewRoute(p, u, l)
         IN /\ r \in Route /\ r.peer = p /\ r.own = u /\ r.updateID = 0
            /\ r.localID = l /\ r.hash = "lid" /\ r.ignore = (r.result \in Ignored)
<1> DEFINE b == "UNDEFINED" \in Ignored
           r == NewRoute(p, u, l)
<1>1. b \in BOOLEAN /\ u \in Uid /\ "UNDEFINED" \in Result
  BY DEF Uid, Result
<1>2. r = [peer |-> p, own |-> u, updateID |-> 0, localID |-> l, hash |-> "lid",
           result |-> "UNDEFINED", ignore |-> b, removed |-> FALSE]
  BY DEF NewRoute
<1> HIDE DEF b, r
<1>3. r \in Route /\ r.peer = p /\ r.own = u /\ r.updateID = 0
      /\ r.localID = l /\ r.hash = "lid" /\ r.result = "UNDEFINED" /\ r.ignore = b
  BY <1>1, <1>2 DEF Route
<1> QED
  BY <1>3 DEF r, b

\* A route is announced under a new local ID: a new one, or one that no entry of
\* the tables points to unless it was replaced while it waited.
LEMMA AnnouncedStep ==
  ASSUME IInv, NEW p \in Peer, NEW u \in UidOf[p], NEW i \in Id,
         updates < MaxUpdates, updates' = updates + 1,
         made' \in {made, made + 1}, i <= made', lid' = lid + 1,
         \A j \in Live : info[j].peer = p <=> j = i,
         info' = [info EXCEPT ![i] = NewRoute(p, u, lid + 1)],
         lids' = Register(lids, lid + 1, i), uids' \subseteq uids,
         crossed \subseteq crossed',
         \A e \in lids \cup uids' : e.info = i => i \in Live \cap crossed',
         toServer' \in Seq(FittingRequest \cup {Verify(NewRoute(p, u, lid + 1))}),
         scheduled' = TRUE, UNCHANGED <<selected, up, connected, toRouter, events, server>>
  PROVE  IInv'
<1> DEFINE r == NewRoute(p, u, lid + 1)
<1>1. lid + 1 \in Lid /\ lid \in Nat /\ made \in Nat /\ lid' \in Nat /\ made' \in Nat
      /\ made' <= updates' /\ lid' <= updates' /\ updates' \in 0 .. MaxUpdates
  BY RouterTypes DEF Lid
<1>2. /\ r \in Route /\ r # None /\ r.peer = p /\ r.own = u /\ r.updateID = 0
      /\ r.localID = lid + 1 /\ r.hash = "lid" /\ r.ignore = (r.result \in Ignored)
  BY <1>1, NewRouteType, RouterTypes
<1>3. Verify(r) = [type |-> "VERIFY", lid |-> lid + 1, uid |-> u, default |-> r.result]
  BY <1>2 DEF Verify
<1>4. toServer' \in Seq(FittingRequest \cup {Verify(r)}) /\ info' = [info EXCEPT ![i] = r]
  OBVIOUS
<1> HIDE DEF r
<1>5. info' \in [Id -> Route \cup {None}]
  BY <1>2, <1>4, RouterTypes
<1>6. Live' = Live \cup {i} /\ i \in Live'
      /\ \A j \in Live' : info'[j] = IF j = i THEN r ELSE info[j]
  BY <1>2, <1>4, RouterTypes DEF Live
<1>7. /\ lids' \in SUBSET Entry(Lid) /\ Bounded(lids')
      /\ \E n \in Nat : lids' = lids \cup {[key |-> lid + 1, info |-> i, at |-> n]}
  <2>1. lids \in SUBSET Entry(Lid) /\ Bounded(lids) /\ lid + 1 \in Lid
    BY <1>1, RouterTypes
  <2> DEFINE t == Register(lids, lid + 1, i)
  <2>2. t \in SUBSET Entry(Lid) /\ Bounded(t)
    BY <2>1, Registered, Zenon
  <2>3. \E n \in Nat : /\ t = lids \cup {[key |-> lid + 1, info |-> i, at |-> n]}
                       /\ \A f \in lids : f.at < n
    BY <2>1, Registered, Zenon
  <2> QED
    BY <2>2, <2>3
<1>8. PICK n \in Nat : lids' = lids \cup {[key |-> lid + 1, info |-> i, at |-> n]}
  BY <1>7
<1> DEFINE e1 == [key |-> lid + 1, info |-> i, at |-> n]
<1>9. lids' = lids \cup {e1} /\ e1.key = lid + 1 /\ e1.info = i
  BY <1>8
<1> HIDE DEF e1
<1>10. \A e \in lids : e.key \in Nat /\ e.key <= lid /\ e.key # lid + 1 /\ e.info \in Nat
                       /\ e.info <= made
  <2>1. \A e \in lids : e.key \in Nat /\ e.info \in Nat
    BY RouterTypes DEF Entry, Lid, Id
  <2>2. \A e \in lids : e.key <= lid /\ e.info <= made
    BY DEF IInv, RoutesEntered, LocalEntries
  <2>3. lid \in Nat
    BY RouterTypes
  <2> QED
    BY <2>1, <2>2, <2>3
<1>11. \A j \in Live : info[j].localID \in Nat /\ info[j].localID # lid + 1
  BY <1>1, RouterTypes DEF Route, Lid, IInv, RoutesEntered, RoutesHaveOneID
<1>12. RoutesHaveOneID'
  <2>1. ASSUME NEW j \in Live PROVE j <= made' /\ info[j].localID <= lid'
    BY <1>1, <1>11, RouterTypes DEF IInv, RoutesEntered, RoutesHaveOneID
  <2> QED
    BY <1>1, <1>2, <1>6, <2>1 DEF IInv, RoutesEntered, RoutesHaveOneID
<1>13. RoutesDiffer'
  BY <1>2, <1>6, <1>11 DEF IInv, RoutesEntered, RoutesDiffer
<1>14. LocalEntries'
  <2>1. \A e \in lids' : e.key <= lid' /\ e.info <= made'
    <3>1. i \in Nat
      BY DEF Id
    <3> QED
      BY <1>1, <1>9, <1>10, <3>1
  <2>2. \A e, f \in lids' : e.key = f.key => e = f
    BY <1>9, <1>10 DEF IInv, RoutesEntered, LocalEntries
  <2>3. \A e \in lids' : e.info \in Live' \ crossed' => info'[e.info].localID = e.key
    BY <1>2, <1>6, <1>9 DEF IInv, RoutesEntered, LocalEntries
  <2>4. \A e \in lids' : \A j \in Live' : info'[j].localID = e.key => e.info = j
    BY <1>2, <1>6, <1>9, <1>10, <1>11 DEF IInv, RoutesEntered, LocalEntries
  <2> QED
    BY <2>1, <2>2, <2>3, <2>4 DEF LocalEntries
<1>15. UpdateEntries'
  <2>1. \A e \in uids' : e.info <= made'
    BY <1>1, RouterTypes DEF Entry, Id, IInv, RoutesEntered, UpdateEntries
  <2> QED
    BY <1>6, <2>1 DEF IInv, RoutesEntered, UpdateEntries
<1>16. BoundToOwnUpdate' /\ EntriesAreLive'
  BY <1>2, <1>6, <1>9 DEF IInv, RoutesEntered, BoundToOwnUpdate, EntriesAreLive
<1>17. ASSUME NEW k, k.lid \in Lid, Fits(k) PROVE Fits(k)'
  <2>1. k.lid # lid + 1 /\ k.lid <= lid'
    BY <1>1, <1>17 DEF Fits, Lid
  <2>2. \A j \in Live' \ crossed' : info'[j].localID = k.lid => k.uid = info'[j].own
    BY <1>2, <1>6, <1>17, <2>1 DEF Fits
  <2>3. \A e \in lids' : e.key = k.lid /\ e.info \in Live' => k.uid \in UidOf[info'[e.info].peer]
    <3> SUFFICES ASSUME NEW e \in lids, e.key = k.lid, e.info \in Live'
                 PROVE  k.uid \in UidOf[info'[e.info].peer]
      BY <1>9, <2>1
    <3>1. e.info \in Live => k.uid \in UidOf[info[e.info].peer]
      BY <1>17 DEF Fits
    <3>2. e.info \in Live
      BY <1>6
    <3> QED
      BY <1>2, <1>6, <3>1, <3>2
  <2> QED
    BY <2>1, <2>2, <2>3 DEF Fits
<1>18. Verify(r) \in FittingRequest'
  <2>1. Verify(r) \in Request
    BY <1>1, <1>2, <1>3 DEF Request, Route
  <2>2. \A j \in Live' : info'[j].localID = lid + 1 => j = i
    BY <1>6, <1>11
  <2>3. \A e \in lids' : e.key = lid + 1 => e.info = i
    BY <1>9, <1>10
  <2>4. PICK k : k = Verify(r)
    OBVIOUS
  <2>5. Fits(k)'
    BY <1>1, <1>2, <1>3, <1>6, <2>2, <2>3, <2>4 DEF Fits
  <2>6. k \in FittingRequest'
    BY <2>1, <2>4, <2>5 DEF FittingRequest
  <2> QED
    BY <2>4, <2>6
<1>19. PacketsFit'
  <2>1. FittingRequest \subseteq FittingRequest'
    <3>1. ASSUME NEW k \in Request, k.type = "VERIFY", k.lid # 0 PROVE k.lid \in Lid
      BY <3>1 DEF Request
    <3> QED
      BY <1>17, <3>1 DEF FittingRequest
  <2>2. FittingNotice \subseteq FittingNotice' /\ FittingPacket \subseteq FittingPacket'
    <3>1. ASSUME NEW k \in Notification, k.lid # 0 PROVE k.lid \in Lid
      BY <3>1 DEF Notification
    <3>2. FittingNotice \subseteq FittingNotice'
      BY <1>17, <3>1 DEF FittingNotice
    <3> QED
      BY <3>2 DEF FittingPacket
  <2>3. FittingRequest \cup {Verify(r)} \subseteq FittingRequest'
    BY <1>18, <2>1
  <2>4. toServer' \in Seq(FittingRequest')
    BY <1>4, <2>3, SeqMonotonic
  <2>5. toRouter' \in Seq(FittingPacket') /\ sendQueue' \in Seq(FittingNotice')
    BY <2>2, SeqMonotonic, ServerTypes DEF server
  <2> QED
    BY <2>4, <2>5 DEF PacketsFit
<1>20. Typed'
  <2>1. toServer' \in Seq(Request) /\ toRouter' \in Seq(Packet) /\ sendQueue' \in Seq(Notification)
    BY <1>19, QueueTypes
  <2>2. Bounded(uids')
    BY RouterTypes, StaysBounded
  <2>3. lids' \subseteq [key : Lid, info : Id, at : Nat] /\ uids' \subseteq [key : Uid, info : Id, at : Nat]
    BY <1>7, RouterTypes DEF Entry
  <2>4. made' \in 0 .. MaxUpdates /\ lid' \in 0 .. MaxUpdates
    BY <1>1, RouterTypes
  <2>5. TypeOK'
    BY <1>1, <1>5, <1>6, <2>1, <2>3, <2>4 DEF IInv, Typed, TypeOK, Request, Packet, server
  <2> QED
    BY <1>1, <1>7, <2>2, <2>5 DEF Typed
<1>21. IgnoredByResult'
  BY <1>2, <1>6 DEF IInv, IgnoredByResult
<1>22. SelectionCurrent'
  BY DEF SelectionCurrent
<1> QED
  BY <1>12, <1>13, <1>14, <1>15, <1>16, <1>19, <1>20, <1>21, <1>22 DEF IInv, RoutesEntered

LEMMA AnnounceNewStep ==
  ASSUME IInv, NEW p \in Peer, NEW u \in UidOf[p], updates < MaxUpdates, updates' = updates + 1,
         AnnounceNew(p, u), UNCHANGED <<up, connected, toRouter, events, server>>
  PROVE  IInv'
<1> DEFINE i == made + 1
           r == NewRoute(p, u, lid + 1)
<1>1. i \in Id /\ i \notin Live
  BY RouterTypes DEF Id, IInv, RoutesEntered, RoutesHaveOneID
<1>2. /\ info' = [info EXCEPT ![i] = r] /\ made' = i /\ lid' = lid + 1
      /\ lids' = Register(lids, lid + 1, i) /\ SendToServer(<<Verify(r)>>)
      /\ scheduled' = TRUE /\ UNCHANGED <<selected, uids, crossed>>
  BY DEF AnnounceNew
<1>3. \A e \in lids \cup uids' : e.info # i
  BY <1>2, RouterTypes DEF Entry, Id, IInv, RoutesEntered, LocalEntries, UpdateEntries
<1>4. toServer' \in Seq(FittingRequest \cup {Verify(r)})
  <2> HIDE DEF r
  <2>1. toServer \in Seq(FittingRequest \cup {Verify(r)})
    BY ServerTypes, SeqMonotonic
  <2>2. <<Verify(r)>> \in Seq(FittingRequest \cup {Verify(r)})
    OBVIOUS
  <2> QED
    BY <1>2, <2>1, <2>2, Sent
<1>5. \A j \in Live : info[j].peer = p <=> j = i
  BY <1>1 DEF AnnounceNew, RouteOf
<1>6. made' \in {made, made + 1} /\ i <= made'
  BY <1>2, RouterTypes
<1> HIDE DEF i
<1> QED
  BY <1>1, <1>2, <1>3, <1>4, <1>5, <1>6, AnnouncedStep

LEMMA AnnounceOtherStep ==
  ASSUME IInv, NEW p \in Peer, NEW u \in UidOf[p], updates < MaxUpdates, updates' = updates + 1,
         AnnounceOther(p, u), UNCHANGED <<up, connected, toRouter, events, server>>
  PROVE  IInv'
<1>1. PICK i \in RouteOf(p) :
         LET old == info[i]
             r == Replaced(old, u, lid + 1)
         IN /\ info' = [info EXCEPT ![i] = r]
            /\ lid' = lid + 1
            /\ uids' = Unlisted(old).uid
            /\ lids' = Register(Unlisted(old).lid, lid + 1, i)
            /\ SendToServer((IF old.updateID = 0 THEN <<>> ELSE <<Delete(old.updateID)>>)
                              \o <<Verify(r)>>)
            /\ crossed' = IF old.updateID = 0 THEN crossed \cup {i} ELSE crossed
            /\ scheduled' = TRUE
            /\ UNCHANGED <<selected, made>>
  BY DEF AnnounceOther
<1> DEFINE old == info[i]
           r == NewRoute(p, u, lid + 1)
<1>2. i \in Live /\ i \in Id /\ old \in Route /\ old.peer = p
  BY RouterTypes DEF RouteOf
<1>3. Replaced(old, u, lid + 1) = r
  BY <1>2 DEF Replaced
<1>4. i <= made /\ made' = made /\ made \in Nat
  BY <1>1, <1>2, RouterTypes DEF IInv, RoutesEntered, RoutesHaveOneID
<1>5. \A j \in Live : info[j].peer = p <=> j = i
  BY <1>2 DEF IInv, RoutesEntered, RoutesDiffer
<1>6. /\ info' = [info EXCEPT ![i] = r] /\ lid' = lid + 1
      /\ SendToServer((IF old.updateID = 0 THEN <<>> ELSE <<Delete(old.updateID)>>) \o <<Verify(r)>>)
      /\ scheduled' = TRUE /\ UNCHANGED selected
      /\ crossed' = IF old.updateID = 0 THEN crossed \cup {i} ELSE crossed
  BY <1>1, <1>3
<1>7. toServer' \in Seq(FittingRequest \cup {Verify(r)})
  <2> HIDE DEF r
  <2> DEFINE R == FittingRequest \cup {Verify(r)}
             ms == IF old.updateID = 0 THEN <<>> ELSE <<Delete(old.updateID)>>
  <2>1. toServer \in Seq(R)
    BY ServerTypes, SeqMonotonic
  <2>2. old.updateID # 0 => Delete(old.updateID) \in FittingRequest
    BY <1>2 DEF Route, Delete, FittingRequest, Request
  <2>3. ms \in Seq(R)
    <3> DEFINE d == Delete(old.updateID)
    <3>1. old.updateID # 0 => d \in R
      BY <2>2
    <3> HIDE DEF R, d
    <3>2. <<>> \in Seq(R) /\ (d \in R => <<d>> \in Seq(R))
      BY EmptySeq
    <3> QED
      BY <3>1, <3>2 DEF d
  <2>4. <<Verify(r)>> \in Seq(R)
    OBVIOUS
  <2>5. SendToServer(ms \o <<Verify(r)>>)
    BY <1>6
  <2> HIDE DEF R, ms
  <2>6. ms \o <<Verify(r)>> \in Seq(R)
    BY <2>3, <2>4, ConcatProperties
  <2>7. toServer' \in Seq(R)
    BY <2>1, <2>5, <2>6, Sent
  <2> QED
    BY <2>7 DEF R
<1>8. 0 \notin Lid
  BY DEF Lid
<1>9. old.updateID = 0 <=> old.localID # 0
  BY <1>2 DEF IInv, RoutesEntered, RoutesHaveOneID
<1>10. old.hash = IF old.updateID = 0 THEN "lid" ELSE "uid"
  BY <1>2 DEF IInv, RoutesEntered, RoutesHaveOneID
<1>11. CASE old.updateID = 0
  <2>1. old.hash = "lid" /\ old.localID # 0
    BY <1>9, <1>10, <1>11
  <2>2. Unregister(lids, {0}) = lids
    BY <1>8, RouterTypes DEF Unregister, Entry
  <2>3. Unlisted(old).lid = lids /\ Unlisted(old).uid = uids
    BY <2>1, <2>2 DEF Unlisted, Tables
  <2>4. lids' = Register(lids, lid + 1, i) /\ uids' = uids
    BY <1>1, <2>3
  <2>5. i \in crossed' /\ crossed \subseteq crossed'
    BY <1>6, <1>11
  <2> HIDE DEF r, old
  <2> QED
    BY <1>2, <1>4, <1>5, <1>6, <1>7, <2>4, <2>5, AnnouncedStep DEF r
<1>12. CASE old.updateID # 0
  <2>1. old.hash = "uid" /\ old.localID = 0
    BY <1>9, <1>10, <1>12
  <2>2. /\ Unlisted(old).lid = lids
        /\ Unlisted(old).uid = Unregister(uids, {old.updateID})
    BY <2>1 DEF Unlisted, Tables
  <2>3. lids' = Register(lids, lid + 1, i) /\ uids' = Unregister(uids, {old.updateID})
    BY <1>1, <2>2
  <2>4. crossed' = crossed
    BY <1>6, <1>12
  <2>5. \A e \in lids : e.info = i => i \in crossed
    BY <1>2, <1>8, <2>1, RouterTypes DEF Entry, IInv, RoutesEntered, LocalEntries
  <2>6. ASSUME NEW e \in uids', e.info = i, i \notin crossed PROVE FALSE
    <3>1. e \in uids /\ e.key = old.updateID /\ \A f \in uids : f.key = e.key /\ f # e => f.at < e.at
      BY <1>2, <2>3, <2>6 DEF Unregister, IInv, RoutesEntered, UpdateEntries
    <3>2. PICK f \in uids : f.key = e.key /\ f.at > e.at
      BY <2>3, <2>6, <3>1 DEF Unregister
    <3>3. f.at \in Nat /\ e.at \in Nat
      BY <3>1, RouterTypes DEF Entry
    <3> QED
      BY <3>1, <3>2, <3>3
  <2>7. \A e \in lids \cup uids' : e.info = i => i \in Live \cap crossed'
    BY <1>2, <2>4, <2>5, <2>6
  <2>8. uids' \subseteq uids
    BY <2>3, Unregistered
  <2> HIDE DEF r, old
  <2> QED
    BY <1>2, <1>4, <1>5, <1>6, <1>7, <2>3, <2>4, <2>7, <2>8, AnnouncedStep DEF r
<1> QED
  BY <1>11, <1>12

-----------------------------------------------------------------------------
(* The decision process.                                                   *)

LEMMA ProcessStep ==
  ASSUME IInv, Process
  PROVE  IInv'
<1>1. /\ info' = [i \in Id |-> IF i \in Reaped THEN None ELSE info[i]]
      /\ lids' = Freed.lid /\ uids' = Freed.uid
      /\ \E s \in Deletes : SendToServer(s)
      /\ selected' = BestOf(Usable) /\ scheduled' = FALSE
      /\ UNCHANGED <<made, lid, updates, up, connected, toRouter, events, server, crossed>>
  BY DEF Process, SetTables
<1>2. /\ Live' = Live \ Reaped
      /\ \A i \in Live' : info'[i] = info[i]
  BY <1>1 DEF Live, Reaped
<1>3. Usable' = Usable /\ Usable \subseteq Live'
  BY <1>2 DEF Usable, Reaped
<1>4. SelectionCurrent'
  BY <1>1, <1>2, <1>3, SelectionSame DEF SelectionCurrent
<1>5. selected' \in Live' \cup {0}
  BY <1>1, <1>3, SelectedIsUsable
<1>6. info' \in [Id -> Route \cup {None}]
  BY <1>1, RouterTypes
<1> DEFINE keys(hash) == {IF info[i].updateID # 0 THEN info[i].updateID ELSE info[i].localID :
                            i \in {j \in Reaped : info[j].hash = hash}}
<1>7. lids' = Unregister(lids, keys("lid")) /\ uids' = Unregister(uids, keys("uid"))
  BY <1>1 DEF Freed
<1>8. lids' \subseteq lids /\ uids' \subseteq uids
  BY <1>7, Unregistered
<1>9. Reaped \subseteq Live
  BY DEF Reaped
<1>10. ASSUME NEW e \in lids', e.info \in Reaped \ crossed PROVE FALSE
  <2>1. e \in lids /\ info[e.info].localID = e.key /\ e.key # 0
    BY <1>8, <1>9, <1>10, RouterTypes DEF Entry, Lid, IInv, RoutesEntered, LocalEntries
  <2>2. info[e.info].updateID = 0 /\ info[e.info].hash = "lid"
    BY <1>9, <1>10, <2>1 DEF IInv, RoutesEntered, RoutesHaveOneID
  <2>3. e.key \in keys("lid")
    BY <1>10, <2>1, <2>2
  <2> HIDE DEF keys
  <2>4. PICK f \in lids : f.key = e.key /\ f.at > e.at
    BY <1>7, <1>10, <2>3 DEF Unregister
  <2>5. f = e /\ e.at \in Nat
    BY <2>1, <2>4, RouterTypes DEF Entry, IInv, RoutesEntered, LocalEntries
  <2> QED
    BY <2>4, <2>5
<1>11. ASSUME NEW e \in uids', e.info \in Reaped \ crossed PROVE FALSE
  <2>1. e \in uids /\ info[e.info].updateID = e.key /\ e.key # 0
        /\ \A f \in uids : f.key = e.key /\ f # e => f.at < e.at
    BY <1>8, <1>9, <1>11, RouterTypes, RouterAssumption
    DEF Entry, IInv, RoutesEntered, UpdateEntries
  <2>2. info[e.info].hash = "uid"
    BY <1>9, <1>11, <2>1 DEF IInv, RoutesEntered, RoutesHaveOneID
  <2>3. e.key \in keys("uid")
    BY <1>11, <2>1, <2>2
  <2> HIDE DEF keys
  <2>4. PICK f \in uids : f.key = e.key /\ f.at > e.at
    BY <1>7, <1>11, <2>3 DEF Unregister
  <2>5. f.at \in Nat /\ e.at \in Nat
    BY <2>1, RouterTypes DEF Entry
  <2> QED
    BY <2>1, <2>4, <2>5
<1> HIDE DEF keys
<1>12. EntriesAreLive'
  BY <1>1, <1>2, <1>8, <1>10, <1>11 DEF IInv, RoutesEntered, EntriesAreLive
<1>13. RoutesHaveOneID' /\ RoutesDiffer' /\ BoundToOwnUpdate' /\ IgnoredByResult'
  BY <1>1, <1>2 DEF IInv, RoutesEntered, RoutesHaveOneID, RoutesDiffer, BoundToOwnUpdate,
                    IgnoredByResult
<1>14. LocalEntries'
  BY <1>1, <1>2, <1>8 DEF IInv, RoutesEntered, LocalEntries
<1>15. UpdateEntries'
  BY <1>1, <1>2, <1>8 DEF IInv, RoutesEntered, UpdateEntries
<1>16. ASSUME NEW k, Fits(k) PROVE Fits(k)'
  BY <1>1, <1>2, <1>8, <1>16 DEF Fits
<1>17. /\ FittingRequest \subseteq FittingRequest' /\ FittingNotice \subseteq FittingNotice'
       /\ FittingPacket \subseteq FittingPacket'
  BY <1>16 DEF FittingRequest, FittingNotice, FittingPacket
<1>18. toServer' \in Seq(FittingRequest)
  <2>1. PICK s \in Deletes : SendToServer(s)
    BY <1>1
  <2> DEFINE S == {i \in Reaped : info[i].updateID # 0}
  <2>2. Cardinality(S) \in Nat
    <3>1. IsFiniteSet(Id) /\ S \in SUBSET Id
      BY RouterTypes, FS_Interval DEF Id, Reaped, Live
    <3> HIDE DEF S
    <3> QED
      BY <3>1, FS_Subset, FS_CardinalityType
  <2>3. \A i \in S : Delete(info[i].updateID) \in FittingRequest
    BY <1>9, RouterTypes DEF Route, Delete, FittingRequest, Request
  <2>4. PICK o \in Ordered(S) : s = [n \in DOMAIN o |-> Delete(info[o[n]].updateID)]
    BY <2>1 DEF Deletes
  <2> HIDE DEF S
  <2>5. o \in [1 .. Cardinality(S) -> S]
    BY <2>4 DEF Ordered
  <2>6. s \in [1 .. Cardinality(S) -> FittingRequest]
    BY <2>3, <2>4, <2>5
  <2>7. s \in Seq(FittingRequest)
    BY <2>2, <2>6
  <2> QED
    BY <2>1, <2>7, Sent, ServerTypes
<1>19. PacketsFit'
  BY <1>1, <1>17, <1>18, SeqMonotonic, ServerTypes DEF PacketsFit, server
<1>20. Typed'
  <2>1. toServer' \in Seq(Request) /\ toRouter' \in Seq(Packet) /\ sendQueue' \in Seq(Notification)
    BY <1>19, QueueTypes
  <2>2. Bounded(lids') /\ Bounded(uids')
    BY <1>8, RouterTypes, StaysBounded
  <2>3. TypeOK'
    BY <1>1, <1>5, <1>6, <1>8, <2>1 DEF IInv, Typed, TypeOK, Request, Packet, server
  <2> QED
    BY <1>1, <2>2, <2>3 DEF IInv, Typed
<1> QED
  BY <1>4, <1>12, <1>13, <1>14, <1>15, <1>19, <1>20 DEF IInv, RoutesEntered

-----------------------------------------------------------------------------
(* The invariant.                                                          *)

LEMMA IInvInit == Init => IInv
<1> SUFFICES ASSUME Init PROVE IInv
  OBVIOUS
<1>1. Live = {} /\ Usable = {}
  BY DEF Init, Live, Usable
<1>2. PacketsFit
  BY EmptySeq DEF Init, PacketsFit
<1>3. TypeOK
  <2>1. MaxUpdates \in Nat /\ MaxEvents \in Nat
    BY RouterAssumption
  <2>2. toServer \in Seq(Request) /\ toRouter \in Seq(Packet) /\ sendQueue \in Seq(Notification)
    BY EmptySeq DEF Init
  <2>3. info \in [Id -> Route \cup {None}] /\ known \in [Uid -> Result \cup {None}]
    BY DEF Init
  <2>4. /\ selected = 0 /\ scheduled = FALSE /\ up = TRUE /\ connected = TRUE
        /\ made = 0 /\ lid = 0 /\ updates = 0 /\ events = 0
    BY DEF Init
  <2>5. /\ made \in 0 .. MaxUpdates /\ lid \in 0 .. MaxUpdates /\ updates \in 0 .. MaxUpdates
        /\ events \in 0 .. MaxEvents
    BY <2>1, <2>4
  <2>6. scheduled \in BOOLEAN /\ up \in BOOLEAN /\ connected \in BOOLEAN
    BY <2>4, Zenon
  <2>7. lids = {} /\ uids = {} /\ registered = {} /\ queued = {}
    BY DEF Init
  <2> QED
    BY <2>2, <2>3, <2>5, <2>7, <2>4, <2>6 DEF TypeOK, Request, Packet
<1>4. Typed
  BY <1>3 DEF Init, Typed, Bounded
<1>5. SelectionCurrent
  BY <1>1, SelectedIsUsable DEF Init, SelectionCurrent
<1>6. IgnoredByResult /\ RoutesEntered
  BY <1>1 DEF Init, IgnoredByResult, RoutesEntered, RoutesHaveOneID, RoutesDiffer, LocalEntries,
              UpdateEntries, BoundToOwnUpdate, EntriesAreLive
<1> QED
  BY <1>2, <1>4, <1>5, <1>6 DEF IInv

LEMMA IInvNext == IInv /\ [Next]_vars => IInv'
<1> SUFFICES ASSUME IInv, [Next]_vars PROVE IInv'
  OBVIOUS
<1>1. ASSUME NEW p \in Peer, NEW u \in UidOf[p], Announce(p, u) PROVE IInv'
  BY <1>1, AnnounceNewStep, AnnounceOtherStep DEF Announce
<1>2. ASSUME NEW p \in Peer, Withdraw(p) PROVE IInv'
  BY <1>2, WithdrawStep
<1>3. CASE Process
  BY <1>3, ProcessStep
<1>4. CASE handleSRxValidationResult
  BY <1>4, ResultStep
<1>5. CASE handleSRxSynchRequest
  BY <1>5, SynchroniseStep
<1>6. CASE checkClientConnection
  BY <1>6, ReconnectStep
<1>7. CASE processValidationRequest
  BY <1>7, ProcessRequestStep
<1>8. CASE deleteUpdateFromCache \/ sendQueueThreadLoop
  BY <1>8, DeleteRequestStep, SendAnswerStep
<1>9. ASSUME NEW u \in Uid, Validate(u) PROVE IInv'
  BY <1>9, ValidateStep
<1>10. ASSUME NEW u \in Uid, ChangeResult(u) PROVE IInv'
  BY <1>10, ChangeResultStep
<1>11. CASE Disconnect
  BY <1>11, DisconnectStep
<1>12. CASE UNCHANGED vars
  <2>1. UNCHANGED <<rib, updates, crossed, up>>
    BY <1>12 DEF vars, history
  <2>2. UNCHANGED <<toServer, toRouter, connected, server, events>>
    BY <1>12 DEF vars
  <2> QED
    BY <2>1, <2>2, ServerTypes, RibSame DEF server
<1> QED
  BY <1>1, <1>2, <1>3, <1>4, <1>5, <1>6, <1>7, <1>8, <1>9, <1>10, <1>11, <1>12
  DEF Next, Router, Server

LEMMA RoutesInvariant == Spec => []IInv
BY IInvInit, IInvNext, PTL DEF Spec

\* Routes, tables and packets have their types; the route that is selected is one
\* of the node.
THEOREM RouterTypeCorrect == Spec => []TypeOK
<1>1. IInv => TypeOK
  BY DEF IInv, Typed
<1> QED
  BY <1>1, RoutesInvariant, PTL

\* A route never gets the update ID of another update, and so another update's
\* results, unless it was replaced while it waited for its own.
THEOREM RoutesBoundToOwnUpdate == Spec => []BoundToOwnUpdate
<1>1. IInv => BoundToOwnUpdate
  BY DEF IInv, RoutesEntered
<1> QED
  BY <1>1, RoutesInvariant, PTL

\* No entry of the tables points to a freed route, with the same exception.
THEOREM NoEntryOfFreedRoute == Spec => []EntriesAreLive
<1>1. IInv => EntriesAreLive
  BY DEF IInv, RoutesEntered
<1> QED
  BY <1>1, RoutesInvariant, PTL

\* No result is missed by the selection: when none is scheduled, the selected
\* route is the best one that may be used.
THEOREM SelectionNeverStale == Spec => []SelectionFollowsResults
<1>1. IInv => SelectionFollowsResults
  <2> SUFFICES ASSUME IInv, ~scheduled, up
               PROVE  LET usable == {i \in Live : ~info[i].removed /\ info[i].result \notin Ignored}
                      IN selected = BestOf(usable)
    BY DEF SelectionFollowsResults
  <2>1. Usable = {i \in Live : ~info[i].removed /\ info[i].result \notin Ignored}
    BY DEF IInv, IgnoredByResult, Usable
  <2>2. selected = BestOf(Usable)
    BY DEF IInv, SelectionCurrent
  <2> QED
    BY <2>1, <2>2, Zenon
<1> QED
  BY <1>1, RoutesInvariant, PTL

-----------------------------------------------------------------------------
(* The results of routes and of the server: what is under way.             *)

\* A notice of an update, an answer under a local ID, a request under a local ID
\* (0 for a comparison of results), a deletion.
Of(m, u) == m.type = "NOTIFY" /\ m.uid = u
Answers(m, l) == m.type = "NOTIFY" /\ m.lid = l
Asks(m, l) == m.type = "VERIFY" /\ m.lid = l
Cancels(m, u) == m.type = "DELETE" /\ m.uid = u

\* Notices of an update, and what the last one of them says.
NoneOf(s, u) == \A k \in DOMAIN s : ~Of(s[k], u)
Latest(s, u, r) ==
  \A k \in DOMAIN s : Of(s[k], u) /\ (\A j \in DOMAIN s : j > k => ~Of(s[j], u)) => s[k].result = r

AnsweredIn(s, l) == \E k \in DOMAIN s : Answers(s[k], l)

\* Requests: for a local ID, for a comparison of results, and deletions.
AskedIn(q, l) == \E k \in DOMAIN q : Asks(q[k], l)
ComparedIn(q, u, r) == \E k \in DOMAIN q : Asks(q[k], 0) /\ q[k].uid = u /\ q[k].default = r
Uncancelled(q, u) == \A k \in DOMAIN q : ~Cancels(q[k], u)

\* A request with a local ID is not followed by a deletion of its update.
Lasting(q, l, u) ==
  \A k \in DOMAIN q : Asks(q[k], l) =>
    /\ q[k].default = "UNDEFINED"
    /\ \A j \in DOMAIN q : j > k => ~Cancels(q[j], u)

\* A notice joins the end of a queue.
LEMMA NoticeAppended ==
  ASSUME NEW S, NEW s \in Seq(S), NEW m \in S, NEW u
  PROVE  /\ NoneOf(Append(s, m), u) <=> NoneOf(s, u) /\ ~Of(m, u)
         /\ \A l : AnsweredIn(Append(s, m), l) <=> AnsweredIn(s, l) \/ Answers(m, l)
         /\ \A r : (IF Of(m, u) THEN m.result = r ELSE Latest(s, u, r)) => Latest(Append(s, m), u, r)
<1> DEFINE t == Append(s, m)
<1>1. /\ DOMAIN s = 1 .. Len(s) /\ Len(s) \in Nat /\ DOMAIN t = 1 .. Len(s) + 1
      /\ t[Len(s) + 1] = m /\ \A k \in 1 .. Len(s) : t[k] = s[k]
  BY AppendProperties
<1> HIDE DEF t
<1>2. NoneOf(t, u) <=> NoneOf(s, u) /\ ~Of(m, u)
  <2>1. Len(s) + 1 \in DOMAIN t /\ DOMAIN t = DOMAIN s \cup {Len(s) + 1}
    BY <1>1
  <2> QED
    BY <1>1, <2>1, Zenon DEF NoneOf
<1>3. ASSUME NEW l PROVE AnsweredIn(t, l) <=> AnsweredIn(s, l) \/ Answers(m, l)
  <2>1. Len(s) + 1 \in DOMAIN t /\ DOMAIN t = DOMAIN s \cup {Len(s) + 1}
    BY <1>1
  <2> QED
    BY <1>1, <2>1, Zenon DEF AnsweredIn
<1>4. ASSUME NEW r, IF Of(m, u) THEN m.result = r ELSE Latest(s, u, r) PROVE Latest(t, u, r)
  <2> SUFFICES ASSUME NEW k \in DOMAIN t, Of(t[k], u), \A j \in DOMAIN t : j > k => ~Of(t[j], u)
               PROVE  t[k].result = r
    BY DEF Latest
  <2>1. CASE k = Len(s) + 1
    BY <1>1, <1>4, <2>1
  <2>2. CASE k # Len(s) + 1
    <3>1. k \in DOMAIN s /\ t[k] = s[k] /\ Len(s) + 1 \in DOMAIN t /\ Len(s) + 1 > k
      BY <1>1, <2>2
    <3>2. ~Of(m, u) /\ Of(s[k], u)
      BY <1>1, <3>1
    <3>3. \A j \in DOMAIN s : j > k => ~Of(s[j], u)
      BY <1>1
    <3> QED
      BY <1>4, <3>1, <3>2, <3>3 DEF Latest
  <2> QED
    BY <2>1, <2>2
<1> QED
  BY <1>2, <1>3, <1>4 DEF t

\* The first notice of a queue is taken.
LEMMA NoticeTaken ==
  ASSUME NEW S, NEW s \in Seq(S), s # <<>>, NEW u
  PROVE  /\ NoneOf(s, u) <=> NoneOf(Tail(s), u) /\ ~Of(Head(s), u)
         /\ \A l : AnsweredIn(s, l) <=> AnsweredIn(Tail(s), l) \/ Answers(Head(s), l)
         /\ \A r : Latest(s, u, r) => /\ Latest(Tail(s), u, r)
                                      /\ Of(Head(s), u) /\ NoneOf(Tail(s), u) => Head(s).result = r
<1> DEFINE t == Tail(s)
<1>1. /\ DOMAIN s = 1 .. Len(s) /\ Len(s) \in Nat /\ Len(s) > 0 /\ DOMAIN t = 1 .. Len(s) - 1
      /\ Head(s) = s[1] /\ \A k \in 1 .. Len(s) - 1 : t[k] = s[k + 1]
  BY HeadTailProperties, EmptySeq
<1> HIDE DEF t
<1>0. /\ 1 \in DOMAIN s /\ \A k \in DOMAIN t : k + 1 \in DOMAIN s /\ t[k] = s[k + 1]
      /\ \A k \in DOMAIN s : k = 1 \/ (k - 1 \in DOMAIN t /\ t[k - 1] = s[k])
  BY <1>1
<1>2. NoneOf(s, u) <=> NoneOf(t, u) /\ ~Of(Head(s), u)
  BY <1>0, <1>1, Zenon DEF NoneOf
<1>3. ASSUME NEW l PROVE AnsweredIn(s, l) <=> AnsweredIn(t, l) \/ Answers(Head(s), l)
  BY <1>0, <1>1, Zenon DEF AnsweredIn
<1>4. ASSUME NEW r, Latest(s, u, r) PROVE Latest(t, u, r)
  <2> SUFFICES ASSUME NEW k \in DOMAIN t, Of(t[k], u), \A j \in DOMAIN t : j > k => ~Of(t[j], u)
               PROVE  t[k].result = r
    BY DEF Latest
  <2>1. ASSUME NEW j \in DOMAIN s, j > k + 1 PROVE ~Of(s[j], u)
    <3>1. j - 1 \in DOMAIN t /\ j - 1 > k /\ t[j - 1] = s[j]
      BY <1>0, <1>1, <2>1
    <3> QED
      BY <3>1
  <2>2. k + 1 \in DOMAIN s /\ Of(s[k + 1], u)
    BY <1>0
  <2>3. s[k + 1].result = r
    BY <1>4, <2>1, <2>2 DEF Latest
  <2> QED
    BY <1>0, <2>3
<1>5. ASSUME NEW r, Latest(s, u, r), Of(Head(s), u), NoneOf(t, u) PROVE Head(s).result = r
  <2>1. ASSUME NEW j \in DOMAIN s, j > 1 PROVE ~Of(s[j], u)
    <3>1. j - 1 \in DOMAIN t /\ t[j - 1] = s[j]
      BY <1>0, <2>1
    <3> QED
      BY <1>5, <3>1 DEF NoneOf
  <2> QED
    BY <1>0, <1>1, <1>5, <2>1 DEF Latest
<1> QED
  BY <1>2, <1>3, <1>4, <1>5 DEF t

\* The first request of a queue is taken.
LEMMA RequestTaken ==
  ASSUME NEW S, NEW q \in Seq(S), q # <<>>
  PROVE  /\ \A u : Uncancelled(q, u) <=> Uncancelled(Tail(q), u) /\ ~Cancels(Head(q), u)
         /\ \A l : AskedIn(q, l) <=> AskedIn(Tail(q), l) \/ Asks(Head(q), l)
         /\ \A u, r : ComparedIn(q, u, r) =>
              ComparedIn(Tail(q), u, r) \/ (Asks(Head(q), 0) /\ Head(q).uid = u /\ Head(q).default = r)
         /\ \A l, u : Lasting(q, l, u) =>
              /\ Lasting(Tail(q), l, u)
              /\ Asks(Head(q), l) => Head(q).default = "UNDEFINED" /\ Uncancelled(Tail(q), u)
<1> DEFINE t == Tail(q)
<1>1. /\ DOMAIN q = 1 .. Len(q) /\ Len(q) \in Nat /\ Len(q) > 0 /\ DOMAIN t = 1 .. Len(q) - 1
      /\ Head(q) = q[1] /\ \A k \in 1 .. Len(q) - 1 : t[k] = q[k + 1]
  BY HeadTailProperties, EmptySeq
<1> HIDE DEF t
<1>0. /\ 1 \in DOMAIN q /\ \A k \in DOMAIN t : k + 1 \in DOMAIN q /\ t[k] = q[k + 1]
      /\ \A k \in DOMAIN q : k = 1 \/ (k - 1 \in DOMAIN t /\ t[k - 1] = q[k])
  BY <1>1
<1>2. ASSUME NEW u PROVE Uncancelled(q, u) <=> Uncancelled(t, u) /\ ~Cancels(Head(q), u)
  BY <1>0, <1>1, Zenon DEF Uncancelled
<1>3. ASSUME NEW l PROVE AskedIn(q, l) <=> AskedIn(t, l) \/ Asks(Head(q), l)
  BY <1>0, <1>1, Zenon DEF AskedIn
<1>4. ASSUME NEW u, NEW r, ComparedIn(q, u, r)
      PROVE  ComparedIn(t, u, r) \/ (Asks(Head(q), 0) /\ Head(q).uid = u /\ Head(q).default = r)
  <2>1. PICK k \in DOMAIN q : Asks(q[k], 0) /\ q[k].uid = u /\ q[k].default = r
    BY <1>4 DEF ComparedIn
  <2>2. CASE k = 1
    BY <1>1, <2>1, <2>2
  <2>3. CASE k # 1
    <3>1. k - 1 \in DOMAIN t /\ t[k - 1] = q[k]
      BY <1>0, <2>3
    <3> QED
      BY <2>1, <3>1 DEF ComparedIn
  <2> QED
    BY <2>2, <2>3
<1>5. ASSUME NEW l, NEW u, Lasting(q, l, u) PROVE Lasting(t, l, u)
  <2> SUFFICES ASSUME NEW k \in DOMAIN t, Asks(t[k], l)
               PROVE  /\ t[k].default = "UNDEFINED"
                      /\ \A j \in DOMAIN t : j > k => ~Cancels(t[j], u)
    BY DEF Lasting
  <2>1. k + 1 \in DOMAIN q /\ t[k] = q[k + 1]
    BY <1>0
  <2>2. q[k + 1].default = "UNDEFINED" /\ \A j \in DOMAIN q : j > k + 1 => ~Cancels(q[j], u)
    BY <1>5, <2>1 DEF Lasting
  <2>3. \A j \in DOMAIN t : j > k => j + 1 > k + 1 /\ j + 1 \in DOMAIN q /\ t[j] = q[j + 1]
    BY <1>0, <1>1
  <2> QED
    BY <2>1, <2>2, <2>3
<1>6. ASSUME NEW l, NEW u, Lasting(q, l, u), Asks(Head(q), l)
      PROVE  Head(q).default = "UNDEFINED" /\ Uncancelled(t, u)
  <2>1. q[1].default = "UNDEFINED" /\ \A j \in DOMAIN q : j > 1 => ~Cancels(q[j], u)
    BY <1>0, <1>1, <1>6 DEF Lasting
  <2>2. \A j \in DOMAIN t : j + 1 > 1 /\ j + 1 \in DOMAIN q /\ t[j] = q[j + 1]
    BY <1>0, <1>1
  <2> QED
    BY <1>1, <2>1, <2>2 DEF Uncancelled
<1> QED
  BY <1>2, <1>3, <1>4, <1>5, <1>6 DEF t

\* Requests join the end of a queue.  What lasts, lasts unless a deletion follows
\* a request made before.
LEMMA RequestsSent ==
  ASSUME NEW S, NEW q \in Seq(S), NEW b \in Seq(S)
  PROVE  /\ \A u : Uncancelled(q \o b, u) <=> Uncancelled(q, u) /\ Uncancelled(b, u)
         /\ \A l : AskedIn(q \o b, l) <=> AskedIn(q, l) \/ AskedIn(b, l)
         /\ \A u, r : ComparedIn(q, u, r) \/ ComparedIn(b, u, r) => ComparedIn(q \o b, u, r)
         /\ \A l, u : Lasting(q, l, u) /\ Lasting(b, l, u) /\ (Uncancelled(b, u) \/ ~AskedIn(q, l)) =>
              Lasting(q \o b, l, u)
<1> DEFINE t == q \o b
           n == Len(q)
<1>1. /\ DOMAIN q = 1 .. n /\ n \in Nat /\ DOMAIN b = 1 .. Len(b) /\ Len(b) \in Nat
      /\ DOMAIN t = 1 .. n + Len(b)
      /\ \A k \in 1 .. n + Len(b) : t[k] = IF k <= n THEN q[k] ELSE b[k - n]
  BY ConcatProperties
<1> HIDE DEF t, n
<1>0. /\ \A k \in DOMAIN q : k \in DOMAIN t /\ t[k] = q[k]
      /\ \A k \in DOMAIN b : k + n \in DOMAIN t /\ t[k + n] = b[k]
      /\ \A k \in DOMAIN t : (k \in DOMAIN q /\ t[k] = q[k]) \/ (k - n \in DOMAIN b /\ t[k] = b[k - n])
  BY <1>1
<1>2. ASSUME NEW u PROVE Uncancelled(t, u) <=> Uncancelled(q, u) /\ Uncancelled(b, u)
  BY <1>0, Zenon DEF Uncancelled
<1>3. ASSUME NEW l PROVE AskedIn(t, l) <=> AskedIn(q, l) \/ AskedIn(b, l)
  BY <1>0, Zenon DEF AskedIn
<1>4. ASSUME NEW u, NEW r, ComparedIn(q, u, r) \/ ComparedIn(b, u, r) PROVE ComparedIn(t, u, r)
  <2>1. CASE ComparedIn(q, u, r)
    BY <1>0, <2>1 DEF ComparedIn
  <2>2. CASE ComparedIn(b, u, r)
    <3>1. PICK k \in DOMAIN b : Asks(b[k], 0) /\ b[k].uid = u /\ b[k].default = r
      BY <2>2 DEF ComparedIn
    <3>2. k + n \in DOMAIN t /\ t[k + n] = b[k]
      BY <1>0
    <3> QED
      BY <3>1, <3>2 DEF ComparedIn
  <2> QED
    BY <1>4, <2>1, <2>2
<1>5. ASSUME NEW l, NEW u, Lasting(q, l, u), Lasting(b, l, u), Uncancelled(b, u) \/ ~AskedIn(q, l)
      PROVE  Lasting(t, l, u)
  <2> SUFFICES ASSUME NEW k \in DOMAIN t, Asks(t[k], l)
               PROVE  /\ t[k].default = "UNDEFINED"
                      /\ \A j \in DOMAIN t : j > k => ~Cancels(t[j], u)
    BY DEF Lasting
  <2>1. CASE k \in DOMAIN q
    <3>1. t[k] = q[k] /\ Asks(q[k], l)
      BY <1>1, <2>1
    <3>2. Uncancelled(b, u)
      BY <1>5, <2>1, <3>1 DEF AskedIn
    <3>3. ASSUME NEW j \in DOMAIN t, j > k PROVE ~Cancels(t[j], u)
      <4>1. CASE j \in DOMAIN q
        BY <1>1, <1>5, <2>1, <3>1, <3>3, <4>1 DEF Lasting
      <4>2. CASE j \notin DOMAIN q
        BY <1>0, <3>2, <4>2 DEF Uncancelled
      <4> QED
        BY <4>1, <4>2
    <3> QED
      BY <1>5, <2>1, <3>1, <3>3 DEF Lasting
  <2>2. CASE k \notin DOMAIN q
    <3>1. k - n \in DOMAIN b /\ t[k] = b[k - n] /\ k > n
      BY <1>1, <2>2
    <3>2. \A j \in DOMAIN t : j > k => j - n \in DOMAIN b /\ t[j] = b[j - n] /\ j - n > k - n
      BY <1>1, <3>1
    <3>3. b[k - n].default = "UNDEFINED" /\ \A j \in DOMAIN b : j > k - n => ~Cancels(b[j], u)
      BY <1>5, <3>1 DEF Lasting
    <3> QED
      BY <3>1, <3>2, <3>3
  <2> QED
    BY <2>1, <2>2
<1> QED
  BY <1>2, <1>3, <1>4, <1>5 DEF t

-----------------------------------------------------------------------------
(* The invariant of results: IInv, and RInv, which says of every route what *)
(* brings it the result of the server.                                      *)

\* The last notice under way of an update tells the result the server has.
Agreed(u) ==
  /\ Latest(sendQueue, u, known[u])
  /\ NoneOf(sendQueue, u) => Latest(toRouter, u, known[u])

Answering(l) == AnsweredIn(toRouter, l) \/ AnsweredIn(sendQueue, l)

\* The router is registered for an update, and no deletion is under way.
Served(u) == u \in registered /\ Uncancelled(toServer, u)

\* A route without an update ID waits for an answer, if its request was sent.
Waiting(i) ==
  LET l == info[i].localID
      u == info[i].own
  IN /\ info[i].result = "UNDEFINED"
     /\ Lasting(toServer, l, u)
     /\ Answering(l) => Served(u) /\ (u \notin overtaken => Agreed(u))
     /\ i \in unsynced \/ AskedIn(toServer, l) \/ Answering(l)

\* A route with an update ID has the server's result when all notices of its
\* update are processed, or asked the server to compare the two.
Told(i) ==
  LET u == info[i].own
  IN /\ Agreed(u)
     /\ i \in unsynced \/ ~NoneOf(toRouter, u) \/ ~NoneOf(sendQueue, u)
        \/ info[i].result = known[u] \/ ComparedIn(toServer, u, info[i].result)

Settled(i) == Served(info[i].own) /\ (info[i].own \notin overtaken => Told(i))

\* A route whose IDs were not mixed up waits for its update ID or has it.
RouteFollows(i) == IF info[i].updateID = 0 THEN Waiting(i) ELSE Settled(i)

Unspoiled == {i \in Live \ crossed : info[i].own \notin cancelled}

\* Without a connection nothing is under way.
Offline ==
  ~connected => toServer = <<>> /\ toRouter = <<>> /\ sendQueue = <<>> /\ Live \subseteq unsynced

KnownIfRegistered == \A u \in registered : known[u] # None

\* Update IDs, in routes and tables, are those of the route's peer.
IDsOfPeer ==
  /\ \A i \in Live : info[i].updateID \in UidOf[info[i].peer] \cup {0}
  /\ \A e \in uids : e.info \in Live => e.key \in UidOf[info[e.info].peer]

RoutesFollow == up => \A i \in Unspoiled : RouteFollows(i)

\* Inductive with IInv.
RInv == Offline /\ KnownIfRegistered /\ IDsOfPeer /\ RoutesFollow

\* Facts about routes and packets.
LEMMA QueuesTyped ==
  ASSUME IInv
  PROVE  /\ toServer \in Seq(FittingRequest) /\ toRouter \in Seq(FittingPacket)
         /\ sendQueue \in Seq(FittingNotice)
         /\ \A k \in DOMAIN toServer : toServer[k] \in FittingRequest
         /\ \A k \in DOMAIN toRouter : toRouter[k] \in FittingPacket
         /\ \A k \in DOMAIN sendQueue : sendQueue[k] \in FittingNotice
BY ServerTypes, ElementOfSeq

\* A route and the other routes have different updates: their peers differ.
LEMMA PeersOwn ==
  ASSUME IInv, IDsOfPeer, NEW i \in Live
  PROVE  /\ info[i].own \in UidOf[info[i].peer] /\ info[i].own \in Uid /\ info[i].own # 0
         /\ info[i].peer \in Peer
         /\ \A j \in Live : j # i => info[j].updateID # info[i].own /\ info[j].own # info[i].own
         /\ \A j \in Live : j # i => info[i].own \notin UidOf[info[j].peer]
         /\ i \notin crossed /\ info[i].updateID # 0 => info[i].updateID = info[i].own
         /\ info[i].updateID = 0 <=> info[i].localID # 0
         /\ info[i].localID \in Lid \cup {0} /\ info[i].localID <= lid
<1>1. /\ info[i].own \in UidOf[info[i].peer] /\ info[i].peer \in Peer
      /\ \A j \in Live : info[j].peer \in Peer /\ info[j].own \in UidOf[info[j].peer]
      /\ info[i].localID \in Lid \cup {0} /\ info[i].localID <= lid
      /\ info[i].updateID = 0 <=> info[i].localID # 0
      /\ i \notin crossed /\ info[i].updateID # 0 => info[i].updateID = info[i].own
  BY RouterTypes DEF Route, IInv, RoutesEntered, RoutesHaveOneID, BoundToOwnUpdate
<1>2. \A p, q \in Peer : p # q => UidOf[p] \cap UidOf[q] = {}
  BY RouterAssumption
<1>3. \A j \in Live : j # i => info[j].peer # info[i].peer
  BY DEF IInv, RoutesEntered, RoutesDiffer
<1>4. info[i].own \in Uid /\ info[i].own # 0
  BY <1>1, RouterAssumption DEF Uid
<1>5. ASSUME NEW j \in Live, j # i
      PROVE  info[j].updateID # info[i].own /\ info[j].own # info[i].own /\ info[i].own \notin UidOf[info[j].peer]
  <2>1. info[i].own \notin UidOf[info[j].peer]
    BY <1>1, <1>2, <1>3, <1>5
  <2> QED
    BY <1>1, <1>4, <2>1 DEF IDsOfPeer
<1> QED
  BY <1>1, <1>4, <1>5

\* Nothing that concerns a route is taken from the packets to the router.
PacketsKept(i) ==
  LET u == info[i].own
      l == info[i].localID
  IN /\ NoneOf(toRouter', u) => NoneOf(toRouter, u)
     /\ \A r : Latest(toRouter, u, r) => Latest(toRouter', u, r)
     /\ info[i].updateID = 0 => (AnsweredIn(toRouter', l) <=> AnsweredIn(toRouter, l))

\* A step of the router that sends something, if anything, and leaves the route
\* and its registration alone.
LEMMA RouteKept ==
  ASSUME IInv, NEW i \in Live, RouteFollows(i), PacketsKept(i),
         info'[i].own = info[i].own, info'[i].updateID = info[i].updateID,
         info'[i].localID = info[i].localID, info'[i].result = info[i].result,
         UNCHANGED <<sendQueue, known, registered>>,
         info[i].own \in overtaken <=> info[i].own \in overtaken',
         i \in unsynced => i \in unsynced',
         NEW b \in Seq(Request), toServer' \in {toServer, toServer \o b},
         Uncancelled(b, info[i].own),
         info[i].updateID = 0 => Lasting(b, info[i].localID, info[i].own)
  PROVE  RouteFollows(i)'
<1> DEFINE u == info[i].own
           l == info[i].localID
<1>1. toServer \in Seq(Request)
  BY DEF IInv, Typed, TypeOK, Request
<1>2. /\ Uncancelled(toServer, u) => Uncancelled(toServer', u)
      /\ AskedIn(toServer, l) => AskedIn(toServer', l)
      /\ \A r : ComparedIn(toServer, u, r) => ComparedIn(toServer', u, r)
      /\ info[i].updateID = 0 /\ Lasting(toServer, l, u) => Lasting(toServer', l, u)
  <2>1. CASE toServer' = toServer
    BY <2>1
  <2>2. CASE toServer' = toServer \o b
    BY <1>1, <2>2, RequestsSent
  <2> QED
    BY <2>1, <2>2
<1>3. Agreed(u) => Agreed(u)'
  BY DEF Agreed, PacketsKept
<1>4. CASE info[i].updateID = 0
  <2>1. Answering(l)' <=> Answering(l)
    BY <1>4 DEF Answering, PacketsKept
  <2>2. Waiting(i)'
    BY <1>2, <1>3, <1>4, <2>1 DEF RouteFollows, Waiting, Served
  <2> QED
    BY <1>4, <2>2 DEF RouteFollows
<1>5. CASE info[i].updateID # 0
  <2>1. Settled(i)'
    BY <1>2, <1>3, <1>5 DEF RouteFollows, Settled, Told, Served, PacketsKept
  <2> QED
    BY <1>5, <2>1 DEF RouteFollows
<1> QED
  BY <1>4, <1>5

\* A step that takes no packet keeps those that concern a route.
LEMMA PacketsSame ==
  ASSUME UNCHANGED toRouter, NEW i
  PROVE  PacketsKept(i)
BY DEF PacketsKept

\* To send nothing is to send an empty sequence of requests.
LEMMA NothingSent ==
  ASSUME NEW u, NEW l
  PROVE  <<>> \in Seq(Request) /\ Uncancelled(<<>>, u) /\ Lasting(<<>>, l, u)
BY DEF Uncancelled, Lasting

\* Routes and tables stay as they are.
LEMMA RibIDs ==
  ASSUME IDsOfPeer, UNCHANGED rib
  PROVE  IDsOfPeer' /\ Live' = Live
BY DEF IDsOfPeer, rib, Live

-----------------------------------------------------------------------------
(* Steps of the server.                                                    *)

\* The request the server processes.
LEMMA RequestTypes ==
  ASSUME IInv, toServer # <<>>
  PROVE  /\ Head(toServer) \in FittingRequest /\ toServer \in Seq(FittingRequest)
         /\ Head(toServer).type = "VERIFY" =>
              /\ Head(toServer).lid \in Lid \cup {0} /\ Head(toServer).uid \in Uid
              /\ Head(toServer).default \in Result
              /\ Head(toServer).lid # 0 => Fits(Head(toServer))
         /\ Head(toServer).type = "DELETE" => Head(toServer).uid \in Uid
         /\ known \in [Uid -> Result \cup {None}]
BY ServerTypes, HeadTailProperties DEF FittingRequest, Request

\* An answer does not change what is agreed about a registered update.
LEMMA AgreedAnswered ==
  ASSUME IInv, KnownIfRegistered, processValidationRequest, NEW u \in registered
  PROVE  /\ known'[u] = known[u]
         /\ Agreed(u) => Agreed(u)'
<1> DEFINE m == Head(toServer)
           r == IF known[m.uid] = None THEN m.default ELSE known[m.uid]
           n == Notice(m.lid, m.uid, r)
<1>1. m.type = "VERIFY" /\ m.uid \in Uid /\ m.default \in Result
  BY RequestTypes DEF processValidationRequest
<1>2. u \in Uid /\ known[u] # None
  BY ServerTypes DEF KnownIfRegistered
<1>3. /\ known' = IF known[m.uid] = None THEN [known EXCEPT ![m.uid] = "UNDEFINED"] ELSE known
      /\ sendQueue' = sendQueue \/ sendQueue' = Append(sendQueue, n)
      /\ toRouter' = toRouter
  BY DEF processValidationRequest
<1>4. known'[u] = known[u]
  BY <1>1, <1>2, <1>3, ServerTypes
<1>5. n.type = "NOTIFY" /\ n.uid = m.uid /\ n.result = r
  BY DEF Notice
<1>6. n \in Notification
  BY <1>1, RequestTypes, ServerTypes DEF Notice, Notification, processValidationRequest
<1>7. Of(n, u) => n.result = known[u]
  BY <1>2, <1>5 DEF Of
<1>8. sendQueue \in Seq(Notification)
  BY DEF IInv, Typed, TypeOK
<1> HIDE DEF n
<1>9. ASSUME Agreed(u), sendQueue' = Append(sendQueue, n) PROVE Agreed(u)'
  <2>1. Latest(sendQueue', u, known[u])
    BY <1>6, <1>7, <1>8, <1>9, NoticeAppended DEF Agreed
  <2>2. NoneOf(sendQueue', u) => NoneOf(sendQueue, u)
    BY <1>6, <1>8, <1>9, NoticeAppended
  <2> QED
    BY <1>3, <1>4, <1>9, <2>1, <2>2 DEF Agreed
<1>10. ASSUME Agreed(u), sendQueue' = sendQueue PROVE Agreed(u)'
  BY <1>3, <1>4, <1>10 DEF Agreed
<1> QED
  BY <1>3, <1>4, <1>9, <1>10

\* processValidationRequest: the answer joins the send queue and the router is
\* registered, before any deletion that follows the request.
LEMMA RequestFollows ==
  ASSUME IInv, KnownIfRegistered, processValidationRequest, NEW i \in Live \ crossed,
         RouteFollows(i), IDsOfPeer
  PROVE  RouteFollows(i)'
<1> DEFINE m == Head(toServer)
           r == IF known[m.uid] = None THEN m.default ELSE known[m.uid]
           n == Notice(m.lid, m.uid, r)
           u == info[i].own
           l == info[i].localID
<1>1. /\ m.type = "VERIFY" /\ m.uid \in Uid /\ m.default \in Result
      /\ m.lid # 0 => Fits(m)
      /\ m.lid \in Lid \cup {0} /\ toServer \in Seq(FittingRequest) /\ toServer # <<>>
      /\ known \in [Uid -> Result \cup {None}]
  BY RequestTypes DEF processValidationRequest
<1>2. /\ known' = IF known[m.uid] = None THEN [known EXCEPT ![m.uid] = "UNDEFINED"] ELSE known
      /\ sendQueue' = IF Answered(m, r) THEN Append(sendQueue, n) ELSE sendQueue
      /\ registered' = registered \cup {m.uid} /\ toServer' = Tail(toServer)
      /\ UNCHANGED <<info, toRouter, crossed, cancelled, overtaken, unsynced>>
  BY DEF processValidationRequest, rib, history
<1>3. n.type = "NOTIFY" /\ n.uid = m.uid /\ n.result = r /\ n.lid = m.lid
  BY DEF Notice
<1>4. n \in Notification /\ sendQueue \in Seq(Notification)
  <2>1. n \in Notification
    BY <1>1 DEF Notice, Notification
  <2> QED
    BY <2>1 DEF IInv, Typed, TypeOK
<1>5. u \in Uid /\ l \in Lid \cup {0} /\ (info[i].updateID = 0 <=> l # 0)
  BY PeersOwn
<1>10. m.lid # 0 /\ m.lid = l => m.uid = u
  BY <1>1 DEF Fits
<1>6. ASSUME Served(u) PROVE Served(u)'
  BY <1>1, <1>2, <1>6, RequestTaken DEF Served
<1>7. ASSUME u \in registered PROVE known'[u] = known[u] /\ (Agreed(u) => Agreed(u)') /\ known[u] # None
  <2>1. known[u] # None
    BY <1>7 DEF KnownIfRegistered
  <2>2. \A v \in registered : known'[v] = known[v] /\ (Agreed(v) => Agreed(v)')
    BY AgreedAnswered
  <2> QED
    BY <1>2, <1>7, <2>1, <2>2
<1> HIDE DEF m, r, n
<1>8. CASE info[i].updateID = 0
  <2>1. Waiting(i)
    BY <1>8 DEF RouteFollows
  <2>2. Lasting(toServer', l, u)
    BY <1>1, <1>2, <2>1, RequestTaken DEF Waiting
  <2>3. CASE Asks(m, l)
    <3>1. m.lid = l /\ m.uid = u /\ m.default = "UNDEFINED" /\ Uncancelled(toServer', u)
      <4>1. m.lid = l /\ m.uid = u
        BY <1>5, <1>8, <1>10, <2>3 DEF Asks
      <4>2. Lasting(toServer, l, u)
        BY <2>1 DEF Waiting
      <4>3. m.default = "UNDEFINED" /\ Uncancelled(Tail(toServer), u)
        BY <1>1, <2>3, <4>2, RequestTaken DEF m
      <4> QED
        BY <1>2, <4>1, <4>3
    <3>2. Answered(m, r)
      BY <1>5, <1>8, <3>1 DEF Answered
    <3>3. r = known'[u]
      BY <1>1, <1>2, <1>5, <3>1 DEF r
    <3>4. Of(n, u) /\ Answers(n, l)
      BY <1>3, <3>1 DEF Of, Answers
    <3>5. sendQueue' = Append(sendQueue, n)
      BY <1>2, <3>2
    <3>6. Latest(sendQueue', u, known'[u]) /\ ~NoneOf(sendQueue', u) /\ AnsweredIn(sendQueue', l)
      BY <1>3, <1>4, <3>3, <3>4, <3>5, NoticeAppended
    <3>7. Served(u)' /\ Agreed(u)' /\ Answering(l)'
      BY <1>2, <3>1, <3>6 DEF Served, Agreed, Answering
    <3>8. Waiting(i)'
      BY <1>2, <2>1, <2>2, <3>7 DEF Waiting
    <3> QED
      BY <1>2, <1>8, <3>8 DEF RouteFollows
  <2>4. CASE ~Asks(m, l)
    <3>1. AskedIn(toServer, l) => AskedIn(toServer', l)
      BY <1>1, <1>2, <2>4, RequestTaken DEF m
    <3>2. ~Answers(n, l)
      BY <1>1, <1>3, <2>4, Zenon DEF Answers, Asks
    <3>3. Answering(l)' <=> Answering(l)
      <4>1. CASE Answered(m, r)
        BY <1>2, <1>4, <3>2, <4>1, NoticeAppended DEF Answering
      <4>2. CASE ~Answered(m, r)
        BY <1>2, <4>2 DEF Answering
      <4> QED
        BY <4>1, <4>2
    <3>4. Answering(l) => Served(u)' /\ (u \notin overtaken => Agreed(u)')
      BY <1>6, <1>7, <2>1 DEF Waiting, Served
    <3>5. Waiting(i)'
      BY <1>2, <2>1, <2>2, <3>1, <3>3, <3>4 DEF Waiting
    <3> QED
      BY <1>2, <1>8, <3>5 DEF RouteFollows
  <2> QED
    BY <2>3, <2>4
<1>9. CASE info[i].updateID # 0
  <2>1. Settled(i) /\ Served(u) /\ u \in registered
    BY <1>9 DEF RouteFollows, Settled, Served
  <2>2. ASSUME u \notin overtaken PROVE Told(i)'
    <3>1. Told(i) /\ Agreed(u)' /\ known'[u] = known[u] /\ known[u] # None
      BY <1>7, <2>1, <2>2 DEF Settled, Told
    <3>2. ASSUME i \notin unsynced, NoneOf(toRouter, u), NoneOf(sendQueue', u),
                 info[i].result # known[u]
          PROVE  ComparedIn(toServer', u, info[i].result)
      <4>1. NoneOf(sendQueue, u) /\ ~(Answered(m, r) /\ Of(n, u))
        <5>1. CASE Answered(m, r)
          BY <1>2, <1>4, <3>2, <5>1, NoticeAppended
        <5>2. CASE ~Answered(m, r)
          BY <1>2, <3>2, <5>2
        <5> QED
          BY <5>1, <5>2
      <4>2. ComparedIn(toServer, u, info[i].result)
        BY <3>1, <3>2, <4>1 DEF Told
      <4>3. ComparedIn(toServer', u, info[i].result)
            \/ (Asks(m, 0) /\ m.uid = u /\ m.default = info[i].result)
        BY <1>1, <1>2, <4>2, RequestTaken DEF m
      <4>4. ASSUME m.uid = u, m.default = info[i].result PROVE FALSE
        <5>1. r = known[u]
          BY <3>1, <4>4 DEF r
        <5>2. Answered(m, r) /\ Of(n, u)
          BY <1>3, <3>2, <4>4, <5>1 DEF Answered, Of
        <5> QED
          BY <4>1, <5>2
      <4> QED
        BY <4>3, <4>4
    <3> QED
      BY <1>2, <3>1, <3>2 DEF Told
  <2>3. Settled(i)'
    BY <1>2, <1>6, <2>1, <2>2 DEF Settled
  <2> QED
    BY <1>2, <1>9, <2>3 DEF RouteFollows
<1> QED
  BY <1>8, <1>9

\* The thread of the send queue moves a notice, which stays where it was in the
\* order of all notices.
LEMMA AnswerFollows ==
  ASSUME IInv, sendQueueThreadLoop, NEW i \in Live, RouteFollows(i)
  PROVE  RouteFollows(i)'
<1> DEFINE m == Head(sendQueue)
           u == info[i].own
           l == info[i].localID
<1>1. /\ sendQueue \in Seq(Packet) /\ toRouter \in Seq(Packet) /\ m \in Packet /\ sendQueue # <<>>
  <2>1. sendQueue \in Seq(Notification) /\ toRouter \in Seq(Packet) /\ sendQueue # <<>>
    BY DEF IInv, Typed, TypeOK, Packet, sendQueueThreadLoop
  <2>2. m \in Notification /\ Notification \subseteq Packet
    BY <2>1, HeadTailProperties DEF Packet
  <2> QED
    BY <2>1, <2>2, SeqMonotonic
<1>2. /\ sendQueue' = Tail(sendQueue) /\ toRouter' = Append(toRouter, m)
      /\ UNCHANGED <<info, toServer, known, registered, overtaken, unsynced>>
  BY DEF sendQueueThreadLoop, rib, history
<1> HIDE DEF m
<1>3. /\ NoneOf(sendQueue, u) <=> NoneOf(sendQueue', u) /\ ~Of(m, u)
      /\ NoneOf(toRouter', u) <=> NoneOf(toRouter, u) /\ ~Of(m, u)
      /\ AnsweredIn(sendQueue, l) <=> AnsweredIn(sendQueue', l) \/ Answers(m, l)
      /\ AnsweredIn(toRouter', l) <=> AnsweredIn(toRouter, l) \/ Answers(m, l)
  BY <1>1, <1>2, NoticeTaken, NoticeAppended DEF m
<1>4. ASSUME Agreed(u) PROVE Agreed(u)'
  <2> DEFINE r == known[u]
  <2>1. /\ Latest(sendQueue', u, r)
        /\ Of(m, u) /\ NoneOf(sendQueue', u) => m.result = r
    BY <1>1, <1>2, <1>4, NoticeTaken DEF Agreed, m
  <2>2. NoneOf(sendQueue', u) => (IF Of(m, u) THEN m.result = r ELSE Latest(toRouter, u, r))
    BY <1>3, <1>4, <2>1 DEF Agreed
  <2>3. (IF Of(m, u) THEN m.result = r ELSE Latest(toRouter, u, r)) => Latest(toRouter', u, r)
    BY <1>1, <1>2, NoticeAppended
  <2> QED
    BY <1>2, <2>1, <2>2, <2>3 DEF Agreed
<1>5. Answering(l)' <=> Answering(l)
  BY <1>2, <1>3 DEF Answering
<1>6. CASE info[i].updateID = 0
  <2>1. Waiting(i)'
    BY <1>2, <1>4, <1>5, <1>6 DEF RouteFollows, Waiting, Served
  <2> QED
    BY <1>2, <1>6, <2>1 DEF RouteFollows
<1>7. CASE info[i].updateID # 0
  <2>1. Settled(i)'
    BY <1>2, <1>3, <1>4, <1>7 DEF RouteFollows, Settled, Told, Served
  <2> QED
    BY <1>2, <1>7, <2>1 DEF RouteFollows
<1> QED
  BY <1>6, <1>7

\* Deletions concern other updates than those of routes that have, or are about
\* to get, their update ID.
LEMMA DeletionFollows ==
  ASSUME IInv, deleteUpdateFromCache, NEW i \in Live, RouteFollows(i)
  PROVE  RouteFollows(i)'
<1> DEFINE m == Head(toServer)
           u == info[i].own
           l == info[i].localID
<1>1. m.type = "DELETE" /\ toServer \in Seq(FittingRequest) /\ toServer # <<>>
  BY RequestTypes DEF deleteUpdateFromCache
<1>2. /\ registered' = registered \ {m.uid} /\ toServer' = Tail(toServer)
      /\ UNCHANGED <<info, toRouter, sendQueue, known, overtaken, unsynced>>
  BY DEF deleteUpdateFromCache, rib, history
<1>3. ASSUME Served(u) PROVE Served(u)'
  <2>1. Uncancelled(toServer', u) /\ m.uid # u
    BY <1>1, <1>2, <1>3, RequestTaken DEF Served, Cancels
  <2> QED
    BY <1>2, <1>3, <2>1 DEF Served
<1>4. /\ \A r : ComparedIn(toServer, u, r) => ComparedIn(toServer', u, r)
      /\ AskedIn(toServer, l) => AskedIn(toServer', l)
      /\ Lasting(toServer, l, u) => Lasting(toServer', l, u)
  BY <1>1, <1>2, RequestTaken DEF Asks
<1> HIDE DEF m
<1>5. Agreed(u)' <=> Agreed(u)
  BY <1>2 DEF Agreed
<1>6. CASE info[i].updateID = 0
  <2>1. Waiting(i)'
    BY <1>2, <1>3, <1>4, <1>5, <1>6 DEF RouteFollows, Waiting, Answering
  <2> QED
    BY <1>2, <1>6, <2>1 DEF RouteFollows
<1>7. CASE info[i].updateID # 0
  <2>1. Settled(i)'
    BY <1>2, <1>3, <1>4, <1>5, <1>7 DEF RouteFollows, Settled, Told
  <2> QED
    BY <1>2, <1>7, <2>1 DEF RouteFollows
<1> QED
  BY <1>6, <1>7

\* A result that changes is broadcast if the router is registered; if it overtakes
\* another one in the send queue, that is recorded.
LEMMA BroadcastFollows ==
  ASSUME IInv, Offline, IDsOfPeer, NEW v \in Uid, NEW r \in Result,
         known' = [known EXCEPT ![v] = r], Broadcast(v, r),
         UNCHANGED <<info, toServer, registered, sendQueue, connected, unsynced>>,
         NEW i \in Live, RouteFollows(i)
  PROVE  RouteFollows(i)'
<1> DEFINE n == Notice(0, v, r)
           u == info[i].own
           l == info[i].localID
<1>1. toRouter \in Seq(Packet) /\ n \in Packet /\ known \in [Uid -> Result \cup {None}]
  BY DEF IInv, Typed, TypeOK, Packet, Notice, Notification
<1>2. n.type = "NOTIFY" /\ n.uid = v /\ n.result = r /\ n.lid = 0
  BY DEF Notice
<1>3. /\ u \in Uid /\ (info[i].updateID = 0 <=> l # 0)
  BY PeersOwn
<1>4. toRouter' = toRouter \/ toRouter' = Append(toRouter, n)
  BY DEF Broadcast
<1>5. connected /\ v \in registered => toRouter' = Append(toRouter, n)
  BY DEF Broadcast
<1>6. ~(connected /\ v \in registered) => UNCHANGED <<toRouter, overtaken>>
  BY DEF Broadcast
<1>7. v \notin overtaken' /\ connected /\ v \in registered =>
        \A k \in DOMAIN sendQueue : sendQueue[k].uid = v => sendQueue[k].result = r
  BY DEF Broadcast
<1>8. u # v => (u \in overtaken' <=> u \in overtaken)
  BY DEF Broadcast
<1> HIDE DEF n
<1>9. /\ NoneOf(toRouter', u) => NoneOf(toRouter, u)
      /\ l # 0 => (AnsweredIn(toRouter', l) <=> AnsweredIn(toRouter, l))
  <2>1. CASE toRouter' = toRouter
    BY <2>1
  <2>2. CASE toRouter' = Append(toRouter, n)
    BY <1>1, <1>2, <2>2, NoticeAppended DEF Answers
  <2> QED
    BY <1>4, <2>1, <2>2
<1>10. ASSUME u # v, Agreed(u) PROVE Agreed(u)' /\ known'[u] = known[u]
  <2>1. known'[u] = known[u]
    BY <1>1, <1>3, <1>10
  <2>2. Latest(toRouter, u, known[u]) => Latest(toRouter', u, known[u])
    <3>1. CASE toRouter' = toRouter
      BY <3>1
    <3>2. CASE toRouter' = Append(toRouter, n)
      <4>1. ~Of(n, u)
        BY <1>2, <1>10 DEF Of
      <4>2. \A x : (IF Of(n, u) THEN n.result = x ELSE Latest(toRouter, u, x)) =>
                      Latest(Append(toRouter, n), u, x)
        BY <1>1, NoticeAppended
      <4> QED
        BY <3>2, <4>1, <4>2
    <3> QED
      BY <1>4, <3>1, <3>2
  <2> QED
    BY <1>10, <2>1, <2>2 DEF Agreed
<1>11. ASSUME u = v, u \in registered, connected
       PROVE  ~NoneOf(toRouter', u) /\ (u \notin overtaken' => Agreed(u)')
  <2>1. toRouter' = Append(toRouter, n) /\ Of(n, u) /\ n.result = r /\ known'[u] = r
    BY <1>1, <1>2, <1>5, <1>11 DEF Of
  <2>2. ~NoneOf(toRouter', u) /\ Latest(toRouter', u, r)
    BY <1>1, <2>1, NoticeAppended
  <2>3. u \notin overtaken' => Latest(sendQueue, u, r)
    BY <1>7, <1>11 DEF Latest, Of
  <2> QED
    BY <2>1, <2>2, <2>3 DEF Agreed
<1>12. l # 0 => (Answering(l)' <=> Answering(l))
  BY <1>9 DEF Answering
<1>13. Served(u)' <=> Served(u)
  BY DEF Served
<1>14. ASSUME ~connected
       PROVE  i \in unsynced' /\ ~Answering(l) /\ Agreed(u)'
  <2>1. toRouter = <<>> /\ sendQueue = <<>> /\ i \in unsynced /\ toRouter' = <<>>
    BY <1>6, <1>14 DEF Offline
  <2> QED
    BY <2>1 DEF Answering, AnsweredIn, Agreed, Latest
<1>15. CASE info[i].updateID = 0
  <2>1. Answering(l) => connected /\ u \in registered
    BY <1>14, <1>15 DEF RouteFollows, Waiting, Served
  <2>2. Answering(l) => (u \notin overtaken' => Agreed(u)')
    BY <1>8, <1>10, <1>11, <1>15, <2>1 DEF RouteFollows, Waiting
  <2>3. Waiting(i)'
    BY <1>3, <1>12, <1>13, <1>15, <2>2 DEF RouteFollows, Waiting
  <2> QED
    BY <1>15, <2>3 DEF RouteFollows
<1>16. CASE info[i].updateID # 0
  <2>1. Served(u) /\ (u \notin overtaken => Told(i))
    BY <1>16 DEF RouteFollows, Settled
  <2>2. ASSUME u \notin overtaken' PROVE Told(i)'
    <3>1. CASE ~connected
      BY <1>14, <3>1 DEF Told
    <3>2. CASE connected /\ u = v
      BY <1>11, <2>1, <2>2, <3>2 DEF Told, Served
    <3>3. CASE u # v
      BY <1>8, <1>9, <1>10, <2>1, <2>2, <3>3 DEF Told
    <3> QED
      BY <3>1, <3>2, <3>3
  <2>3. Settled(i)'
    BY <1>13, <2>1, <2>2 DEF Settled
  <2> QED
    BY <1>16, <2>3 DEF RouteFollows
<1> QED
  BY <1>15, <1>16

-----------------------------------------------------------------------------
(* Steps of the connection.                                                *)

\* Every route is unsynchronised when the connection is lost.
LEMMA DisconnectFollows ==
  ASSUME Disconnect, NEW i \in Live, RouteFollows(i)
  PROVE  RouteFollows(i)'
<1> DEFINE u == info[i].own
           l == info[i].localID
<1>1. /\ toServer' = <<>> /\ toRouter' = <<>> /\ sendQueue' = <<>> /\ i \in unsynced'
      /\ UNCHANGED <<info, known, registered, overtaken>>
  BY DEF Disconnect, rib
<1>2. ~Answering(l)' /\ Agreed(u)' /\ Lasting(toServer', l, u) /\ Uncancelled(toServer', u)
  BY <1>1 DEF Answering, AnsweredIn, Agreed, Latest, Lasting, Uncancelled
<1>3. CASE info[i].updateID = 0
  <2>1. Waiting(i)'
    BY <1>1, <1>2, <1>3 DEF RouteFollows, Waiting
  <2> QED
    BY <1>1, <1>3, <2>1 DEF RouteFollows
<1>4. CASE info[i].updateID # 0
  <2>1. Settled(i)'
    BY <1>1, <1>2, <1>4 DEF RouteFollows, Settled, Told, Served
  <2> QED
    BY <1>1, <1>4, <2>1 DEF RouteFollows
<1> QED
  BY <1>3, <1>4

\* A new connection carries the call for a synchronisation only.
LEMMA ReconnectFollows ==
  ASSUME Offline, checkClientConnection, NEW i \in Live, RouteFollows(i)
  PROVE  RouteFollows(i)'
<1> DEFINE u == info[i].own
           l == info[i].localID
<1>1. /\ toServer = <<>> /\ toRouter = <<>> /\ sendQueue = <<>> /\ i \in unsynced
      /\ toRouter' = <<[type |-> "SYNC"]>>
      /\ UNCHANGED <<info, toServer, sendQueue, known, registered, overtaken, unsynced>>
  BY DEF checkClientConnection, rib, server, history, Offline
<1>2. DOMAIN toRouter' = {1} /\ toRouter'[1].type = "SYNC"
  BY <1>1
<1>3. ~Answering(l)' /\ Agreed(u)'
  BY <1>1, <1>2 DEF Answering, AnsweredIn, Answers, Agreed, Latest, Of
<1>4. CASE info[i].updateID = 0
  <2>1. Waiting(i)'
    BY <1>1, <1>3, <1>4 DEF RouteFollows, Waiting
  <2> QED
    BY <1>1, <1>4, <2>1 DEF RouteFollows
<1>5. CASE info[i].updateID # 0
  <2>1. Settled(i)'
    BY <1>1, <1>3, <1>5 DEF RouteFollows, Settled, Told, Served
  <2> QED
    BY <1>1, <1>5, <2>1 DEF RouteFollows
<1> QED
  BY <1>4, <1>5

-----------------------------------------------------------------------------
(* Steps of the router.                                                    *)

\* Withdrawals send nothing until the route is reaped.
LEMMA WithdrawalFollows ==
  ASSUME IInv, NEW p \in Peer, Withdraw(p), NEW i \in Live, RouteFollows(i)
  PROVE  RouteFollows(i)'
<1>1. PICK j \in RouteOf(p) : info' = [info EXCEPT ![j].removed = TRUE]
  BY DEF Withdraw
<1>2. /\ info'[i].own = info[i].own /\ info'[i].updateID = info[i].updateID
      /\ info'[i].localID = info[i].localID /\ info'[i].result = info[i].result
  BY <1>1, RouterTypes DEF Route
<1>3. UNCHANGED <<toServer, toRouter, sendQueue, known, registered, overtaken, unsynced>>
  BY DEF Withdraw, server, history
<1> QED
  BY <1>2, <1>3, RouteKept, PacketsSame, NothingSent

\* What the synchronisation sends is a comparison, or a request sent again.
LEMMA SynchronisationFollows ==
  ASSUME IInv, Offline, IDsOfPeer, handleSRxSynchRequest, NEW i \in Live, RouteFollows(i)
  PROVE  RouteFollows(i)'
<1> DEFINE u == info[i].own
           l == info[i].localID
<1>1. PICK j \in Live : SendToServer(<<Verify(info[j])>>) /\ unsynced' = unsynced \ {j}
  BY DEF handleSRxSynchRequest
<1>2. /\ toRouter # <<>> /\ Head(toRouter).type = "SYNC" /\ toRouter' = Tail(toRouter)
      /\ UNCHANGED <<info, sendQueue, known, registered, overtaken>>
  BY DEF handleSRxSynchRequest, rib, server
<1> DEFINE m == Verify(info[j])
           b == <<m>>
<1>3. connected /\ toServer' = toServer \o b
  BY <1>1, <1>2 DEF Offline, SendToServer
<1>4. toRouter \in Seq(Packet) /\ toServer \in Seq(Request)
  BY DEF IInv, Typed, TypeOK, Packet, Request
<1>5. PacketsKept(i)
  <2>1. ~Of(Head(toRouter), u) /\ ~Answers(Head(toRouter), l)
    BY <1>2 DEF Of, Answers
  <2> QED
    BY <1>2, <1>4, <2>1, NoticeTaken DEF PacketsKept
<1>6. info[j] \in Route /\ info[i] \in Route
  BY RouterTypes
<1>7. m \in Request /\ m.type = "VERIFY" /\ m.lid = info[j].localID /\ m.uid = info[j].own
      /\ m.default = info[j].result
  BY <1>6 DEF Verify, Request, Route
<1> HIDE DEF m
<1>8. b \in Seq(Request) /\ DOMAIN b = {1} /\ b[1] = m
  BY <1>7
<1> HIDE DEF b
<1>9. Uncancelled(b, u)
  BY <1>7, <1>8 DEF Uncancelled, Cancels
<1>10. info[i].updateID = 0 => Lasting(b, l, u)
  <2> SUFFICES ASSUME info[i].updateID = 0, m.lid = l PROVE Lasting(b, l, u)
    BY <1>8 DEF Lasting, Asks
  <2>1. j = i
    <3>1. l # 0
      BY PeersOwn
    <3> QED
      BY <1>7, <3>1 DEF IInv, RoutesEntered, RoutesDiffer
  <2>2. m.default = "UNDEFINED"
    BY <1>7, <2>1 DEF RouteFollows, Waiting
  <2> QED
    BY <1>7, <1>8, <2>2 DEF Lasting, Cancels
<1>11. CASE j # i
  <2>1. i \in unsynced => i \in unsynced'
    BY <1>1, <1>11
  <2> QED
    BY <1>2, <1>3, <1>5, <1>8, <1>9, <1>10, <2>1, RouteKept
<1>12. CASE j = i
  <2>1. /\ Uncancelled(toServer, u) => Uncancelled(toServer', u)
        /\ AskedIn(b, l) => AskedIn(toServer', l)
        /\ ComparedIn(b, u, info[i].result) => ComparedIn(toServer', u, info[i].result)
        /\ info[i].updateID = 0 /\ Lasting(toServer, l, u) => Lasting(toServer', l, u)
    BY <1>3, <1>4, <1>8, <1>9, <1>10, RequestsSent
  <2>2. Agreed(u) => Agreed(u)'
    BY <1>2, <1>5 DEF Agreed, PacketsKept
  <2>3. CASE info[i].updateID = 0
    <3>1. Answering(l)' <=> Answering(l)
      BY <1>2, <1>5, <2>3 DEF Answering, PacketsKept
    <3>2. AskedIn(b, l)
      BY <1>7, <1>8, <1>12 DEF AskedIn, Asks
    <3>3. Waiting(i)'
      BY <1>2, <2>1, <2>2, <2>3, <3>1, <3>2 DEF RouteFollows, Waiting, Served
    <3> QED
      BY <1>2, <2>3, <3>3 DEF RouteFollows
  <2>4. CASE info[i].updateID # 0
    <3>1. l = 0
      BY <2>4, PeersOwn
    <3>2. ComparedIn(b, u, info[i].result)
      BY <1>7, <1>8, <1>12, <3>1 DEF ComparedIn, Asks
    <3>3. Settled(i)'
      BY <1>2, <2>1, <2>2, <2>4, <3>2 DEF RouteFollows, Settled, Told, Served
    <3> QED
      BY <1>2, <2>4, <3>3 DEF RouteFollows
  <2> QED
    BY <2>3, <2>4
<1> QED
  BY <1>11, <1>12

\* The updates of reaped routes are deleted, not those of others.
LEMMA ReapedFollows ==
  ASSUME IInv, IDsOfPeer, Process, NEW i \in Live, i \in Live', RouteFollows(i)
  PROVE  RouteFollows(i)'
<1> DEFINE u == info[i].own
           l == info[i].localID
<1>1. /\ info' = [j \in Id |-> IF j \in Reaped THEN None ELSE info[j]]
      /\ \E s \in Deletes : SendToServer(s)
      /\ unsynced' = unsynced \ Reaped
      /\ UNCHANGED <<toRouter, sendQueue, known, registered, overtaken>>
  BY DEF Process, server
<1>2. i \notin Reaped /\ info'[i] = info[i]
  BY <1>1 DEF Live
<1>3. PICK s \in Deletes : SendToServer(s)
  BY <1>1
<1> DEFINE T == {j \in Reaped : info[j].updateID # 0}
<1>4. PICK o \in Ordered(T) : s = [n \in DOMAIN o |-> Delete(info[o[n]].updateID)]
  BY <1>3 DEF Deletes
<1>5. DOMAIN s = DOMAIN o /\ \A n \in DOMAIN s : o[n] \in T /\ s[n] = Delete(info[o[n]].updateID)
  BY <1>4 DEF Ordered
<1>6. Uncancelled(s, u) /\ Lasting(s, l, u)
  <2>1. \A j \in T : j \in Live /\ j # i /\ info[j].updateID # u
    BY <1>2, PeersOwn DEF Reaped
  <2>2. \A n \in DOMAIN s : ~Cancels(s[n], u) /\ ~Asks(s[n], l)
    BY <1>5, <2>1 DEF Delete, Cancels, Asks
  <2> QED
    BY <2>2 DEF Uncancelled, Lasting
<1>7. s \in Seq(Request)
  <2>1. Cardinality(T) \in Nat /\ o \in [1 .. Cardinality(T) -> T]
    <3>1. Id = 1 .. MaxUpdates /\ MaxUpdates \in Nat
      BY RouterTypes DEF Id
    <3>2. IsFiniteSet(Id)
      BY <3>1, FS_Interval
    <3>3. T \subseteq Id
      BY DEF Reaped, Live
    <3> QED
      BY <1>4, <3>2, <3>3, FS_Subset, FS_CardinalityType DEF Ordered
  <2>2. \A j \in T : Delete(info[j].updateID) \in Request
    <3>1. \A j \in T : info[j] \in Route
      BY RouterTypes DEF Reaped
    <3> QED
      BY <3>1 DEF Delete, Request, Route
  <2> HIDE DEF T
  <2>3. s \in [1 .. Cardinality(T) -> Request]
    BY <1>4, <2>1, <2>2
  <2> QED
    BY <2>1, <2>3, SeqDef
<1>8. toServer' \in {toServer, toServer \o s}
  BY <1>3 DEF SendToServer
<1>9. i \in unsynced => i \in unsynced'
  BY <1>1, <1>2
<1> QED
  BY <1>1, <1>2, <1>6, <1>7, <1>8, <1>9, RouteKept, PacketsSame

\* What an announcement sends: the deletion of an update of the peer, if any, and
\* the request for the new one, under a new local ID.
LEMMA BothSent ==
  ASSUME NEW d, NEW m
  PROVE  <<>> \o <<m>> = <<m>> /\ <<d>> \o <<m>> = <<d, m>>
<1> DEFINE S == {d, m}
<1>1. <<m>> \in Seq(S) /\ <<d>> \in Seq(S) /\ m \in S
  OBVIOUS
<1> HIDE DEF S
<1>2. <<>> \o <<m>> = <<m>>
  BY <1>1, ConcatEmptySeq
<1>3. <<d>> \o <<m>> = Append(<<d>>, m)
  BY <1>1, AppendIsConcat
<1>4. Append(<<d>>, m) = <<d, m>>
  <2> DEFINE t == Append(<<d>>, m)
  <2>1. /\ Len(<<d>>) = 1 /\ <<d>>[1] = d
        /\ <<d, m>> \in Seq(S) /\ Len(<<d, m>>) = 2 /\ <<d, m>>[1] = d /\ <<d, m>>[2] = m
    BY DEF S
  <2>2. t \in Seq(S) /\ Len(t) = 2 /\ t[1] = d /\ t[2] = m
    BY <1>1, <2>1, AppendProperties
  <2> HIDE DEF t
  <2>3. \A k \in 1 .. 2 : t[k] = <<d, m>>[k]
    BY <2>1, <2>2
  <2>4. t = <<d, m>>
    BY <2>1, <2>2, <2>3, SeqEqual
  <2> QED
    BY <2>4 DEF t
<1> QED
  BY <1>2, <1>3, <1>4

\* No deletion follows the request of an announcement, and a deletion before it
\* concerns the update the route had.
LEMMA AnnouncementSent ==
  ASSUME NEW r, NEW b,
         r.own \in Uid, r.localID \in Lid, r.result = "UNDEFINED",
         b = <<Verify(r)>> \/ \E v \in Uid : b = <<Delete(v), Verify(r)>>
  PROVE  /\ b \in Seq(Request)
         /\ Lasting(b, r.localID, r.own) /\ AskedIn(b, r.localID)
         /\ \A l, u : l # r.localID => Lasting(b, l, u)
         /\ \A u : b = <<Verify(r)>> => Uncancelled(b, u)
         /\ \A u, v : b = <<Delete(v), Verify(r)>> /\ u # v => Uncancelled(b, u)
<1> DEFINE m == Verify(r)
<1>1. m \in Request /\ m.type = "VERIFY" /\ m.lid = r.localID /\ m.default = "UNDEFINED"
  BY DEF Verify, Request, Result
<1>2. \A v : Delete(v).type = "DELETE" /\ Delete(v).uid = v /\ (v \in Uid => Delete(v) \in Request)
  BY DEF Delete, Request
<1> HIDE DEF m
<1>3. CASE b = <<m>>
  <2>1. b \in Seq(Request) /\ DOMAIN b = {1} /\ b[1] = m
    BY <1>1, <1>3
  <2>2. \A v : b # <<Delete(v), m>>
    BY <1>3
  <2> QED
    BY <1>1, <2>1, <2>2 DEF Lasting, AskedIn, Uncancelled, Asks, Cancels, m
<1>4. ASSUME NEW v \in Uid, b = <<Delete(v), m>>
      PROVE  /\ b \in Seq(Request)
             /\ Lasting(b, r.localID, r.own) /\ AskedIn(b, r.localID)
             /\ \A l, u : l # r.localID => Lasting(b, l, u)
             /\ b # <<m>>
             /\ \A u : u # v => Uncancelled(b, u)
             /\ \A w : b = <<Delete(w), m>> => w = v
  <2>1. b \in Seq(Request) /\ DOMAIN b = {1, 2} /\ b[1] = Delete(v) /\ b[2] = m
    BY <1>1, <1>2, <1>4
  <2>2. b # <<m>>
    BY <1>4
  <2>3. \A w : b = <<Delete(w), m>> => w = v
    BY <1>2, <2>1
  <2>4. \A u : u # v => Uncancelled(b, u)
    BY <1>1, <1>2, <2>1 DEF Uncancelled, Cancels
  <2>5. /\ Lasting(b, r.localID, r.own) /\ AskedIn(b, r.localID)
        /\ \A l, u : l # r.localID => Lasting(b, l, u)
    BY <1>1, <1>2, <2>1 DEF Lasting, AskedIn, Asks, Cancels
  <2> QED
    BY <2>1, <2>2, <2>3, <2>4, <2>5
<1> QED
  BY <1>3, <1>4 DEF m

\* The route of an announcement waits under its new local ID; the other routes
\* follow as before.
LEMMA AnnouncementFollows ==
  ASSUME IInv, Offline, IDsOfPeer, NEW p \in Peer, NEW u \in UidOf[p], NEW j \in Id,
         updates < MaxUpdates, NEW b,
         LET r == NewRoute(p, u, lid + 1)
         IN /\ info' = [info EXCEPT ![j] = r]
            /\ \/ b = <<Verify(r)>>
               \/ /\ j \in Live /\ info[j].updateID # 0
                  /\ b = <<Delete(info[j].updateID), Verify(r)>>,
         SendToServer(b), Unsynced(j),
         UNCHANGED <<toRouter, sendQueue, known, registered, overtaken>>
  PROVE  /\ RouteFollows(j)'
         /\ \A i \in Live \ {j} : RouteFollows(i) => RouteFollows(i)'
<1> DEFINE r == NewRoute(p, u, lid + 1)
           n == lid + 1
<1>1. /\ r.own = u /\ r.localID = n /\ r.result = "UNDEFINED" /\ r.updateID = 0
      /\ info'[j] = r
  BY RouterTypes DEF NewRoute
<1>2. u \in Uid /\ n \in Lid /\ lid < n
  BY RouterTypes DEF Uid, Lid
<1>3. b = <<Verify(r)>> \/ \E v \in Uid : b = <<Delete(v), Verify(r)>>
  <2>1. ASSUME j \in Live, info[j].updateID # 0 PROVE info[j].updateID \in Uid
    BY <2>1, RouterTypes DEF Route
  <2> QED
    BY <2>1
<1>4. /\ b \in Seq(Request) /\ Lasting(b, n, u) /\ AskedIn(b, n)
      /\ \A l, v : l # n => Lasting(b, l, v)
      /\ \A v : b = <<Verify(r)>> => Uncancelled(b, v)
      /\ \A v, w : b = <<Delete(w), Verify(r)>> /\ v # w => Uncancelled(b, v)
  <2> HIDE DEF r, n
  <2> QED
    BY <1>1, <1>2, <1>3, AnnouncementSent
<1>5. b = <<Verify(r)>> \/ (j \in Live /\ info[j].updateID # 0 /\ b = <<Delete(info[j].updateID), Verify(r)>>)
  OBVIOUS
<1> HIDE DEF r
<1>6. toServer' \in {toServer, toServer \o b} /\ toServer \in Seq(Request)
  BY DEF SendToServer, IInv, Typed, TypeOK, Request
<1>7. ASSUME NEW i \in Live \ {j}, RouteFollows(i) PROVE RouteFollows(i)'
  <2>1. info'[i] = info[i]
    BY <1>7
  <2>2. Uncancelled(b, info[i].own)
    BY <1>4, <1>5, <1>7, PeersOwn
  <2>3. info[i].updateID = 0 => Lasting(b, info[i].localID, info[i].own)
    <3>1. info[i].localID # n
      BY <1>2, <1>7, PeersOwn, RouterTypes DEF Lid
    <3> QED
      BY <1>4, <3>1
  <2>4. i \in unsynced => i \in unsynced'
    BY <1>7 DEF Unsynced
  <2> QED
    BY <1>4, <1>6, <1>7, <2>1, <2>2, <2>3, <2>4, RouteKept, PacketsSame
<1>8. ~AskedIn(toServer, n) /\ ~Answering(n)
  <2>1. \A k \in DOMAIN toServer : ~Asks(toServer[k], n)
    BY <1>2, QueuesTyped, RouterTypes DEF Asks, FittingRequest, Fits, Lid
  <2>2. \A k \in DOMAIN toRouter : ~Answers(toRouter[k], n)
    BY <1>2, QueuesTyped, RouterTypes DEF Answers, FittingPacket, FittingNotice, Fits, Lid
  <2>3. \A k \in DOMAIN sendQueue : ~Answers(sendQueue[k], n)
    BY <1>2, QueuesTyped, RouterTypes DEF Answers, FittingNotice, Fits, Lid
  <2> QED
    BY <2>1, <2>2, <2>3 DEF AskedIn, Answering, AnsweredIn
<1>9. RouteFollows(j)'
  <2>1. Lasting(toServer, n, u)
    BY <1>8 DEF Lasting, AskedIn
  <2>2. Lasting(toServer', n, u)
    <3>1. Lasting(toServer \o b, n, u)
      BY <1>4, <1>6, <1>8, <2>1, RequestsSent
    <3> QED
      BY <1>6, <2>1, <3>1
  <2>3. ~AnsweredIn(toRouter', n) /\ ~AnsweredIn(sendQueue', n)
    BY <1>8 DEF Answering
  <2>4. j \in unsynced' \/ AskedIn(toServer', n)
    <3>1. CASE connected
      BY <1>4, <1>6, <3>1, RequestsSent DEF SendToServer
    <3>2. CASE ~connected
      BY <3>2 DEF Unsynced
    <3> QED
      BY <3>1, <3>2
  <2> HIDE DEF n
  <2>5. Waiting(j)'
    BY <1>1, <2>2, <2>3, <2>4 DEF Waiting, Answering
  <2> QED
    BY <1>1, <2>5 DEF RouteFollows
<1> QED
  BY <1>7, <1>9

\* A result that is taken from the packets.
LEMMA ResultFollows ==
  ASSUME IInv, IDsOfPeer, handleSRxValidationResult, up', NEW i \in Live \ crossed,
         info[i].own \notin cancelled', RouteFollows(i)
  PROVE  RouteFollows(i)'
<1> DEFINE m == Head(toRouter)
           f == IF m.lid # 0 THEN Fetch(lids, m.lid) ELSE Fetch(uids, m.uid)
           u == info[i].own
           l == info[i].localID
<1>1. /\ m.type = "NOTIFY" /\ toRouter # <<>> /\ toRouter' = Tail(toRouter)
      /\ UNCHANGED <<sendQueue, known, registered, overtaken, unsynced>>
      /\ IF f = 0 THEN Refuse(m)
         ELSE IF f \notin Live THEN WriteToFreed
         ELSE IF m.lid # 0 THEN Bind(f, m) ELSE Update(f, m)
  BY DEF handleSRxValidationResult, server
<1>2. m \in FittingNotice /\ toRouter \in Seq(FittingPacket)
  BY <1>1, ServerTypes, HeadTailProperties DEF FittingPacket
<1>3. /\ m.uid \in Uid /\ m.result \in Result /\ m.lid \in Lid \cup {0}
      /\ m.lid # 0 => Fits(m)
  BY <1>2 DEF FittingNotice, Notification
<1>4. m.lid = l /\ l # 0 => m.uid = u
  BY <1>3 DEF Fits
<1>5. ASSUME f # 0, m.lid # 0 PROVE \E e \in lids : e.key = m.lid /\ e.info = f
  <2>1. f = Fetch(lids, m.lid)
    BY <1>5
  <2> HIDE DEF f
  <2>2. Fetch(lids, m.lid) = 0 \/ \E e \in lids : e.key = m.lid /\ e.info = Fetch(lids, m.lid)
    BY RouterTypes, Fetched
  <2> QED
    BY <1>5, <2>1, <2>2
<1>6. ASSUME f # 0, m.lid = 0 PROVE \E e \in uids : e.key = m.uid /\ e.info = f
  <2>1. f = Fetch(uids, m.uid)
    BY <1>6
  <2> HIDE DEF f
  <2>2. Fetch(uids, m.uid) = 0 \/ \E e \in uids : e.key = m.uid /\ e.info = Fetch(uids, m.uid)
    BY RouterTypes, Fetched
  <2> QED
    BY <1>6, <2>1, <2>2
<1>7. u \in Uid /\ u # 0 /\ (info[i].updateID = 0 <=> l # 0)
      /\ (info[i].updateID # 0 => info[i].updateID = u)
      /\ \A j \in Live : j # i => u \notin UidOf[info[j].peer]
  BY PeersOwn
<1> HIDE DEF m, f
<1>8. f = 0 \/ f \in Live
  BY <1>1 DEF WriteToFreed
<1>9. ASSUME f = i, m.lid # 0 PROVE l = m.lid
  BY <1>5, <1>7, <1>8, <1>9, RouterTypes DEF IInv, RoutesEntered, LocalEntries
<1>10. ASSUME f = i, m.lid = 0 PROVE info[i].updateID = m.uid
  <2>1. i # 0
    BY RouterTypes
  <2> QED
    BY <1>6, <1>10, <2>1 DEF IInv, RoutesEntered, UpdateEntries
<1>11. ASSUME NEW route \in Route, NEW j \in Live, SetResult(j, m.result, route)
       PROVE  /\ \A k \in Live \ {j} : info'[k] = info[k]
              /\ SameName(info'[j], route) /\ info'[j].result = m.result
  <2>1. SameName(WithResult(route, m.result), route) /\ WithResult(route, m.result).result = m.result
    BY <1>3, ResultOfRoute
  <2> QED
    BY <1>11, <2>1, RouterTypes DEF SetResult
<1>12. f \in Live => info[f] \in Route
  BY RouterTypes
<1>13. CASE m.uid # u
  <2>1. f # i
    <3>1. m.lid # 0 => f # i
      BY <1>4, <1>9, <1>13
    <3>2. m.lid = 0 => f # i
      BY <1>3, <1>7, <1>10, <1>13, RouterAssumption
    <3> QED
      BY <3>1, <3>2
  <2>2. info'[i] = info[i]
    <3>1. CASE f = 0
      BY <1>1, <3>1 DEF Refuse
    <3>2. CASE f # 0 /\ m.lid # 0
      <4> DEFINE route == [info[f] EXCEPT !.updateID = m.uid, !.localID = 0, !.hash = "uid"]
      <4>1. route \in Route
        BY <1>3, <1>8, <1>12, <3>2 DEF Route
      <4>2. SetResult(f, m.result, route)
        BY <1>1, <1>8, <3>2 DEF Bind
      <4> HIDE DEF route
      <4> QED
        BY <1>8, <1>11, <2>1, <3>2, <4>1, <4>2
    <3>3. CASE f # 0 /\ m.lid = 0
      <4>1. SetResult(f, m.result, info[f])
        BY <1>1, <1>8, <3>3 DEF Update
      <4> QED
        BY <1>8, <1>11, <1>12, <2>1, <3>3, <4>1
    <3> QED
      BY <3>1, <3>2, <3>3
  <2>3. PacketsKept(i)
    <3>1. ~Of(m, u) /\ (info[i].updateID = 0 => ~Answers(m, l))
      BY <1>4, <1>7, <1>13 DEF Of, Answers
    <3> QED
      BY <1>1, <1>2, <3>1, NoticeTaken DEF PacketsKept, m
  <2> DEFINE b == <<Delete(m.uid)>>
  <2>4. toServer' \in {toServer, toServer \o b}
    BY <1>1, <1>8 DEF Refuse, SendToServer, Bind, Update
  <2>5. b \in Seq(Request) /\ DOMAIN b = {1} /\ b[1].type = "DELETE" /\ b[1].uid = m.uid
    BY <1>3 DEF Delete, Request
  <2> HIDE DEF b
  <2>6. Uncancelled(b, u) /\ Lasting(b, l, u)
    BY <1>13, <2>5 DEF Uncancelled, Cancels, Lasting, Asks
  <2> QED
    BY <1>1, <2>2, <2>3, <2>4, <2>5, <2>6, RouteKept
<1>14. CASE m.uid = u
  <2>1. f # 0
    BY <1>1, <1>14 DEF Refuse
  <2>2. f = i
    <3>1. u \in UidOf[info[f].peer]
      BY <1>3, <1>5, <1>6, <1>8, <1>14, <2>1 DEF Fits, IDsOfPeer
    <3> QED
      BY <1>7, <1>8, <2>1, <3>1
  <2>3. toServer' = toServer /\ info'[i].own = u /\ info'[i].updateID = u /\ info'[i].result = m.result
    <3>1. CASE m.lid # 0
      <4> DEFINE route == [info[i] EXCEPT !.updateID = m.uid, !.localID = 0, !.hash = "uid"]
      <4>1. route \in Route /\ route.own = u /\ route.updateID = u
        BY <1>3, <1>8, <1>12, <1>14, <2>2 DEF Route
      <4>2. SetResult(i, m.result, route) /\ toServer' = toServer
        BY <1>1, <1>8, <2>1, <2>2, <3>1 DEF Bind
      <4> HIDE DEF route
      <4> QED
        BY <1>11, <4>1, <4>2 DEF SameName
    <3>2. CASE m.lid = 0
      <4>1. SetResult(i, m.result, info[i]) /\ toServer' = toServer
        BY <1>1, <1>8, <2>1, <2>2, <3>2 DEF Update
      <4>2. info[i].updateID = u
        BY <1>10, <1>14, <2>2, <3>2
      <4> QED
        BY <1>11, <1>12, <2>2, <4>1, <4>2 DEF SameName
    <3> QED
      BY <3>1, <3>2
  <2>4. Served(u) /\ (u \notin overtaken => Agreed(u))
    <3>1. CASE m.lid # 0
      <4>1. l = m.lid /\ info[i].updateID = 0
        BY <1>7, <1>9, <2>2, <3>1
      <4>2. AnsweredIn(toRouter, l)
        BY <1>1, <1>2, <4>1, NoticeTaken DEF Answers, m
      <4> QED
        BY <4>1, <4>2 DEF RouteFollows, Waiting, Answering
    <3>2. CASE m.lid = 0
      <4>1. info[i].updateID # 0
        BY <1>7, <1>10, <1>14, <2>2, <3>2
      <4> QED
        BY <4>1 DEF RouteFollows, Settled, Told
    <3> QED
      BY <3>1, <3>2
  <2>5. ASSUME Agreed(u)
        PROVE  /\ Latest(sendQueue', u, known'[u])
               /\ NoneOf(sendQueue', u) => Latest(toRouter', u, known'[u])
               /\ NoneOf(toRouter', u) /\ NoneOf(sendQueue', u) => m.result = known[u]
    <3>1. Of(m, u)
      BY <1>1, <1>14 DEF Of
    <3>2. /\ Latest(toRouter, u, known[u]) => Latest(toRouter', u, known[u])
          /\ Latest(toRouter, u, known[u]) /\ NoneOf(toRouter', u) => m.result = known[u]
      BY <1>1, <1>2, <3>1, NoticeTaken DEF m
    <3> QED
      BY <1>1, <2>5, <3>2 DEF Agreed
  <2>6. Settled(i)'
    BY <1>1, <2>3, <2>4, <2>5 DEF Settled, Served, Told, Agreed
  <2> QED
    BY <1>7, <2>3, <2>6 DEF RouteFollows
<1> QED
  BY <1>13, <1>14

-----------------------------------------------------------------------------
(* Every step.                                                             *)

\* Steps of the server and the connection leave the routes alone.
LEMMA ServerKeeps ==
  ASSUME IInv, RInv, up, UNCHANGED <<rib, up, crossed, cancelled>>,
         Offline', KnownIfRegistered', \A i \in Live : RouteFollows(i) => RouteFollows(i)'
  PROVE  RInv'
<1>1. IDsOfPeer' /\ Live' = Live
  BY RibIDs DEF RInv
<1>2. Unspoiled' = Unspoiled
  BY <1>1 DEF Unspoiled, rib
<1>3. RoutesFollow'
  BY <1>1, <1>2 DEF RInv, RoutesFollow, Unspoiled
<1> QED
  BY <1>1, <1>3 DEF RInv

\* The steps of the server.
LEMMA RequestKeeps ==
  ASSUME IInv, RInv, up, processValidationRequest
  PROVE  RInv'
<1> DEFINE m == Head(toServer)
<1>1. /\ known' = IF known[m.uid] = None THEN [known EXCEPT ![m.uid] = "UNDEFINED"] ELSE known
      /\ registered' = registered \cup {m.uid} /\ toServer # <<>>
      /\ UNCHANGED <<rib, up, connected, toRouter, crossed, cancelled>>
  BY DEF processValidationRequest, history
<1>2. m.uid \in Uid /\ known \in [Uid -> Result \cup {None}] /\ registered \subseteq Uid
  BY RequestTypes, ServerTypes DEF processValidationRequest
<1> HIDE DEF m
<1>3. "UNDEFINED" # None
  BY RouterAssumption DEF Result
<1>4. KnownIfRegistered'
  BY <1>1, <1>2, <1>3 DEF RInv, KnownIfRegistered
<1>5. Offline'
  BY <1>1 DEF RInv, Offline
<1>6. ASSUME NEW i \in Live, i \notin crossed, RouteFollows(i) PROVE RouteFollows(i)'
  BY <1>6, RequestFollows DEF RInv
<1>7. IDsOfPeer' /\ Live' = Live
  BY <1>1, RibIDs DEF RInv
<1>8. RoutesFollow'
  <2>1. Unspoiled' = Unspoiled
    BY <1>1, <1>7 DEF Unspoiled, rib
  <2> QED
    BY <1>6, <2>1 DEF RInv, RoutesFollow, Unspoiled
<1> QED
  BY <1>4, <1>5, <1>7, <1>8 DEF RInv

LEMMA AnswerKeeps ==
  ASSUME IInv, RInv, up, sendQueueThreadLoop
  PROVE  RInv'
<1>1. UNCHANGED <<rib, up, crossed, cancelled, connected, known, registered>> /\ sendQueue # <<>>
  BY DEF sendQueueThreadLoop, history
<1>2. Offline' /\ KnownIfRegistered'
  BY <1>1 DEF RInv, Offline, KnownIfRegistered
<1> QED
  BY <1>1, <1>2, AnswerFollows, ServerKeeps

LEMMA DeletionKeeps ==
  ASSUME IInv, RInv, up, deleteUpdateFromCache
  PROVE  RInv'
<1>1. /\ UNCHANGED <<rib, up, crossed, cancelled, connected, known>> /\ toServer # <<>>
      /\ registered' \subseteq registered
  BY DEF deleteUpdateFromCache, history
<1>2. Offline' /\ KnownIfRegistered'
  BY <1>1 DEF RInv, Offline, KnownIfRegistered
<1> QED
  BY <1>1, <1>2, DeletionFollows, ServerKeeps

\* A result the server comes to.
LEMMA BroadcastKeeps ==
  ASSUME IInv, RInv, up, NEW v \in Uid, NEW r \in Result,
         known' = [known EXCEPT ![v] = r], Broadcast(v, r),
         UNCHANGED <<rib, up, connected, toServer, registered, sendQueue, crossed, cancelled, unsynced>>
  PROVE  RInv'
<1>1. KnownIfRegistered'
  <2>1. r # None /\ registered \subseteq Uid
    BY RouterAssumption, ServerTypes
  <2>2. \A u \in Uid : known'[u] = IF u = v THEN r ELSE known[u]
    BY ServerTypes
  <2> QED
    BY <2>1, <2>2 DEF RInv, KnownIfRegistered
<1>2. Offline'
  <2>1. ~connected => toRouter' = toRouter
    BY DEF Broadcast
  <2>2. Live' = Live
    BY DEF Live, rib
  <2> QED
    BY <2>1, <2>2 DEF RInv, Offline
<1>3. ASSUME NEW i \in Live, RouteFollows(i) PROVE RouteFollows(i)'
  <2>1. info' = info
    BY DEF rib
  <2> QED
    BY <1>3, <2>1, BroadcastFollows DEF RInv
<1> QED
  BY <1>1, <1>2, <1>3, ServerKeeps

\* A command validates an update.
LEMMA ValidateKeeps ==
  ASSUME IInv, RInv, up, NEW v \in Uid, Validate(v)
  PROVE  RInv'
<1>1. UNCHANGED <<rib, up, connected, toServer, registered, sendQueue, crossed, cancelled, unsynced>>
  BY DEF Validate
<1>2. CASE known[v] = "UNDEFINED"
  <2>1. PICK r \in Outcome[v] : known' = [known EXCEPT ![v] = r] /\ Broadcast(v, r)
    BY <1>2 DEF Validate
  <2>2. r \in Result
    BY RouterAssumption DEF Result
  <2> QED
    BY <1>1, <2>1, <2>2, BroadcastKeeps
<1>3. CASE known[v] # "UNDEFINED"
  <2>1. UNCHANGED <<known, toRouter, overtaken>>
    BY <1>3 DEF Validate
  <2>2. Live' = Live
    BY <1>1 DEF rib, Live
  <2>3. Offline' /\ KnownIfRegistered'
    BY <1>1, <2>1, <2>2 DEF RInv, Offline, KnownIfRegistered
  <2>4. ASSUME NEW i \in Live, RouteFollows(i) PROVE RouteFollows(i)'
    BY <1>1, <2>1, <2>4 DEF RouteFollows, Waiting, Settled, Told, Agreed, Answering, Served, rib
  <2> QED
    BY <1>1, <2>3, <2>4, ServerKeeps
<1> QED
  BY <1>2, <1>3

\* The result of an update changes with the RPKI.
LEMMA ChangeKeeps ==
  ASSUME IInv, RInv, up, NEW v \in Uid, ChangeResult(v)
  PROVE  RInv'
<1>1. PICK r \in {"VALID", "INVALID"} : known' = [known EXCEPT ![v] = r] /\ Broadcast(v, r)
  BY DEF ChangeResult
<1>2. r \in Result
  BY DEF Result
<1>3. UNCHANGED <<rib, up, connected, toServer, registered, sendQueue, crossed, cancelled, unsynced>>
  BY DEF ChangeResult
<1> QED
  BY <1>1, <1>2, <1>3, BroadcastKeeps

\* The steps of the connection.
LEMMA DisconnectKeeps ==
  ASSUME IInv, RInv, up, Disconnect
  PROVE  RInv'
<1>1. /\ UNCHANGED <<rib, up, crossed, cancelled, known, registered>>
      /\ toServer' = <<>> /\ toRouter' = <<>> /\ sendQueue' = <<>> /\ unsynced' = Live
  BY DEF Disconnect
<1>2. Live' = Live
  BY <1>1 DEF rib, Live
<1>3. Offline' /\ KnownIfRegistered'
  BY <1>1, <1>2 DEF RInv, Offline, KnownIfRegistered
<1> QED
  BY <1>1, <1>3, DisconnectFollows, ServerKeeps

LEMMA ReconnectKeeps ==
  ASSUME IInv, RInv, up, checkClientConnection
  PROVE  RInv'
<1>1. UNCHANGED <<rib, up, crossed, cancelled, known, registered>> /\ connected'
  BY DEF checkClientConnection, server, history
<1>2. Offline' /\ KnownIfRegistered'
  BY <1>1 DEF RInv, Offline, KnownIfRegistered
<1>3. \A i \in Live : RouteFollows(i) => RouteFollows(i)'
  BY ReconnectFollows DEF RInv
<1> QED
  BY <1>1, <1>2, <1>3, ServerKeeps

LEMMA SynchronisationKeeps ==
  ASSUME IInv, RInv, up, handleSRxSynchRequest
  PROVE  RInv'
<1>1. /\ UNCHANGED <<rib, up, crossed, cancelled, known, registered, connected>>
      /\ toRouter # <<>>
  BY DEF handleSRxSynchRequest, server
<1>2. Offline' /\ KnownIfRegistered'
  BY <1>1 DEF RInv, Offline, KnownIfRegistered
<1> QED
  BY <1>1, <1>2, SynchronisationFollows, ServerKeeps DEF RInv

\* The steps of the router: withdrawal, and the reaping of what was withdrawn.
LEMMA WithdrawalKeeps ==
  ASSUME IInv, RInv, up, NEW p \in Peer, Withdraw(p)
  PROVE  RInv'
<1>1. PICK j \in RouteOf(p) : info' = [info EXCEPT ![j].removed = TRUE]
  BY DEF Withdraw
<1>2. UNCHANGED <<uids, up, connected, toServer, toRouter, server, history>>
  BY DEF Withdraw
<1>3. /\ Live' = Live
      /\ \A i \in Live : /\ info'[i].own = info[i].own /\ info'[i].updateID = info[i].updateID
                         /\ info'[i].peer = info[i].peer
  <2>1. j \in Live /\ info[j] \in Route
    BY RouterTypes DEF RouteOf
  <2> DEFINE r == [info[j] EXCEPT !.removed = TRUE]
  <2>2. /\ r \in Route /\ r.own = info[j].own /\ r.updateID = info[j].updateID
        /\ r.peer = info[j].peer
    BY <2>1 DEF Route
  <2>3. info' = [info EXCEPT ![j] = r]
    BY <1>1
  <2> HIDE DEF r
  <2> QED
    BY <2>1, <2>2, <2>3, RouterTypes DEF Live
<1>4. Offline' /\ KnownIfRegistered' /\ IDsOfPeer'
  BY <1>2, <1>3 DEF RInv, Offline, KnownIfRegistered, IDsOfPeer, server, history
<1>5. RoutesFollow'
  <2>1. Unspoiled' = Unspoiled
    BY <1>2, <1>3 DEF Unspoiled, history
  <2> QED
    BY <2>1, WithdrawalFollows DEF RInv, RoutesFollow, Unspoiled
<1> QED
  BY <1>4, <1>5 DEF RInv

LEMMA ProcessKeeps ==
  ASSUME IInv, RInv, up, Process
  PROVE  RInv'
<1>1. /\ info' = [j \in Id |-> IF j \in Reaped THEN None ELSE info[j]]
      /\ \E s \in Deletes : SendToServer(s)
      /\ unsynced' = unsynced \ Reaped /\ uids' = Freed.uid
      /\ UNCHANGED <<up, connected, toRouter, server, crossed, cancelled>>
  BY DEF Process, SetTables
<1>2. Live' = Live \ Reaped /\ \A i \in Live' : info'[i] = info[i]
  BY <1>1 DEF Live, Reaped
<1>3. uids' \subseteq uids
  BY <1>1, Unregistered DEF Freed
<1>4. Offline' /\ KnownIfRegistered'
  BY <1>1, <1>2 DEF RInv, Offline, KnownIfRegistered, server, SendToServer
<1>5. IDsOfPeer'
  BY <1>2, <1>3 DEF RInv, IDsOfPeer
<1>6. RoutesFollow'
  <2>1. Unspoiled' \subseteq Unspoiled
    BY <1>1, <1>2 DEF Unspoiled
  <2>2. ASSUME NEW i \in Unspoiled' PROVE RouteFollows(i)'
    <3>1. i \in Live /\ i \in Live' /\ RouteFollows(i)
      BY <2>1, <2>2 DEF RInv, RoutesFollow, Unspoiled
    <3> QED
      BY <3>1, ReapedFollows DEF RInv
  <2> QED
    BY <2>2 DEF RoutesFollow
<1> QED
  BY <1>4, <1>5, <1>6 DEF RInv

\* An announcement, of a new route or of one in place of another.
LEMMA AnnouncedKeeps ==
  ASSUME IInv, RInv, up, NEW p \in Peer, NEW u \in UidOf[p], NEW j \in Id,
         updates < MaxUpdates, NEW b,
         LET r == NewRoute(p, u, lid + 1)
         IN /\ info' = [info EXCEPT ![j] = r]
            /\ \/ b = <<Verify(r)>>
               \/ /\ j \in Live /\ info[j].updateID # 0
                  /\ b = <<Delete(info[j].updateID), Verify(r)>>,
         SendToServer(b), Unsynced(j),
         UNCHANGED <<up, connected, toRouter, server, cancelled, overtaken>>,
         crossed \subseteq crossed', uids' \subseteq uids,
         (j \in Live /\ info[j].peer = p) \/ \A e \in uids : e.info # j
  PROVE  RInv'
<1> DEFINE r == NewRoute(p, u, lid + 1)
<1>1. /\ r.updateID = 0 /\ r.peer = p /\ info' = [info EXCEPT ![j] = r] /\ r # None
  <2>1. lid + 1 \in Lid
    BY RouterTypes DEF Lid
  <2> QED
    BY <2>1, NewRouteType, RouterTypes
<1>2. UNCHANGED <<sendQueue, known, registered>>
  BY DEF server
<1>3. /\ RouteFollows(j)'
      /\ \A i \in Live \ {j} : RouteFollows(i) => RouteFollows(i)'
  <2>1. Offline /\ IDsOfPeer
    BY DEF RInv
  <2> QED
    BY <1>2, <2>1, AnnouncementFollows
<1> HIDE DEF r
<1>4. Live' = Live \cup {j} /\ info'[j] = r /\ \A i \in Live \ {j} : info'[i] = info[i]
  BY <1>1, RouterTypes DEF Live
<1>5. Offline'
  BY <1>2, <1>4 DEF RInv, Offline, SendToServer, Unsynced
<1>6. KnownIfRegistered'
  BY <1>2 DEF RInv, KnownIfRegistered
<1>7. IDsOfPeer'
  BY <1>1, <1>4 DEF RInv, IDsOfPeer
<1>8. RoutesFollow'
  <2>1. ASSUME NEW i \in Unspoiled', i # j PROVE RouteFollows(i)'
    <3>1. i \in Unspoiled /\ i \in Live \ {j}
      BY <1>4, <2>1 DEF Unspoiled
    <3> QED
      BY <1>3, <3>1 DEF RInv, RoutesFollow
  <2> QED
    BY <1>3, <2>1 DEF RoutesFollow
<1> QED
  BY <1>5, <1>6, <1>7, <1>8 DEF RInv

\* AnnounceNew and AnnounceOther are steps of this kind.
LEMMA AnnouncementKeeps ==
  ASSUME IInv, RInv, up, NEW p \in Peer, NEW u \in UidOf[p], Announce(p, u)
  PROVE  RInv'
<1>1. updates < MaxUpdates /\ UNCHANGED <<up, connected, toRouter, server>>
  BY DEF Announce
<1>2. CASE AnnounceNew(p, u)
  <2> DEFINE j == made + 1
             r == NewRoute(p, u, lid + 1)
  <2>1. /\ info' = [info EXCEPT ![j] = r] /\ SendToServer(<<Verify(r)>>) /\ Unsynced(j)
        /\ UNCHANGED <<uids, crossed, cancelled, overtaken>>
    BY <1>2 DEF AnnounceNew
  <2>2. j \in Id /\ \A e \in uids : e.info # j
    BY <1>1, RouterTypes DEF Id, Entry, IInv, RoutesEntered, UpdateEntries
  <2> HIDE DEF j
  <2> QED
    BY <1>1, <2>1, <2>2, AnnouncedKeeps
<1>3. CASE AnnounceOther(p, u)
  <2>1. PICK j \in RouteOf(p) :
          LET old == info[j]
              r == Replaced(old, u, lid + 1)
          IN /\ info' = [info EXCEPT ![j] = r]
             /\ uids' = Unlisted(old).uid
             /\ SendToServer((IF old.updateID = 0 THEN <<>> ELSE <<Delete(old.updateID)>>)
                               \o <<Verify(r)>>)
             /\ crossed' = IF old.updateID = 0 THEN crossed \cup {j} ELSE crossed
             /\ Unsynced(j)
             /\ UNCHANGED <<cancelled, overtaken>>
    BY <1>3 DEF AnnounceOther
  <2> DEFINE r == NewRoute(p, u, lid + 1)
             d == Delete(info[j].updateID)
             b == IF info[j].updateID = 0 THEN <<Verify(r)>> ELSE <<d, Verify(r)>>
  <2>2. j \in Live /\ j \in Id /\ info[j].peer = p
    BY RouterTypes DEF RouteOf
  <2>3. Replaced(info[j], u, lid + 1) = r
    BY <2>2 DEF Replaced
  <2>4. b = (IF info[j].updateID = 0 THEN <<>> ELSE <<d>>) \o <<Verify(r)>>
    <3> DEFINE m == Verify(r)
    <3> HIDE DEF d, m
    <3>1. <<>> \o <<m>> = <<m>> /\ <<d>> \o <<m>> = <<d, m>>
      BY BothSent
    <3> QED
      BY <3>1 DEF m
  <2>5. uids' \subseteq uids
    BY <2>1, Unregistered DEF Unlisted, Tables
  <2>6. info' = [info EXCEPT ![j] = r] /\ SendToServer(b)
    BY <2>1, <2>3, <2>4
  <2>7. b = <<Verify(r)>> \/ (info[j].updateID # 0 /\ b = <<Delete(info[j].updateID), Verify(r)>>)
    OBVIOUS
  <2> HIDE DEF b
  <2> QED
    BY <1>1, <2>1, <2>2, <2>5, <2>6, <2>7, AnnouncedKeeps
<1> QED
  BY <1>2, <1>3 DEF Announce

\* A result keeps the peers and the updates of the routes, and the IDs in the
\* tables: an answer fits the route that waits for it.
LEMMA ResultKeeps ==
  ASSUME IInv, RInv, up, handleSRxValidationResult
  PROVE  RInv'
<1> DEFINE m == Head(toRouter)
           f == IF m.lid # 0 THEN Fetch(lids, m.lid) ELSE Fetch(uids, m.uid)
<1>1. /\ m.type = "NOTIFY" /\ toRouter # <<>>
      /\ UNCHANGED <<connected, known, registered, sendQueue, crossed, unsynced>>
      /\ IF f = 0 THEN Refuse(m)
         ELSE IF f \notin Live THEN WriteToFreed
         ELSE IF m.lid # 0 THEN Bind(f, m) ELSE Update(f, m)
  BY DEF handleSRxValidationResult, server
<1>2. /\ m.uid \in Uid /\ m.result \in Result /\ m.lid \in Lid \cup {0}
      /\ m.lid # 0 => Fits(m)
  <2>1. m \in FittingNotice
    BY <1>1, ServerTypes, HeadTailProperties DEF FittingPacket
  <2> QED
    BY <2>1 DEF FittingNotice, Notification
<1>3. ASSUME f # 0, m.lid # 0 PROVE \E e \in lids : e.key = m.lid /\ e.info = f
  <2>1. f = Fetch(lids, m.lid)
    BY <1>3
  <2> HIDE DEF f
  <2>2. Fetch(lids, m.lid) = 0 \/ \E e \in lids : e.key = m.lid /\ e.info = Fetch(lids, m.lid)
    BY RouterTypes, Fetched
  <2> QED
    BY <1>3, <2>1, <2>2
<1> HIDE DEF m, f
<1>4. f \in Live => info[f] \in Route /\ f \in Id /\ f # 0
  BY RouterTypes
\* Whatever becomes of the packet, routes keep their peers and updates.
<1>5. /\ Live' = Live /\ cancelled \subseteq cancelled' /\ IDsOfPeer'
      /\ \A i \in Live : info'[i].own = info[i].own
  <2>1. CASE f = 0 \/ f \notin Live
    <3>1. UNCHANGED <<info, uids>> /\ cancelled \subseteq cancelled'
      BY <1>1, <2>1 DEF Refuse, WriteToFreed
    <3> QED
      BY <3>1 DEF RInv, IDsOfPeer, Live
  <2>2. CASE f \in Live /\ m.lid # 0
    <3> DEFINE route == [info[f] EXCEPT !.updateID = m.uid, !.localID = 0, !.hash = "uid"]
               r == WithResult(route, m.result)
    <3>1. route \in Route /\ route.peer = info[f].peer /\ route.own = info[f].own
          /\ route.updateID = m.uid
      BY <1>2, <1>4, <2>2 DEF Route
    <3>2. /\ info' = [info EXCEPT ![f] = r] /\ uids' = Register(uids, m.uid, f)
          /\ UNCHANGED cancelled
      BY <1>1, <1>4, <2>2 DEF Bind, SetResult, SetTables
    <3> HIDE DEF route
    <3>3. r \in Route /\ r.peer = info[f].peer /\ r.own = info[f].own /\ r.updateID = m.uid
      BY <1>2, <3>1, ResultOfRoute DEF SameName
    <3> HIDE DEF r
    <3>4. r # None
      BY <3>3, RouterAssumption
    <3>5. /\ Live' = Live
          /\ \A i \in Live : info'[i] = IF i = f THEN r ELSE info[i]
      BY <3>2, <3>4, <2>2, RouterTypes DEF Live
    <3>6. m.uid \in UidOf[info[f].peer]
      <4>1. PICK e \in lids : e.key = m.lid /\ e.info = f
        BY <1>3, <1>4, <2>2
      <4> QED
        BY <1>2, <2>2, <4>1 DEF Fits
    <3>7. PICK n \in Nat : uids' = uids \cup {[key |-> m.uid, info |-> f, at |-> n]}
      <4>1. uids \in SUBSET Entry(Uid) /\ Bounded(uids)
        BY RouterTypes DEF IInv, Typed
      <4> QED
        BY <1>2, <1>4, <2>2, <3>2, <4>1, Registered
    <3>8. IDsOfPeer'
      BY <3>3, <3>5, <3>6, <3>7 DEF RInv, IDsOfPeer
    <3> QED
      BY <3>2, <3>3, <3>5, <3>8
  <2>3. CASE f \in Live /\ m.lid = 0
    <3> DEFINE r == WithResult(info[f], m.result)
    <3>1. info' = [info EXCEPT ![f] = r] /\ UNCHANGED <<uids, cancelled>>
      BY <1>1, <1>4, <2>3 DEF Update, SetResult
    <3>2. /\ r \in Route /\ r.peer = info[f].peer /\ r.own = info[f].own
          /\ r.updateID = info[f].updateID
      BY <1>2, <1>4, <2>3, ResultOfRoute DEF SameName
    <3> HIDE DEF r
    <3>3. r # None
      BY <3>2, RouterAssumption
    <3>4. /\ Live' = Live
          /\ \A i \in Live : info'[i] = IF i = f THEN r ELSE info[i]
      BY <3>1, <3>3, <2>3, RouterTypes DEF Live
    <3>5. IDsOfPeer'
      BY <3>1, <3>2, <3>4 DEF RInv, IDsOfPeer
    <3> QED
      BY <3>1, <3>2, <3>4, <3>5
  <2> QED
    BY <2>1, <2>2, <2>3
<1>6. Offline' /\ KnownIfRegistered'
  BY <1>1, <1>5 DEF RInv, Offline, KnownIfRegistered
<1>7. RoutesFollow'
  <2> SUFFICES ASSUME up', NEW i \in Unspoiled' PROVE RouteFollows(i)'
    BY DEF RoutesFollow
  <2>1. /\ i \in Live \ crossed /\ info[i].own \notin cancelled' /\ i \in Unspoiled
    BY <1>1, <1>5 DEF Unspoiled
  <2>2. RouteFollows(i)
    BY <2>1 DEF RInv, RoutesFollow
  <2> QED
    BY <2>1, <2>2, ResultFollows DEF RInv
<1> QED
  BY <1>5, <1>6, <1>7 DEF RInv

\* Nothing is under way in the beginning.
LEMMA RInvInit == Init => RInv
<1> SUFFICES ASSUME Init PROVE RInv
  OBVIOUS
<1>1. Live = {}
  BY DEF Init, Live
<1> QED
  BY <1>1 DEF Init, RInv, Offline, KnownIfRegistered, IDsOfPeer, RoutesFollow, Unspoiled

\* Every step keeps what is under way in agreement with routes and server.
LEMMA RInvNext == IInv /\ RInv /\ [Next]_vars => RInv'
<1> SUFFICES ASSUME IInv, RInv, [Next]_vars PROVE RInv'
  OBVIOUS
<1>1. ASSUME up, NEW p \in Peer, NEW u \in UidOf[p], Announce(p, u) PROVE RInv'
  BY <1>1, AnnouncementKeeps
<1>2. ASSUME up, NEW p \in Peer, Withdraw(p) PROVE RInv'
  BY <1>2, WithdrawalKeeps
<1>3. CASE up /\ Process
  BY <1>3, ProcessKeeps
<1>4. CASE up /\ handleSRxValidationResult
  BY <1>4, ResultKeeps
<1>5. CASE up /\ handleSRxSynchRequest
  BY <1>5, SynchronisationKeeps
<1>6. CASE up /\ checkClientConnection
  BY <1>6, ReconnectKeeps
<1>7. CASE up /\ processValidationRequest
  BY <1>7, RequestKeeps
<1>8. CASE up /\ sendQueueThreadLoop
  BY <1>8, AnswerKeeps
<1>9. CASE up /\ deleteUpdateFromCache
  BY <1>9, DeletionKeeps
<1>10. ASSUME up, NEW u \in Uid, Validate(u) PROVE RInv'
  BY <1>10, ValidateKeeps
<1>11. ASSUME up, NEW u \in Uid, ChangeResult(u) PROVE RInv'
  BY <1>11, ChangeKeeps
<1>12. CASE up /\ Disconnect
  BY <1>12, DisconnectKeeps
<1>13. CASE UNCHANGED vars
  <2>1. /\ UNCHANGED <<info, uids, up, connected, toServer, toRouter, sendQueue, known>>
        /\ UNCHANGED <<registered, crossed, cancelled, overtaken, unsynced>>
    BY <1>13 DEF vars, rib, server, history
  <2>2. Offline' /\ KnownIfRegistered' /\ IDsOfPeer'
    BY <2>1 DEF RInv, Offline, KnownIfRegistered, IDsOfPeer, Live
  <2>3. Unspoiled' = Unspoiled
    BY <2>1 DEF Unspoiled, Live
  <2>4. \A i : RouteFollows(i)' <=> RouteFollows(i)
    BY <2>1 DEF RouteFollows, Waiting, Settled, Told, Agreed, Answering, Served
  <2> QED
    BY <2>1, <2>2, <2>3, <2>4 DEF RInv, RoutesFollow
<1> QED
  BY <1>1, <1>2, <1>3, <1>4, <1>5, <1>6, <1>7, <1>8, <1>9, <1>10, <1>11, <1>12, <1>13
  DEF Next, Router, Server

\* When nothing is under way between the router and the server, a route has the
\* result the server has for its update, and the router is registered for it.  The
\* exceptions are those of RouteHasServerResult: a route replaced while it waited,
\* an update the router made the server delete, a route a synchronisation left
\* out, an answer that a newer result overtook in the send queue.
THEOREM RoutesHaveServerResult == Spec => []RouteHasServerResult
<1>1. IInv /\ RInv => RouteHasServerResult
  <2> SUFFICES ASSUME IInv, RInv, up, toServer = <<>>, sendQueue = <<>>, toRouter = <<>>,
                      NEW i \in Live \ (crossed \cup unsynced),
                      info[i].own \notin cancelled \cup overtaken
               PROVE  info[i].own \in registered /\ info[i].result = known[info[i].own]
    BY DEF RouteHasServerResult
  <2>1. RouteFollows(i)
    BY DEF RInv, RoutesFollow, Unspoiled
  <2>2. ~Waiting(i)
    BY DEF Waiting, AskedIn, Answering, AnsweredIn
  <2>3. Served(info[i].own) /\ Told(i)
    BY <2>1, <2>2 DEF RouteFollows, Settled
  <2> QED
    BY <2>3 DEF Served, Told, NoneOf, ComparedIn
<1>2. Spec => []RInv
  BY RInvInit, RInvNext, RoutesInvariant, PTL DEF Spec
<1> QED
  BY <1>1, <1>2, RoutesInvariant, PTL
=============================================================================
