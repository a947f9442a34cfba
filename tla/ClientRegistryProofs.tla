------------------------ MODULE ClientRegistryProofs ------------------------
(***************************************************************************)
(* Proofs about the registry of clients, for any number of connections,    *)
(* proxies, client IDs and updates.                                        *)
(***************************************************************************)
EXTENDS ClientRegistry, FiniteSetTheorems, NaturalsInduction, SequenceTheorems, TLAPS

Hello(pkt, c) == pkt.type = "HELLO" /\ pkt.conn = c

\* The connections whose HELLO waits in queue q.
Helloing(q) == {c \in Conn : \E k \in 1 .. Len(q) : Hello(q[k], c)}

\* Queue q holds one HELLO of a connection at most.
HelloOnce(q) ==
  \A k, l \in 1 .. Len(q) : \A c \in Conn : Hello(q[k], c) /\ Hello(q[l], c) => k = l

\* A connection's only HELLO makes its way through one queue after the other
\* while the connection has no client ID yet.
HelloAhead ==
  /\ HelloOnce(rcvQueue)
  /\ HelloOnce(cmdQueue)
  /\ Helloing(rcvQueue) \cap Helloing(cmdQueue) = {}
  /\ \A c \in Helloing(rcvQueue) \cup Helloing(cmdQueue) :
       peer[c] \notin {"none", "connected"} /\ thread[c].routerID = 0
  /\ \A c \in Conn : peer[c] \in {"none", "connected"} => thread[c].routerID = 0

\* The handshake gave the connection a client ID.
HandshakeDone ==
  /\ \A c \in Conn : thread[c].initialized => thread[c].routerID # 0
  /\ greeted # NULL => thread[greeted].routerID # 0

\* An active mapping has a connection, which lives while its handshake is
\* being completed.
ActiveHasSocket ==
  \A i \in ClientID : proxyMap[i].isActive =>
    /\ proxyMap[i].socket \in Conn
    /\ proxyMap[i].socket = greeted => thread[greeted].active

\* The configured mappings remain.
ConfiguredKept ==
  \A i \in ClientID : /\ proxyMap[i].preDefined = (Configured[i] # 0)
                      /\ Configured[i] # 0 => proxyMap[i].proxyID = Configured[i]

\* The inductive invariant.
IInv ==
  /\ TypeOK
  /\ HelloAhead
  /\ HandshakeDone
  /\ ActiveHasSocket
  /\ ConfiguredKept
  /\ ActiveMappingServes

-----------------------------------------------------------------------------
(* Lemmas about the data.                                                  *)

\* A set of numbers that is not empty has a least element.
LEMMA MinOf == ASSUME NEW S \in SUBSET Nat, S # {}
               PROVE  Min(S) \in S /\ \A y \in S : Min(S) <= y
<1>1. PICK m \in S : \A n \in S : ~ (<<n, m>> \in OpToRel(<, Nat))
  BY NatLessThanWellFounded, WFMin
<1>2. ASSUME NEW n \in S PROVE m <= n
  <2>1. n < m => <<n, m>> \in OpToRel(<, Nat)
    BY DEF OpToRel
  <2>2. ~ (n < m)
    BY <1>1, <2>1, Zenon
  <2> QED
    BY <2>2
<1> QED
  BY <1>2 DEF Min

\* What the type of a packet says about its argument.
LEMMA PacketFields ==
  ASSUME NEW pkt \in Packet
  PROVE  /\ pkt.conn \in Conn
         /\ pkt.type \in {"HELLO", "GOODBYE", "VERIFY", "STORE", "DELETE"}
         /\ pkt.type = "HELLO" => pkt.arg \in Proxy \cup {NULL}
         /\ pkt.type \in {"VERIFY", "STORE", "DELETE"} => pkt.arg \in Update
  BY DEF Packet

\* A queue after its first packet was taken: a HELLO taken is not there again.
LEMMA AfterTail ==
  ASSUME NEW q \in Seq(Packet), q # <<>>, HelloOnce(q)
  PROVE  /\ Head(q) \in Packet
         /\ Tail(q) \in Seq(Packet)
         /\ HelloOnce(Tail(q))
         /\ Helloing(Tail(q)) \subseteq Helloing(q)
         /\ \A c \in Conn : Hello(Head(q), c) => c \in Helloing(q) \ Helloing(Tail(q))
<1>1. /\ Head(q) = q[1] /\ 1 \in 1 .. Len(q) /\ q[1] \in Packet
      /\ Tail(q) \in Seq(Packet) /\ Len(Tail(q)) = Len(q) - 1 /\ Len(q) \in Nat \ {0}
      /\ \A k \in 1 .. Len(Tail(q)) : Tail(q)[k] = q[k + 1]
  BY HeadTailProperties, EmptySeq, ElementOfSeq
<1>2. \A k \in 1 .. Len(Tail(q)) : k + 1 \in 1 .. Len(q) /\ k + 1 # 1 /\ k \in Nat
  BY <1>1
<1>3. HelloOnce(Tail(q))
  <2> SUFFICES ASSUME NEW k \in 1 .. Len(Tail(q)), NEW l \in 1 .. Len(Tail(q)), NEW c \in Conn,
                      Hello(Tail(q)[k], c), Hello(Tail(q)[l], c)
               PROVE  k = l
    BY DEF HelloOnce
  <2>1. k + 1 = l + 1
    BY <1>1, <1>2 DEF HelloOnce
  <2> QED
    BY <1>2, <2>1
<1>4. Helloing(Tail(q)) \subseteq Helloing(q)
  BY <1>1, <1>2 DEF Helloing
<1>5. ASSUME NEW c \in Conn, Hello(Head(q), c)
      PROVE  c \in Helloing(q) \ Helloing(Tail(q))
  <2>1. c \in Helloing(q)
    BY <1>1, <1>5 DEF Helloing
  <2>2. ASSUME NEW k \in 1 .. Len(Tail(q)), Hello(Tail(q)[k], c) PROVE FALSE
    BY <1>1, <1>2, <1>5, <2>2 DEF HelloOnce
  <2> QED
    BY <2>1, <2>2 DEF Helloing
<1> QED
  BY <1>1, <1>3, <1>4, <1>5

\* A queue after a packet entered it.
LEMMA AfterAppend ==
  ASSUME NEW q \in Seq(Packet), NEW pkt \in Packet, HelloOnce(q),
         \A c \in Conn : Hello(pkt, c) => c \notin Helloing(q)
  PROVE  /\ Append(q, pkt) \in Seq(Packet)
         /\ HelloOnce(Append(q, pkt))
         /\ Helloing(Append(q, pkt)) = Helloing(q) \cup {c \in Conn : Hello(pkt, c)}
<1> DEFINE a == Append(q, pkt)
<1>1. /\ a \in Seq(Packet) /\ Len(a) = Len(q) + 1 /\ Len(q) \in Nat
      /\ \A k \in 1 .. Len(q) : a[k] = q[k]
      /\ a[Len(q) + 1] = pkt
  BY AppendProperties, LenProperties
<1>2. 1 .. Len(a) = 1 .. Len(q) \cup {Len(q) + 1}
  BY <1>1
<1> HIDE DEF a
<1>3. Helloing(a) = Helloing(q) \cup {c \in Conn : Hello(pkt, c)}
  BY <1>1, <1>2 DEF Helloing
<1>4. HelloOnce(a)
  <2> SUFFICES ASSUME NEW k \in 1 .. Len(a), NEW l \in 1 .. Len(a), NEW c \in Conn,
                      Hello(a[k], c), Hello(a[l], c)
               PROVE  k = l
    BY DEF HelloOnce
  <2>1. CASE k \in 1 .. Len(q) /\ l \in 1 .. Len(q)
    BY <1>1, <2>1 DEF HelloOnce
  <2>2. CASE k = Len(q) + 1 /\ l = Len(q) + 1
    BY <2>2
  <2>3. CASE (k \in 1 .. Len(q)) # (l \in 1 .. Len(q))
    BY <1>1, <1>2, <2>3 DEF Helloing
  <2> QED
    BY <1>2, <2>1, <2>2, <2>3
<1> QED
  BY <1>1, <1>3, <1>4 DEF a

\* The client ID a HELLO asks for is one of the map or none.
LEMMA WantedIDType ==
  ASSUME TypeOK, NEW p
  PROVE  /\ WantedID(p) \in ClientID \cup {0}
         /\ WantedID(p) # 0 =>
              proxyMap[WantedID(p)].proxyID \in {0, p}
<1>1. ClientID \subseteq Nat \ {0}
  BY ClientAssumption DEF ClientID
<1>2. findClientID(p) \in ClientID \cup {0}
      /\ (findClientID(p) # 0 => proxyMap[findClientID(p)].proxyID = p)
  BY <1>1, MinOf DEF findClientID, Mapped
<1>3. createClientID \in ClientID \cup {0}
      /\ (createClientID # 0 => proxyMap[createClientID].proxyID = 0)
  <2>1. CASE Mapped = ClientID
    BY <2>1 DEF createClientID
  <2>2. CASE Mapped # ClientID
    <3>1. ClientID \ Mapped \in SUBSET Nat /\ ClientID \ Mapped # {}
      BY <1>1, <2>2 DEF Mapped
    <3>2. createClientID \in ClientID \ Mapped
      BY <2>2, <3>1, MinOf DEF createClientID
    <3> QED
      BY <3>2 DEF Mapped
  <2> QED
    BY <2>1, <2>2
<1> QED
  BY <1>2, <1>3 DEF WantedID

\* The position of a new entry in allItems is at most the number of updates.
LEMMA PositionType ==
  ASSUME TypeOK, NEW u \in Update
  PROVE  Position(u) \in 0 .. Cardinality(Update)
<1>1. CASE item[u] # 0
  BY <1>1 DEF Position, TypeOK
<1>2. CASE item[u] = 0
  <2>1. Stored \in SUBSET (Update \ {u})
    BY <1>2 DEF Stored
  <2>2. /\ IsFiniteSet(Update) /\ IsFiniteSet(Update \ {u}) /\ Cardinality(Update) \in Nat
        /\ Cardinality(Update \ {u}) = Cardinality(Update) - 1
    BY ProxyAssumption, FS_RemoveElement, FS_CardinalityType
  <2>3. Cardinality(Stored) \in Nat /\ Cardinality(Stored) <= Cardinality(Update \ {u})
    BY <2>1, <2>2, FS_Subset, FS_CardinalityType
  <2> QED
    BY <1>2, <2>2, <2>3 DEF Position
<1> QED
  BY <1>1, <1>2

\* Unsigned counters stay in range.
LEMMA Counts == \A n \in Int : n % CountMod \in 0 .. CountMod - 1
  BY ClientAssumption

LEMMA Wraps == \A n \in Int : n % Wrap \in 0 .. Wrap - 1
  BY ClientAssumption

\* The arrays of clients stay arrays of client IDs.
LEMMA ReferringType ==
  ASSUME NEW a \in Seq(ClientID \cup {0}), NEW i \in ClientID
  PROVE  Referring(a, i) \in Seq(ClientID \cup {0})
<1>1. DOMAIN a = 1 .. Len(a) /\ Len(a) \in Nat
  BY LenProperties
<1>2. CASE Slots(a, i) # {}
  <2>1. Min(Slots(a, i)) \in 1 .. Len(a)
    <3>1. Slots(a, i) \in SUBSET Nat /\ Slots(a, i) \subseteq 1 .. Len(a)
      BY <1>1 DEF Slots
    <3> QED
      BY <1>2, <3>1, MinOf
  <2> QED
    BY <1>2, <2>1, ExceptSeq DEF Referring
<1>3. CASE Slots(a, i) = {}
  <2> DEFINE z == [k \in 1 .. MinClients - 1 |-> 0]
  <2>1. z \in Seq(ClientID \cup {0})
    BY ClientAssumption
  <2>2. <<i>> \in Seq(ClientID \cup {0})
    OBVIOUS
  <2>3. Referring(a, i) = a \o <<i>> \o z
    BY <1>3 DEF Referring
  <2> HIDE DEF z
  <2>4. a \o <<i>> \in Seq(ClientID \cup {0})
    BY <2>2, ConcatProperties
  <2> QED
    BY <2>1, <2>3, <2>4, ConcatProperties
<1> QED
  BY <1>2, <1>3

\* Where Without finds the client it removes: the first place.
Place(a, i) == SelectInSeq(a, LAMBDA e : e = i)

LEMMA PlaceOf ==
  ASSUME NEW a \in Seq(ClientID \cup {0}), NEW i, NEW k \in DOMAIN a, a[k] = i
  PROVE  Place(a, i) \in 1 .. Len(a) /\ a[Place(a, i)] = i /\ Place(a, i) <= k
<1> DEFINE I == {j \in 1 .. Len(a) : a[j] = i}
<1>1. I \in SUBSET Nat /\ k \in I
  BY LenProperties
<1>2. Place(a, i) = Min(I)
  BY <1>1 DEF SelectInSeq, Place
<1>3. Min(I) \in I /\ Min(I) <= k
  BY <1>1, MinOf
<1> QED
  BY <1>2, <1>3

LEMMA WithoutType ==
  ASSUME NEW a \in Seq(ClientID \cup {0}), NEW i, NEW k \in DOMAIN a, a[k] = i
  PROVE  /\ Without(a, i) \in Seq(ClientID \cup {0})
         /\ Len(Without(a, i)) = Len(a)
         /\ \E m \in 1 .. Len(a) :
              /\ a[m] = i /\ m <= k
              /\ \A j \in 1 .. Len(a) :
                   Without(a, i)[j] = IF j < m THEN a[j]
                                      ELSE IF j < Len(a) THEN a[j + 1] ELSE 0
<1> DEFINE C == ClientID \cup {0}
<1> DEFINE m == Place(a, i)
<1>1. m \in 1 .. Len(a) /\ a[m] = i /\ m <= k /\ Len(a) \in Nat
  BY PlaceOf, LenProperties
<1>2. Without(a, i) = SubSeq(a, 1, m - 1) \o SubSeq(a, m + 1, Len(a)) \o <<0>>
  BY DEF Without, RemoveAt, Place
<1> HIDE DEF m
<1> DEFINE x == SubSeq(a, 1, m - 1)
           y == SubSeq(a, m + 1, Len(a))
<1>3. /\ x \in Seq(C) /\ Len(x) = m - 1 /\ \A j \in 1 .. m - 1 : x[j] = a[j]
      /\ y \in Seq(C) /\ Len(y) = Len(a) - m
      /\ \A j \in 1 .. Len(a) - m : y[j] = a[m + j]
  BY <1>1
<1>4. <<0>> \in Seq(C) /\ Len(<<0>>) = 1 /\ <<0>>[1] = 0
  OBVIOUS
<1> HIDE DEF x, y, C
<1>5. /\ x \o y \in Seq(C) /\ Len(x \o y) = Len(a) - 1
      /\ \A j \in 1 .. Len(a) - 1 : (x \o y)[j] = IF j < m THEN a[j] ELSE a[j + 1]
  <2>1. /\ x \o y \in Seq(C) /\ Len(x \o y) = Len(x) + Len(y)
        /\ \A j \in 1 .. Len(x) + Len(y) :
             (x \o y)[j] = IF j <= Len(x) THEN x[j] ELSE y[j - Len(x)]
    BY <1>3, ConcatProperties
  <2> QED
    BY <1>1, <1>3, <2>1
<1>6. /\ Without(a, i) = (x \o y) \o <<0>>
      /\ Without(a, i) \in Seq(C)
      /\ Len(Without(a, i)) = Len(a)
  <2>1. Without(a, i) = (x \o y) \o <<0>>
    BY <1>2 DEF x, y
  <2> QED
    BY <1>1, <1>4, <1>5, <2>1, ConcatProperties
<1>7. \A j \in 1 .. Len(a) :
        Without(a, i)[j] = IF j < Len(a) THEN (x \o y)[j] ELSE 0
  <2>1. \A j \in 1 .. Len(x \o y) + 1 :
          ((x \o y) \o <<0>>)[j] = IF j <= Len(x \o y) THEN (x \o y)[j] ELSE <<0>>[j - Len(x \o y)]
    BY <1>4, <1>5, ConcatProperties
  <2> QED
    BY <1>1, <1>4, <1>5, <1>6, <2>1
<1>8. \A j \in 1 .. Len(a) :
        Without(a, i)[j] = IF j < m THEN a[j] ELSE IF j < Len(a) THEN a[j + 1] ELSE 0
  BY <1>1, <1>5, <1>7
<1>9. Without(a, i) \in Seq(ClientID \cup {0}) /\ Len(Without(a, i)) = Len(a)
  BY <1>6 DEF C
<1> QED
  BY <1>1, <1>8, <1>9

-----------------------------------------------------------------------------
(* What the operations on the registry do to the map.                      *)

\* The end of a session touches no mapping but its own, which it deactivates.
LEMMA DeactivateStep ==
  ASSUME TypeOK, ConfiguredKept, NEW i \in ClientID \cup {0}, NEW b \in BOOLEAN,
         Deactivate(i, b)
  PROVE  /\ proxyMap' \in [ClientID -> Mapping]
         /\ clients' \in [Update -> Seq(ClientID \cup {0})]
         /\ gcFlag' \subseteq Update
         /\ ConfiguredKept'
         /\ \A j \in ClientID : j # i => proxyMap'[j] = proxyMap[j]
         /\ i # 0 => ~ proxyMap'[i].isActive
<1>1. CASE i = 0
  BY <1>1 DEF Deactivate, TypeOK, ConfiguredKept
<1>2. CASE i # 0
  <2>0. i \in ClientID /\ 0 \in 0 .. CountMod - 1
    BY <1>2, ClientAssumption
  <2>1. proxyMap' = [proxyMap EXCEPT ![i] = Released(proxyMap[i], b)]
    BY <1>2 DEF Deactivate
  <2>2. proxyMap' \in [ClientID -> Mapping] /\ Released(proxyMap[i], b) \in Mapping
    <3>1. proxyMap[i] \in Mapping
      BY <2>0 DEF TypeOK
    <3>2. Released(proxyMap[i], b) \in Mapping
      BY <2>0, <3>1 DEF Released, Mapping
    <3> QED
      BY <2>0, <2>1, <3>2 DEF TypeOK
  <2>3. \A u \in Update : u \in Unregistered(i) =>
          Without(clients[u], i) \in Seq(ClientID \cup {0})
    BY WithoutType DEF Unregistered, References, TypeOK
  <2>4. clients' \in [Update -> Seq(ClientID \cup {0})]
    <3>1. clients' = [u \in Update |->
            IF u \in Unregistered(i) THEN Without(clients[u], i) ELSE clients[u]]
      BY <1>2 DEF Deactivate
    <3>2. \A u \in Update : clients[u] \in Seq(ClientID \cup {0})
      BY DEF TypeOK
    <3> QED
      BY <2>3, <3>1, <3>2
  <2>5. gcFlag' \subseteq Update
    BY <1>2 DEF Deactivate, TypeOK, Orphaned, Unregistered, References
  <2>6. ConfiguredKept'
    BY <2>0, <2>1 DEF ConfiguredKept, TypeOK, Mapping, Released
  <2> QED
    BY <2>0, <2>1, <2>2, <2>4, <2>5, <2>6 DEF TypeOK, Mapping, Released
<1> QED
  BY <1>1, <1>2

\* Two maps that differ in their counts of updates only.
SameButCounts(m, n) ==
  \A j \in ClientID : /\ m[j].proxyID = n[j].proxyID /\ m[j].socket = n[j].socket
                       /\ m[j].isActive = n[j].isActive
                       /\ m[j].preDefined = n[j].preDefined

\* A request changes a mapping's count at most.
LEMMA RegisterStep ==
  ASSUME TypeOK, NEW u \in Update, NEW i \in ClientID \cup {0}, Register(u, i)
  PROVE  /\ proxyMap' \in [ClientID -> Mapping]
         /\ noMappings' = noMappings
         /\ item' \in [Update -> 0 .. Cardinality(Update)]
         /\ clients' \in [Update -> Seq(ClientID \cup {0})]
         /\ gcFlag' \subseteq Update
         /\ ski' \subseteq Update
         /\ SameButCounts(proxyMap, proxyMap')
<1> DEFINE new   == item[u] = 0
           old   == IF new THEN [k \in 1 .. MinClients |-> 0] ELSE clients[u]
           slots == Slots(old, i)
<1>1. old \in Seq(ClientID \cup {0})
  BY ClientAssumption DEF TypeOK
<1>2. \/ proxyMap' = proxyMap
      \/ i \in ClientID /\ proxyMap' = [proxyMap EXCEPT ![i].updateCount = (@ + 1) % CountMod]
  BY DEF Register
<1>3. proxyMap' \in [ClientID -> Mapping] /\ SameButCounts(proxyMap, proxyMap')
  <2>1. CASE proxyMap' = proxyMap
    BY <2>1 DEF TypeOK, SameButCounts
  <2>2. CASE i \in ClientID /\ proxyMap' = [proxyMap EXCEPT ![i].updateCount = (@ + 1) % CountMod]
    <3>1. proxyMap[i].updateCount \in 0 .. CountMod - 1
      BY <2>2 DEF TypeOK, Mapping
    <3>2. (proxyMap[i].updateCount + 1) % CountMod \in 0 .. CountMod - 1
      BY <3>1, Counts, ClientAssumption
    <3> QED
      BY <2>2, <3>2 DEF TypeOK, Mapping, SameButCounts
  <2> QED
    BY <1>2, <2>1, <2>2
<1>4. clients' \in [Update -> Seq(ClientID \cup {0})]
  <2>1. clients' = [clients EXCEPT ![u] = IF i = 0 THEN old ELSE Referring(old, i)]
    BY DEF Register
  <2> HIDE DEF old
  <2>2. i # 0 => Referring(old, i) \in Seq(ClientID \cup {0})
    BY <1>1, ReferringType
  <2> QED
    BY <1>1, <2>1, <2>2 DEF TypeOK
<1>5. item' \in [Update -> 0 .. Cardinality(Update)]
  BY PositionType DEF Register, TypeOK
<1>6. gcFlag' \subseteq Update /\ ski' \subseteq Update /\ noMappings' = noMappings
  BY DEF Register, TypeOK
<1> QED
  BY <1>3, <1>4, <1>5, <1>6

-----------------------------------------------------------------------------
(* The inductive invariant holds initially.                                *)

LEMMA InitIInv == Init => IInv
<1> SUFFICES ASSUME Init PROVE IInv
  OBVIOUS
<1>1. TypeOK
  <2>1. noMappings \in 0 .. Wrap - 1
    <3> DEFINE M == {i \in ClientID : Configured[i] # 0}
    <3>1. IsFiniteSet(1 .. NumClients) /\ Cardinality(1 .. NumClients) = NumClients
      BY FS_Interval, ClientAssumption
    <3>2. M \in SUBSET (1 .. NumClients)
      BY DEF ClientID
    <3>3. Cardinality(M) \in Nat /\ Cardinality(M) <= NumClients
      BY <3>1, <3>2, FS_Subset, FS_CardinalityType
    <3>4. noMappings = Cardinality(M)
      BY DEF Init
    <3> QED
      BY <3>3, <3>4, ClientAssumption
  <2>2. 0 \in 0 .. CountMod - 1 /\ 0 \in 0 .. Cardinality(Update)
    BY ClientAssumption, ProxyAssumption, FS_CardinalityType
  <2>3. thread \in [Conn -> Thread] /\ proxyMap \in [ClientID -> Mapping]
    BY <2>2, ProxyAssumption DEF Init, Thread, Mapping
  <2> QED
    BY <2>1, <2>2, <2>3 DEF Init, TypeOK
<1>2. HelloAhead
  BY DEF Init, HelloAhead, HelloOnce, Helloing
<1> QED
  BY <1>1, <1>2 DEF Init, IInv, HandshakeDone, ActiveHasSocket, ConfiguredKept,
                    ActiveMappingServes

-----------------------------------------------------------------------------
(* The inductive invariant is preserved: the proxies' steps.               *)

PeerState == {"none", "connected", "greeting", "established", "leaving", "gone"}

\* A packet is sent; only a HELLO needs the connection to be without client ID.
LEMMA SendStep ==
  ASSUME IInv, NEW c \in Conn, NEW type, NEW arg, Send(type, c, arg),
         [type |-> type, conn |-> c, arg |-> arg] \in Packet,
         rib' \in [Conn -> SUBSET Update],
         peer' \in [Conn -> PeerState], \A d \in Conn \ {c} : peer'[d] = peer[d],
         peer[c] # "connected" => peer'[c] \notin {"none", "connected"},
         type = "HELLO" => peer[c] = "connected" /\ peer'[c] = "greeting"
  PROVE  IInv'
<1> DEFINE pkt == [type |-> type, conn |-> c, arg |-> arg]
<1>1. /\ rcvQueue' = Append(rcvQueue, pkt)
      /\ UNCHANGED <<thread, cmdQueue, greeted, proxyMap, noMappings, item, clients, gcFlag, ski>>
  BY DEF Send, registry
<1>2. \A d \in Conn : Hello(pkt, d) <=> type = "HELLO" /\ d = c
  BY DEF Hello
<1>3. type = "HELLO" => c \notin Helloing(rcvQueue) \cup Helloing(cmdQueue)
  BY DEF IInv, HelloAhead
<1> HIDE DEF pkt
<1>4. /\ rcvQueue' \in Seq(Packet)
      /\ HelloOnce(rcvQueue')
      /\ Helloing(rcvQueue') = Helloing(rcvQueue) \cup {d \in Conn : Hello(pkt, d)}
  BY <1>1, <1>2, <1>3, AfterAppend DEF IInv, TypeOK, HelloAhead, pkt
<1>5. TypeOK'
  BY <1>1, <1>4 DEF IInv, TypeOK, PeerState
<1>6. HelloAhead'
  <2>1. HelloOnce(cmdQueue') /\ Helloing(cmdQueue') = Helloing(cmdQueue)
    BY <1>1 DEF IInv, HelloAhead
  <2>2. HelloOnce(rcvQueue)' /\ Helloing(rcvQueue)' = Helloing(rcvQueue')
        /\ HelloOnce(cmdQueue)' /\ Helloing(cmdQueue)' = Helloing(cmdQueue')
    BY <1>4, <2>1 DEF HelloOnce, Helloing
  <2>3. \A d \in Conn : Hello(pkt, d) => d = c /\ peer[c] = "connected" /\ peer'[c] = "greeting"
    BY <1>2
  <2>4. Helloing(rcvQueue') \cap Helloing(cmdQueue') = {}
    BY <1>2, <1>3, <1>4, <2>1 DEF IInv, HelloAhead
  <2>5. \A d \in Helloing(rcvQueue') \cup Helloing(cmdQueue') :
          peer'[d] \notin {"none", "connected"} /\ thread'[d].routerID = 0
    <3> SUFFICES ASSUME NEW d \in Helloing(rcvQueue') \cup Helloing(cmdQueue')
                 PROVE  peer'[d] \notin {"none", "connected"} /\ thread'[d].routerID = 0
      OBVIOUS
    <3>1. d \in Conn
      BY DEF Helloing
    <3>2. CASE Hello(pkt, d)
      BY <1>1, <2>3, <3>1, <3>2 DEF IInv, TypeOK, HelloAhead
    <3>3. CASE ~ Hello(pkt, d)
      <4>1. d \in Helloing(rcvQueue) \cup Helloing(cmdQueue)
        BY <1>4, <2>1, <3>3
      <4> QED
        BY <1>1, <3>1, <4>1 DEF IInv, TypeOK, HelloAhead
    <3> QED
      BY <3>2, <3>3
  <2>6. \A d \in Conn : peer'[d] \in {"none", "connected"} => thread'[d].routerID = 0
    BY <1>1 DEF IInv, TypeOK, HelloAhead
  <2> QED
    BY <1>4, <2>1, <2>2, <2>4, <2>5, <2>6 DEF HelloAhead
<1> QED
  BY <1>1, <1>5, <1>6 DEF IInv, HandshakeDone, ActiveHasSocket, ConfiguredKept,
                          ActiveMappingServes

\* What the map's conjuncts depend on did not change.
LEMMA MapKept ==
  ASSUME IInv, SameButCounts(proxyMap, proxyMap'), greeted' = greeted,
         \A c \in Conn : /\ thread'[c].active = thread[c].active
                         /\ thread'[c].initialized = thread[c].initialized
                         /\ thread'[c].proxyID = thread[c].proxyID
                         /\ thread'[c].routerID = thread[c].routerID
  PROVE  HandshakeDone' /\ ActiveHasSocket' /\ ConfiguredKept' /\ ActiveMappingServes'
<1>1. greeted \in Conn \cup {NULL} /\ NULL \notin Conn
  BY ClientAssumption DEF IInv, TypeOK
<1>2. HandshakeDone'
  BY <1>1 DEF IInv, HandshakeDone
<1>3. ActiveHasSocket'
  BY <1>1 DEF IInv, ActiveHasSocket, SameButCounts
<1>4. ConfiguredKept'
  BY DEF IInv, ConfiguredKept, SameButCounts
<1>5. ActiveMappingServes'
  BY DEF IInv, ActiveHasSocket, ActiveMappingServes, SameButCounts
<1> QED
  BY <1>2, <1>3, <1>4, <1>5

LEMMA ConnectStep ==
  ASSUME IInv, NEW c \in Conn, Connect(c) PROVE IInv'
<1>1. /\ peer[c] = "none"
      /\ peer' = [peer EXCEPT ![c] = "connected"]
      /\ thread' = [thread EXCEPT ![c].active = TRUE]
      /\ UNCHANGED <<rib, rcvQueue, cmdQueue, greeted, proxyMap, noMappings, item, clients, gcFlag, ski>>
  BY DEF Connect, registry
<1>2. TypeOK'
  BY <1>1 DEF IInv, TypeOK, Thread
<1>3. HelloAhead'
  <2>1. \A d \in Conn : thread'[d].routerID = thread[d].routerID
    BY <1>1 DEF IInv, TypeOK, Thread
  <2>2. c \notin Helloing(rcvQueue) \cup Helloing(cmdQueue)
    BY <1>1 DEF IInv, HelloAhead
  <2>3. /\ HelloOnce(rcvQueue)' /\ HelloOnce(cmdQueue)'
        /\ Helloing(rcvQueue)' = Helloing(rcvQueue) /\ Helloing(cmdQueue)' = Helloing(cmdQueue)
    BY <1>1 DEF IInv, HelloAhead, HelloOnce, Helloing
  <2>4. Helloing(rcvQueue) \subseteq Conn /\ Helloing(cmdQueue) \subseteq Conn
    BY DEF Helloing
  <2> QED
    BY <1>1, <2>1, <2>2, <2>3, <2>4 DEF IInv, TypeOK, HelloAhead
<1>4. ActiveMappingServes' /\ ActiveHasSocket' /\ HandshakeDone' /\ ConfiguredKept'
  <2>1. greeted \in Conn \cup {NULL} /\ NULL \notin Conn
    BY ClientAssumption DEF IInv, TypeOK
  <2>2. \A d \in Conn : /\ thread[d].active => thread'[d].active
                        /\ thread'[d].initialized = thread[d].initialized
                        /\ thread'[d].proxyID = thread[d].proxyID
                        /\ thread'[d].routerID = thread[d].routerID
    BY <1>1 DEF IInv, TypeOK, Thread
  <2> QED
    BY <1>1, <2>1, <2>2 DEF IInv, ActiveMappingServes, ActiveHasSocket, HandshakeDone,
                            ConfiguredKept
<1> QED
  BY <1>2, <1>3, <1>4 DEF IInv

\* The end of a connection: no HELLO is on its way that would be accepted
\* for it twice, and the mapping it had is inactive.
LEMMA DisconnectStep ==
  ASSUME IInv, NEW c \in Conn, Disconnect(c) PROVE IInv'
<1> DEFINE i == thread[c].routerID
           b == ~ thread[c].goodByeReceived
<1>1. /\ peer' = [peer EXCEPT ![c] = "gone"]
      /\ thread' = [thread EXCEPT ![c].active = FALSE]
      /\ Deactivate(i, b)
      /\ UNCHANGED <<rib, rcvQueue, cmdQueue, greeted, noMappings, item, ski>>
  BY DEF Disconnect
<1>2. i \in ClientID \cup {0} /\ b \in BOOLEAN
  BY DEF IInv, TypeOK, Thread
<1> HIDE DEF b
<1>3. /\ proxyMap' \in [ClientID -> Mapping]
      /\ clients' \in [Update -> Seq(ClientID \cup {0})]
      /\ gcFlag' \subseteq Update
      /\ ConfiguredKept'
      /\ \A j \in ClientID : j # i => proxyMap'[j] = proxyMap[j]
      /\ i # 0 => ~ proxyMap'[i].isActive
  BY <1>1, <1>2, DeactivateStep DEF IInv
<1>4. TypeOK'
  BY <1>1, <1>3 DEF IInv, TypeOK, Thread
<1>5. \A d \in Conn : /\ d # c => thread'[d] = thread[d]
                      /\ thread'[d].initialized = thread[d].initialized
                      /\ thread'[d].proxyID = thread[d].proxyID
                      /\ thread'[d].routerID = thread[d].routerID
  BY <1>1 DEF IInv, TypeOK, Thread
<1>6. HelloAhead'
  <2>1. /\ HelloOnce(rcvQueue)' /\ HelloOnce(cmdQueue)'
        /\ Helloing(rcvQueue)' = Helloing(rcvQueue) /\ Helloing(cmdQueue)' = Helloing(cmdQueue)
    BY <1>1 DEF IInv, HelloAhead, HelloOnce, Helloing
  <2>2. Helloing(rcvQueue) \subseteq Conn /\ Helloing(cmdQueue) \subseteq Conn
    BY DEF Helloing
  <2> QED
    BY <1>1, <1>5, <2>1, <2>2 DEF IInv, TypeOK, HelloAhead
<1>7. \A j \in ClientID : proxyMap'[j].isActive =>
        j # i /\ proxyMap'[j] = proxyMap[j] /\ proxyMap[j].socket \in Conn \ {c}
  BY <1>3, 0 \notin ClientID DEF IInv, ActiveHasSocket, ActiveMappingServes, ClientID
<1>8. ActiveMappingServes' /\ ActiveHasSocket' /\ HandshakeDone'
  <2>1. greeted \in Conn \cup {NULL} /\ NULL \notin Conn
    BY ClientAssumption DEF IInv, TypeOK
  <2>2. ActiveMappingServes'
    BY <1>5, <1>7 DEF IInv, ActiveMappingServes
  <2>3. ActiveHasSocket'
    BY <1>1, <1>5, <1>7, <2>1 DEF IInv, ActiveHasSocket
  <2> QED
    BY <1>1, <1>5, <2>1, <2>2, <2>3 DEF IInv, HandshakeDone
<1> QED
  BY <1>3, <1>4, <1>6, <1>8 DEF IInv

-----------------------------------------------------------------------------
(* The receiver queue's thread.                                            *)

\* A packet leaves the receiver queue, for the command queue or for good.
LEMMA ReceiveQueues ==
  ASSUME IInv, rcvQueue # <<>>, rcvQueue' = Tail(rcvQueue),
         cmdQueue' \in {cmdQueue, Append(cmdQueue, Head(rcvQueue))},
         peer' = peer \/ Refuse(Head(rcvQueue).conn),
         \A d \in Conn : thread'[d].routerID = thread[d].routerID
  PROVE  /\ HelloAhead'
         /\ rcvQueue' \in Seq(Packet)
         /\ cmdQueue' \in Seq(Packet)
         /\ peer' \in [Conn -> PeerState]
         /\ Head(rcvQueue) \in Packet
<1> DEFINE pkt == Head(rcvQueue)
<1>1. /\ pkt \in Packet
      /\ rcvQueue' \in Seq(Packet)
      /\ HelloOnce(rcvQueue')
      /\ Helloing(rcvQueue') \subseteq Helloing(rcvQueue)
      /\ \A c \in Conn : Hello(pkt, c) => c \in Helloing(rcvQueue) \ Helloing(rcvQueue')
  BY AfterTail DEF IInv, TypeOK, HelloAhead
<1> HIDE DEF pkt
<1>2. /\ cmdQueue' \in Seq(Packet)
      /\ HelloOnce(cmdQueue')
      /\ Helloing(cmdQueue') \subseteq Helloing(cmdQueue) \cup {c \in Conn : Hello(pkt, c)}
  <2>1. CASE cmdQueue' = cmdQueue
    BY <2>1 DEF IInv, TypeOK, HelloAhead
  <2>2. CASE cmdQueue' = Append(cmdQueue, pkt)
    <3>1. \A c \in Conn : Hello(pkt, c) => c \notin Helloing(cmdQueue)
      BY <1>1 DEF IInv, HelloAhead
    <3> QED
      BY <1>1, <2>2, <3>1, AfterAppend DEF IInv, TypeOK, HelloAhead
  <2> QED
    BY <2>1, <2>2 DEF pkt
<1>3. Helloing(rcvQueue') \cup Helloing(cmdQueue') \subseteq Helloing(rcvQueue) \cup Helloing(cmdQueue)
  BY <1>1, <1>2
<1>4. Helloing(rcvQueue') \cap Helloing(cmdQueue') = {}
  BY <1>1, <1>2 DEF IInv, HelloAhead
<1>5. /\ peer' \in [Conn -> PeerState]
      /\ \A d \in Conn : peer'[d] = peer[d] \/ peer'[d] = "leaving"
  BY DEF IInv, TypeOK, Refuse, PeerState
<1>6. HelloAhead'
  <2>1. Helloing(rcvQueue') \cup Helloing(cmdQueue') \subseteq Conn
    BY DEF Helloing
  <2>2. /\ HelloOnce(rcvQueue)' /\ HelloOnce(cmdQueue)'
        /\ Helloing(rcvQueue)' = Helloing(rcvQueue') /\ Helloing(cmdQueue)' = Helloing(cmdQueue')
    BY <1>1, <1>2 DEF HelloOnce, Helloing
  <2>3. \A d \in Helloing(rcvQueue') \cup Helloing(cmdQueue') :
          peer'[d] \notin {"none", "connected"} /\ thread'[d].routerID = 0
    BY <1>3, <1>5, <2>1 DEF IInv, HelloAhead
  <2>4. \A d \in Conn : peer'[d] \in {"none", "connected"} => thread'[d].routerID = 0
    BY <1>5 DEF IInv, HelloAhead
  <2> QED
    BY <1>4, <2>2, <2>3, <2>4 DEF HelloAhead
<1> QED
  BY <1>1, <1>2, <1>5, <1>6 DEF pkt

LEMMA HandleHelloStep ==
  ASSUME IInv, HandleHello PROVE IInv'
<1>1. /\ rcvQueue # <<>> /\ rcvQueue' = Tail(rcvQueue)
      /\ cmdQueue' \in {cmdQueue, Append(cmdQueue, Head(rcvQueue))}
      /\ peer' = peer \/ Refuse(Head(rcvQueue).conn)
      /\ UNCHANGED <<rib, thread, greeted, proxyMap, noMappings, item, clients, gcFlag, ski>>
  BY DEF HandleHello, Received, ToCommands, registry
<1>2. HelloAhead' /\ TypeOK'
  BY <1>1, ReceiveQueues DEF IInv, TypeOK, PeerState
<1>3. HandshakeDone' /\ ActiveHasSocket' /\ ConfiguredKept' /\ ActiveMappingServes'
  BY <1>1, MapKept DEF SameButCounts
<1> QED
  BY <1>2, <1>3 DEF IInv

LEMMA HandleDeleteStep ==
  ASSUME IInv, HandleDelete PROVE IInv'
<1>1. /\ rcvQueue # <<>> /\ rcvQueue' = Tail(rcvQueue)
      /\ cmdQueue' \in {cmdQueue, Append(cmdQueue, Head(rcvQueue))}
      /\ peer' = peer \/ Refuse(Head(rcvQueue).conn)
      /\ UNCHANGED <<rib, thread, greeted, proxyMap, noMappings, item, clients, gcFlag, ski>>
  BY DEF HandleDelete, Received, ToCommands, registry
<1>2. HelloAhead' /\ TypeOK'
  BY <1>1, ReceiveQueues DEF IInv, TypeOK, PeerState
<1>3. HandshakeDone' /\ ActiveHasSocket' /\ ConfiguredKept' /\ ActiveMappingServes'
  BY <1>1, MapKept DEF SameButCounts
<1> QED
  BY <1>2, <1>3 DEF IInv

LEMMA HandleGoodbyeStep ==
  ASSUME IInv, HandleGoodbye PROVE IInv'
<1> DEFINE c == Head(rcvQueue).conn
           b == thread[c].goodByeReceived \/ (thread[c].active /\ thread[c].initialized)
<1>1. /\ rcvQueue # <<>> /\ rcvQueue' = Tail(rcvQueue)
      /\ cmdQueue' = Append(cmdQueue, Head(rcvQueue))
      /\ thread' = [thread EXCEPT ![c].goodByeReceived = b]
      /\ UNCHANGED <<peer, rib, greeted, proxyMap, noMappings, item, clients, gcFlag, ski>>
  BY DEF HandleGoodbye, Received, ToCommands, registry
<1>2. /\ thread' \in [Conn -> Thread]
      /\ \A d \in Conn : /\ thread'[d].active = thread[d].active
                          /\ thread'[d].initialized = thread[d].initialized
                          /\ thread'[d].proxyID = thread[d].proxyID
                          /\ thread'[d].routerID = thread[d].routerID
  <2>1. b \in BOOLEAN
    OBVIOUS
  <2> HIDE DEF b
  <2> QED
    BY <1>1, <2>1 DEF IInv, TypeOK, Thread
<1>3. HelloAhead' /\ TypeOK'
  BY <1>1, <1>2, ReceiveQueues DEF IInv, TypeOK, PeerState
<1>4. HandshakeDone' /\ ActiveHasSocket' /\ ConfiguredKept' /\ ActiveMappingServes'
  BY <1>1, <1>2, MapKept DEF SameButCounts
<1> QED
  BY <1>3, <1>4 DEF IInv

LEMMA HandleVerifyStep ==
  ASSUME IInv, HandleVerify PROVE IInv'
<1> DEFINE pkt == Head(rcvQueue)
           t   == thread[pkt.conn]
           i   == IF pkt.type = "VERIFY" THEN t.routerID ELSE 0
<1>1. /\ rcvQueue # <<>> /\ rcvQueue' = Tail(rcvQueue)
      /\ pkt.type \in {"VERIFY", "STORE"}
      /\ \/ Register(pkt.arg, i) /\ peer' = peer
         \/ /\ Refuse(pkt.conn)
            /\ UNCHANGED <<proxyMap, noMappings, item, clients, gcFlag, ski>>
      /\ UNCHANGED <<rib, thread, cmdQueue, greeted>>
  BY DEF HandleVerify, Received, registry
<1>2. /\ HelloAhead' /\ rcvQueue' \in Seq(Packet) /\ peer' \in [Conn -> PeerState]
      /\ pkt \in Packet
  BY <1>1, ReceiveQueues
<1>3. pkt.arg \in Update /\ i \in ClientID \cup {0}
  BY <1>1, <1>2, PacketFields DEF IInv, TypeOK, Thread
<1> HIDE DEF i
<1>4. /\ proxyMap' \in [ClientID -> Mapping]
      /\ noMappings' = noMappings
      /\ item' \in [Update -> 0 .. Cardinality(Update)]
      /\ clients' \in [Update -> Seq(ClientID \cup {0})]
      /\ gcFlag' \subseteq Update
      /\ ski' \subseteq Update
      /\ SameButCounts(proxyMap, proxyMap')
  <2>1. CASE Register(pkt.arg, i)
    BY <1>3, <2>1, RegisterStep DEF IInv
  <2>2. CASE UNCHANGED <<proxyMap, noMappings, item, clients, gcFlag, ski>>
    BY <2>2 DEF IInv, TypeOK, SameButCounts
  <2> QED
    BY <1>1, <2>1, <2>2
<1>5. TypeOK'
  BY <1>1, <1>2, <1>4 DEF IInv, TypeOK, PeerState
<1>6. HandshakeDone' /\ ActiveHasSocket' /\ ConfiguredKept' /\ ActiveMappingServes'
  BY <1>1, <1>4, MapKept
<1> QED
  BY <1>2, <1>5, <1>6 DEF IInv

-----------------------------------------------------------------------------
(* The command handler's thread.                                           *)

\* A command is taken; the client ID of its connection may be set.
LEMMA CommandQueues ==
  ASSUME IInv, cmdQueue # <<>>, cmdQueue' = Tail(cmdQueue), rcvQueue' = rcvQueue,
         \A d \in Conn : peer'[d] = peer[d] \/ peer'[d] \notin {"none", "connected"},
         \A d \in Conn : thread'[d].routerID = thread[d].routerID
                           \/ Hello(Head(cmdQueue), d)
  PROVE  /\ HelloAhead'
         /\ cmdQueue' \in Seq(Packet)
         /\ Head(cmdQueue) \in Packet
<1> DEFINE pkt == Head(cmdQueue)
<1>1. /\ pkt \in Packet
      /\ cmdQueue' \in Seq(Packet)
      /\ HelloOnce(cmdQueue')
      /\ Helloing(cmdQueue') \subseteq Helloing(cmdQueue)
      /\ \A c \in Conn : Hello(pkt, c) => c \in Helloing(cmdQueue) \ Helloing(cmdQueue')
  BY AfterTail DEF IInv, TypeOK, HelloAhead
<1> HIDE DEF pkt
<1>2. /\ HelloOnce(rcvQueue)' /\ HelloOnce(cmdQueue)'
      /\ Helloing(rcvQueue)' = Helloing(rcvQueue) /\ Helloing(cmdQueue)' = Helloing(cmdQueue')
  BY <1>1 DEF IInv, HelloAhead, HelloOnce, Helloing
<1>3. Helloing(rcvQueue) \cap Helloing(cmdQueue') = {}
  BY <1>1 DEF IInv, HelloAhead
<1>4. ASSUME NEW d \in Helloing(rcvQueue) \cup Helloing(cmdQueue')
      PROVE  peer'[d] \notin {"none", "connected"} /\ thread'[d].routerID = 0
  <2>1. d \in Conn
    BY DEF Helloing
  <2>2. ~ Hello(pkt, d)
    BY <1>1, <1>3, <2>1 DEF IInv, HelloAhead
  <2> QED
    BY <1>1, <2>1, <2>2 DEF IInv, HelloAhead, pkt
<1>5. ASSUME NEW d \in Conn, peer'[d] \in {"none", "connected"}
      PROVE  thread'[d].routerID = 0
  <2>1. peer[d] \in {"none", "connected"}
    BY <1>5
  <2>2. ~ Hello(pkt, d)
    BY <1>1, <2>1 DEF IInv, HelloAhead
  <2> QED
    BY <2>1, <2>2 DEF IInv, HelloAhead, pkt
<1>6. HelloAhead'
  BY <1>2, <1>3, <1>4, <1>5 DEF HelloAhead
<1> QED
  BY <1>1, <1>6 DEF pkt

\* A HELLO in the command queue has no client ID yet, so the mapping it is
\* given was inactive or another connection's, and the latter is refused.
LEMMA AcceptHelloStep ==
  ASSUME IInv, AcceptHello PROVE IInv'
<1> DEFINE c == Head(cmdQueue).conn
           p == Head(cmdQueue).arg
           i == WantedID(p)
<1>1. /\ greeted = NULL /\ cmdQueue # <<>> /\ Head(cmdQueue).type = "HELLO"
      /\ p # NULL
      /\ Mappable(p, i, c)
      /\ addMapping(p, i, c)
      /\ thread' = [thread EXCEPT ![c].proxyID = p, ![c].routerID = i]
      /\ cmdQueue' = Tail(cmdQueue)
      /\ \/ thread[c].active /\ greeted' = c /\ peer' = [peer EXCEPT ![c] = "established"]
         \/ UNCHANGED <<greeted, peer>>
      /\ UNCHANGED <<rib, rcvQueue, item, clients, gcFlag, ski>>
  BY DEF AcceptHello, Command
<1>2. Head(cmdQueue) \in Packet /\ cmdQueue' \in Seq(Packet)
  BY <1>1, AfterTail DEF IInv, TypeOK, HelloAhead
<1>3. /\ c \in Conn /\ p \in Proxy /\ Hello(Head(cmdQueue), c)
      /\ p \in Nat \ {0}
  BY <1>1, <1>2, PacketFields, ProxyAssumption DEF Hello
<1>4. /\ i \in ClientID /\ i # 0
      /\ proxyMap[i].proxyID \in {0, p}
  BY <1>1, WantedIDType DEF IInv, Mappable
<1>5. thread[c].routerID = 0 /\ ~ thread[c].initialized
  <2>1. c \in Helloing(cmdQueue)
    BY <1>1, <1>3, AfterTail DEF IInv, TypeOK, HelloAhead
  <2> QED
    BY <1>3, <2>1 DEF IInv, HelloAhead, HandshakeDone
<1> HIDE DEF c, p, i
<1>6. /\ thread' \in [Conn -> Thread]
      /\ thread'[c].routerID = i /\ thread'[c].proxyID = p
      /\ thread'[c].active = thread[c].active /\ ~ thread'[c].initialized
      /\ \A d \in Conn \ {c} : thread'[d] = thread[d]
  BY <1>1, <1>3, <1>4, <1>5 DEF IInv, TypeOK, Thread
<1>7. /\ proxyMap' \in [ClientID -> Mapping]
      /\ proxyMap'[i].proxyID = p /\ proxyMap'[i].socket = c
      /\ proxyMap'[i].preDefined = proxyMap[i].preDefined
      /\ \A j \in ClientID \ {i} : proxyMap'[j] = proxyMap[j]
  <2> DEFINE m == [proxyMap[i] EXCEPT !.proxyID = p, !.socket = c, !.isActive = TRUE,
                                      !.crashed = FALSE]
  <2>1. proxyMap' = [proxyMap EXCEPT ![i] = m]
    BY <1>1 DEF addMapping
  <2>2. proxyMap[i] \in Mapping
    BY <1>4 DEF IInv, TypeOK
  <2>3. /\ m \in Mapping /\ m.proxyID = p /\ m.socket = c
        /\ m.preDefined = proxyMap[i].preDefined
    BY <1>3, <2>2 DEF Mapping
  <2> HIDE DEF m
  <2> QED
    BY <1>4, <2>1, <2>3 DEF IInv, TypeOK
<1>8. noMappings' \in 0 .. Wrap - 1
  <2>1. noMappings \in 0 .. Wrap - 1 /\ (noMappings + 1) % Wrap \in 0 .. Wrap - 1
    <3>1. noMappings \in 0 .. Wrap - 1 /\ noMappings + 1 \in Int
      BY ClientAssumption DEF IInv, TypeOK
    <3> QED
      BY <3>1, Wraps
  <2> QED
    BY <1>1, <2>1 DEF addMapping
<1>9. peer' \in [Conn -> PeerState] /\ greeted' \in {NULL, c}
      /\ \A d \in Conn : peer'[d] = peer[d] \/ peer'[d] = "established"
  BY <1>1, <1>3 DEF IInv, TypeOK, PeerState
<1>10. TypeOK'
  BY <1>1, <1>2, <1>3, <1>6, <1>7, <1>8, <1>9 DEF IInv, TypeOK, PeerState
<1>11. HelloAhead'
  <2>1. \A d \in Conn : thread'[d].routerID = thread[d].routerID \/ Hello(Head(cmdQueue), d)
    BY <1>3, <1>6
  <2> QED
    BY <1>1, <1>9, <2>1, CommandQueues
<1>12. HandshakeDone'
  BY <1>3, <1>4, <1>6, <1>9 DEF IInv, HandshakeDone
<1>13. ConfiguredKept'
  <2>1. Configured[i] # 0 => proxyMap[i].proxyID = p
    BY <1>4 DEF IInv, ConfiguredKept, ClientID, p
  <2> QED
    BY <1>4, <1>7, <2>1 DEF IInv, ConfiguredKept
<1>14. \A j \in ClientID \ {i} : proxyMap'[j].isActive =>
         proxyMap'[j] = proxyMap[j] /\ proxyMap[j].socket \in Conn \ {c}
  BY <1>3, <1>5, <1>7, 0 \notin ClientID DEF IInv, ActiveHasSocket, ActiveMappingServes, ClientID
<1>15. ActiveHasSocket'
  <2>1. NULL \notin Conn
    BY ClientAssumption
  <2>2. greeted' = c => thread'[c].active
    BY <1>1, <1>3, <1>6, <2>1
  <2> QED
    BY <1>3, <1>7, <1>9, <1>14, <2>1, <2>2 DEF ActiveHasSocket
<1>16. ActiveMappingServes'
  BY <1>6, <1>7, <1>14 DEF IInv, ActiveMappingServes
<1> QED
  BY <1>10, <1>11, <1>12, <1>13, <1>15, <1>16 DEF IInv

LEMMA CompleteHelloStep ==
  ASSUME IInv, CompleteHello PROVE IInv'
<1>1. /\ greeted # NULL /\ greeted \in Conn /\ greeted' = NULL
      /\ thread' = [thread EXCEPT ![greeted].initialized = TRUE]
      /\ UNCHANGED <<peer, rib, rcvQueue, cmdQueue, proxyMap, noMappings, item, clients, gcFlag, ski>>
  BY DEF CompleteHello, registry, IInv, TypeOK
<1>2. /\ thread' \in [Conn -> Thread]
      /\ \A d \in Conn : /\ thread'[d].active = thread[d].active
                          /\ thread'[d].proxyID = thread[d].proxyID
                          /\ thread'[d].routerID = thread[d].routerID
                          /\ d # greeted => thread'[d].initialized = thread[d].initialized
  BY <1>1 DEF IInv, TypeOK, Thread
<1>3. TypeOK'
  BY <1>1, <1>2 DEF IInv, TypeOK
<1>4. HelloAhead'
  <2>1. Helloing(rcvQueue) \subseteq Conn /\ Helloing(cmdQueue) \subseteq Conn
    BY DEF Helloing
  <2>2. /\ HelloOnce(rcvQueue)' /\ HelloOnce(cmdQueue)'
        /\ Helloing(rcvQueue)' = Helloing(rcvQueue) /\ Helloing(cmdQueue)' = Helloing(cmdQueue)
    BY <1>1 DEF IInv, HelloAhead, HelloOnce, Helloing
  <2> QED
    BY <1>1, <1>2, <2>1, <2>2 DEF IInv, HelloAhead
<1>5. HandshakeDone'
  BY <1>1, <1>2 DEF IInv, HandshakeDone
<1>6. ConfiguredKept' /\ ActiveHasSocket'
  BY <1>1, ClientAssumption DEF IInv, ConfiguredKept, ActiveHasSocket
<1>7. ActiveMappingServes'
  BY <1>1, <1>2 DEF IInv, ActiveMappingServes, ActiveHasSocket
<1> QED
  BY <1>3, <1>4, <1>5, <1>6, <1>7 DEF IInv

\* The handshake fails: the connection has no mapping yet.
LEMMA RejectHelloStep ==
  ASSUME IInv, RejectHello PROVE IInv'
<1> DEFINE c == Head(cmdQueue).conn
<1>1. /\ greeted = NULL /\ cmdQueue # <<>> /\ Head(cmdQueue).type = "HELLO"
      /\ peer' = [peer EXCEPT ![c] = "gone"]
      /\ thread' = [thread EXCEPT ![c].active = FALSE]
      /\ cmdQueue' = Tail(cmdQueue)
      /\ UNCHANGED <<rib, rcvQueue, greeted, proxyMap, noMappings, item, clients, gcFlag, ski>>
  BY DEF RejectHello, Command, registry
<1>2. Head(cmdQueue) \in Packet /\ c \in Conn
  BY <1>1, AfterTail, PacketFields DEF IInv, TypeOK, HelloAhead
<1>3. thread[c].routerID = 0
  <2>1. Hello(Head(cmdQueue), c)
    BY <1>1 DEF Hello
  <2>2. c \in Helloing(cmdQueue)
    BY <1>1, <1>2, <2>1, AfterTail DEF IInv, TypeOK, HelloAhead
  <2> QED
    BY <2>2 DEF IInv, HelloAhead
<1> HIDE DEF c
<1>4. /\ thread' \in [Conn -> Thread]
      /\ \A d \in Conn : /\ thread'[d].initialized = thread[d].initialized
                          /\ thread'[d].proxyID = thread[d].proxyID
                          /\ thread'[d].routerID = thread[d].routerID
                          /\ d # c => thread'[d].active = thread[d].active
  BY <1>1 DEF IInv, TypeOK, Thread
<1>5. /\ peer' \in [Conn -> PeerState]
      /\ \A d \in Conn : peer'[d] = peer[d] \/ peer'[d] \notin {"none", "connected"}
  BY <1>1 DEF IInv, TypeOK, PeerState
<1>6. HelloAhead' /\ TypeOK'
  BY <1>1, <1>4, <1>5, CommandQueues DEF IInv, TypeOK, PeerState
<1>7. \A j \in ClientID : proxyMap[j].isActive => proxyMap[j].socket \in Conn \ {c}
  BY <1>3, 0 \notin ClientID DEF IInv, ActiveHasSocket, ActiveMappingServes, ClientID
<1>8. HandshakeDone' /\ ActiveHasSocket' /\ ConfiguredKept' /\ ActiveMappingServes'
  BY <1>1, <1>4, <1>7, ClientAssumption DEF IInv, HandshakeDone, ActiveHasSocket, ConfiguredKept,
     ActiveMappingServes
<1> QED
  BY <1>6, <1>8 DEF IInv

\* A GOODBYE deactivates the mapping of its connection's client ID, whoever
\* has it by now.
LEMMA ProcessGoodbyeStep ==
  ASSUME IInv, ProcessGoodbye PROVE IInv'
<1> DEFINE c == Head(cmdQueue).conn
           i == thread[c].routerID
<1>1. /\ greeted = NULL /\ cmdQueue # <<>> /\ Head(cmdQueue).type = "GOODBYE"
      /\ peer' = [peer EXCEPT ![c] = "gone"]
      /\ thread' = [thread EXCEPT ![c].active = FALSE]
      /\ Deactivate(i, FALSE)
      /\ cmdQueue' = Tail(cmdQueue)
      /\ UNCHANGED <<rib, rcvQueue, greeted, noMappings, item, ski>>
  BY DEF ProcessGoodbye, Command
<1>2. Head(cmdQueue) \in Packet /\ c \in Conn /\ i \in ClientID \cup {0}
  <2>1. Head(cmdQueue) \in Packet /\ c \in Conn
    BY <1>1, AfterTail, PacketFields DEF IInv, TypeOK, HelloAhead
  <2> QED
    BY <2>1 DEF IInv, TypeOK, Thread
<1> HIDE DEF c
<1>3. /\ proxyMap' \in [ClientID -> Mapping]
      /\ clients' \in [Update -> Seq(ClientID \cup {0})]
      /\ gcFlag' \subseteq Update
      /\ ConfiguredKept'
      /\ \A j \in ClientID : j # i => proxyMap'[j] = proxyMap[j]
      /\ i # 0 => ~ proxyMap'[i].isActive
  BY <1>1, <1>2, DeactivateStep DEF IInv
<1>4. /\ thread' \in [Conn -> Thread]
      /\ \A d \in Conn : /\ d # c => thread'[d] = thread[d]
                          /\ thread'[d].initialized = thread[d].initialized
                          /\ thread'[d].proxyID = thread[d].proxyID
                          /\ thread'[d].routerID = thread[d].routerID
  BY <1>1 DEF IInv, TypeOK, Thread
<1>5. /\ peer' \in [Conn -> PeerState]
      /\ \A d \in Conn : peer'[d] = peer[d] \/ peer'[d] \notin {"none", "connected"}
  BY <1>1 DEF IInv, TypeOK, PeerState
<1>6. HelloAhead' /\ cmdQueue' \in Seq(Packet)
  BY <1>1, <1>4, <1>5, CommandQueues
<1>7. TypeOK'
  BY <1>1, <1>3, <1>4, <1>5, <1>6 DEF IInv, TypeOK, PeerState
<1>8. \A j \in ClientID : proxyMap'[j].isActive =>
        j # i /\ proxyMap'[j] = proxyMap[j] /\ proxyMap[j].socket \in Conn \ {c}
  BY <1>2, <1>3, 0 \notin ClientID DEF IInv, ActiveHasSocket, ActiveMappingServes, ClientID
<1>9. HandshakeDone' /\ ActiveHasSocket' /\ ActiveMappingServes'
  BY <1>1, <1>4, <1>8, ClientAssumption DEF IInv, HandshakeDone, ActiveHasSocket, ActiveMappingServes
<1> QED
  BY <1>3, <1>6, <1>7, <1>9 DEF IInv

LEMMA ProcessDeleteStep ==
  ASSUME IInv, ProcessDelete PROVE IInv'
<1> DEFINE pkt == Head(cmdQueue)
           i   == thread[pkt.conn].routerID
           u   == pkt.arg
<1>1. /\ cmdQueue # <<>> /\ pkt.type = "DELETE"
      /\ cmdQueue' = Tail(cmdQueue)
      /\ \/ /\ u \in References(i)
            /\ clients' = [clients EXCEPT ![u] = Without(@, i)]
            /\ gcFlag' = gcFlag \cup Orphaned({u}, i)
            /\ ski' = ski \ {u}
            /\ proxyMap' = [proxyMap EXCEPT ![i].updateCount = (@ + CountMod - 1) % CountMod]
         \/ UNCHANGED <<clients, gcFlag, ski, proxyMap>>
      /\ UNCHANGED <<peer, rib, thread, rcvQueue, greeted, noMappings, item>>
  BY DEF ProcessDelete, Command
<1>2. pkt \in Packet /\ pkt.conn \in Conn /\ u \in Update /\ i \in ClientID \cup {0}
  <2>1. pkt \in Packet /\ pkt.conn \in Conn /\ u \in Update
    BY <1>1, AfterTail, PacketFields DEF IInv, TypeOK, HelloAhead
  <2> QED
    BY <2>1 DEF IInv, TypeOK, Thread
<1> HIDE DEF u, i
<1>3. HelloAhead' /\ cmdQueue' \in Seq(Packet)
  BY <1>1, CommandQueues
<1>4. proxyMap' \in [ClientID -> Mapping] /\ SameButCounts(proxyMap, proxyMap')
  <2>1. CASE proxyMap' = proxyMap
    BY <2>1 DEF IInv, TypeOK, SameButCounts
  <2>2. CASE proxyMap' = [proxyMap EXCEPT ![i].updateCount = (@ + CountMod - 1) % CountMod]
    <3> DEFINE n == (proxyMap[i].updateCount + CountMod - 1) % CountMod
    <3>1. CASE i \in ClientID
      <4>1. proxyMap[i].updateCount \in 0 .. CountMod - 1
        BY <3>1 DEF IInv, TypeOK, Mapping
      <4>2. n \in 0 .. CountMod - 1
        BY <4>1, Counts, ClientAssumption
      <4> HIDE DEF n
      <4>3. proxyMap' = [proxyMap EXCEPT ![i].updateCount = n]
        BY <2>2 DEF n
      <4> QED
        BY <3>1, <4>2, <4>3 DEF IInv, TypeOK, Mapping, SameButCounts
    <3>2. CASE i \notin ClientID
      BY <2>2, <3>2 DEF IInv, TypeOK, SameButCounts
    <3> QED
      BY <3>1, <3>2
  <2> QED
    BY <1>1, <2>1, <2>2
<1>5. clients' \in [Update -> Seq(ClientID \cup {0})]
  <2>1. u \in References(i) => Without(clients[u], i) \in Seq(ClientID \cup {0})
    BY <1>2, WithoutType DEF References, IInv, TypeOK
  <2> QED
    BY <1>1, <1>2, <2>1 DEF IInv, TypeOK
<1>6. gcFlag' \subseteq Update /\ ski' \subseteq Update
  BY <1>1, <1>2 DEF IInv, TypeOK, Orphaned
<1>7. TypeOK'
  BY <1>1, <1>3, <1>4, <1>5, <1>6 DEF IInv, TypeOK
<1>8. HandshakeDone' /\ ActiveHasSocket' /\ ConfiguredKept' /\ ActiveMappingServes'
  BY <1>1, <1>4, MapKept
<1> QED
  BY <1>3, <1>7, <1>8 DEF IInv

-----------------------------------------------------------------------------
(* The theorems.                                                           *)

LEMMA NextIInv == IInv /\ [Next]_vars => IInv'
<1> SUFFICES ASSUME IInv, [Next]_vars PROVE IInv'
  OBVIOUS
<1>1. CASE UNCHANGED vars
  <2>1. UNCHANGED <<peer, rib, thread, rcvQueue, cmdQueue, greeted, proxyMap, noMappings,
                    item, clients, gcFlag, ski>>
    BY <1>1 DEF vars, registry
  <2>2. HelloAhead'
    BY <2>1 DEF IInv, HelloAhead, HelloOnce, Helloing
  <2> QED
    BY <2>1, <2>2 DEF IInv, TypeOK, HandshakeDone, ActiveHasSocket, ConfiguredKept,
                      ActiveMappingServes
<1>2. ASSUME NEW c \in Conn, Connect(c) PROVE IInv'
  BY <1>2, ConnectStep
<1>3. ASSUME NEW c \in Conn, SendGoodbye(c) PROVE IInv'
  <2>1. [type |-> "GOODBYE", conn |-> c, arg |-> NULL] \in Packet
    BY DEF Packet
  <2>2. /\ Send("GOODBYE", c, NULL) /\ rib' \in [Conn -> SUBSET Update]
        /\ peer' \in [Conn -> PeerState] /\ peer'[c] = "leaving"
        /\ \A d \in Conn \ {c} : peer'[d] = peer[d]
    BY <1>3 DEF SendGoodbye, IInv, TypeOK, PeerState
  <2> QED
    BY <2>1, <2>2, SendStep
<1>4. ASSUME NEW c \in Conn, Disconnect(c) PROVE IInv'
  BY <1>4, DisconnectStep
<1>5. ASSUME NEW c \in Conn, NEW p \in Proxy \cup {NULL}, SendHello(c, p) PROVE IInv'
  <2>1. [type |-> "HELLO", conn |-> c, arg |-> p] \in Packet
    BY DEF Packet
  <2>2. /\ Send("HELLO", c, p) /\ rib' \in [Conn -> SUBSET Update]
        /\ peer' \in [Conn -> PeerState] /\ peer[c] = "connected" /\ peer'[c] = "greeting"
        /\ \A d \in Conn \ {c} : peer'[d] = peer[d]
    BY <1>5 DEF SendHello, IInv, TypeOK, PeerState
  <2> QED
    BY <2>1, <2>2, SendStep
<1>6. ASSUME NEW c \in Conn, NEW u \in Update, SendVerify(c, u) PROVE IInv'
  <2>1. [type |-> "VERIFY", conn |-> c, arg |-> u] \in Packet
    BY DEF Packet
  <2>2. /\ Send("VERIFY", c, u) /\ rib' \in [Conn -> SUBSET Update]
        /\ peer' \in [Conn -> PeerState] /\ peer'[c] = "established"
        /\ \A d \in Conn \ {c} : peer'[d] = peer[d]
    BY <1>6 DEF SendVerify, IInv, TypeOK, PeerState
  <2> QED
    BY <2>1, <2>2, SendStep
<1>7. ASSUME NEW c \in Conn, NEW u \in Update, SendStore(c, u) PROVE IInv'
  <2>1. [type |-> "STORE", conn |-> c, arg |-> u] \in Packet
    BY DEF Packet
  <2>2. /\ Send("STORE", c, u) /\ rib' \in [Conn -> SUBSET Update]
        /\ peer' \in [Conn -> PeerState] /\ peer'[c] = "established"
        /\ \A d \in Conn \ {c} : peer'[d] = peer[d]
    BY <1>7 DEF SendStore, IInv, TypeOK, PeerState
  <2> QED
    BY <2>1, <2>2, SendStep
<1>8. ASSUME NEW c \in Conn, NEW u \in Update, SendDelete(c, u) PROVE IInv'
  <2>1. [type |-> "DELETE", conn |-> c, arg |-> u] \in Packet
    BY DEF Packet
  <2>2. /\ Send("DELETE", c, u) /\ rib' \in [Conn -> SUBSET Update]
        /\ peer' \in [Conn -> PeerState] /\ peer'[c] = "established"
        /\ \A d \in Conn \ {c} : peer'[d] = peer[d]
    BY <1>8 DEF SendDelete, IInv, TypeOK, PeerState
  <2> QED
    BY <2>1, <2>2, SendStep
<1>9. CASE HandleHello \/ HandleGoodbye \/ HandleDelete \/ HandleVerify
  BY <1>9, HandleHelloStep, HandleGoodbyeStep, HandleDeleteStep, HandleVerifyStep
<1>10. CASE AcceptHello \/ CompleteHello \/ RejectHello \/ ProcessGoodbye \/ ProcessDelete
  BY <1>10, AcceptHelloStep, CompleteHelloStep, RejectHelloStep, ProcessGoodbyeStep,
     ProcessDeleteStep
<1> QED
  BY <1>1, <1>2, <1>3, <1>4, <1>5, <1>6, <1>7, <1>8, <1>9, <1>10 DEF Next

\* The conjuncts that make the invariant inductive always hold.
THEOREM RegistryInvariant == Spec => []IInv
  BY InitIInv, NextIInv, PTL DEF Spec

\* Every variable keeps its type: client IDs are IDs of the map, counters do
\* not leave their width, and the queues hold well-formed packets.
THEOREM RegistryTypeCorrect == Spec => []TypeOK
<1>1. IInv => TypeOK
  BY DEF IInv
<1> QED
  BY <1>1, RegistryInvariant, PTL

\* An active mapping leads to the connection it was given to, which has not
\* ended if its handshake completed, for any number of connections and any
\* packets of ended connections still in the queues.
THEOREM ActiveMappingsServe == Spec => []ActiveMappingServes
<1>1. IInv => ActiveMappingServes
  BY DEF IInv
<1> QED
  BY <1>1, RegistryInvariant, PTL

\* A mapping that is and remains active has the same connection.
SocketKept ==
  \A i \in ClientID : proxyMap[i].isActive /\ proxyMap'[i].isActive =>
    proxyMap'[i].socket = proxyMap[i].socket

LEMMA SocketKeptStep == ASSUME IInv, [Next]_vars PROVE SocketKept
<1>1. ASSUME NEW i \in ClientID \cup {0}, NEW b \in BOOLEAN, Deactivate(i, b)
      PROVE  SocketKept
  BY <1>1, DeactivateStep, 0 \notin ClientID DEF SocketKept, IInv, ClientID
<1>2. CASE UNCHANGED proxyMap
  BY <1>2 DEF SocketKept
<1>3. ASSUME NEW c \in Conn, Disconnect(c) PROVE SocketKept
  BY <1>1, <1>3 DEF Disconnect, IInv, TypeOK, Thread
<1>4. CASE HandleVerify
  <2>1. \/ UNCHANGED proxyMap
        \/ \E u \in Update, i \in ClientID \cup {0} : Register(u, i)
    <3> DEFINE pkt == Head(rcvQueue)
    <3>1. pkt \in Packet /\ pkt.type \in {"VERIFY", "STORE"}
      BY <1>4, AfterTail DEF HandleVerify, Received, IInv, TypeOK, HelloAhead
    <3>2. pkt.arg \in Update /\ pkt.conn \in Conn
      BY <3>1, PacketFields
    <3>3. (IF pkt.type = "VERIFY" THEN thread[pkt.conn].routerID ELSE 0) \in ClientID \cup {0}
      BY <3>2 DEF IInv, TypeOK, Thread
    <3> QED
      BY <1>4, <3>2, <3>3 DEF HandleVerify, registry
  <2>2. ASSUME NEW u \in Update, NEW i \in ClientID \cup {0}, Register(u, i)
        PROVE  SocketKept
    BY <2>2, RegisterStep DEF SocketKept, SameButCounts, IInv
  <2> QED
    BY <1>2, <2>1, <2>2
<1>5. CASE AcceptHello
  <2> DEFINE c == Head(cmdQueue).conn
             i == WantedID(Head(cmdQueue).arg)
  <2>1. /\ proxyMap[i].isActive => proxyMap[i].socket = c
        /\ \A j \in ClientID : proxyMap'[j].socket = IF j = i THEN c ELSE proxyMap[j].socket
    <3>1. cmdQueue # <<>>
      BY <1>5 DEF AcceptHello, Command
    <3> QED
      BY <1>5 DEF AcceptHello, Mappable, addMapping, IInv, TypeOK, Mapping
  <2> QED
    BY <2>1 DEF SocketKept
<1>6. CASE ProcessGoodbye
  <2> DEFINE i == thread[Head(cmdQueue).conn].routerID
  <2>1. Head(cmdQueue).conn \in Conn
    BY <1>6, AfterTail, PacketFields DEF ProcessGoodbye, Command, IInv, TypeOK, HelloAhead
  <2>2. i \in ClientID \cup {0} /\ Deactivate(i, FALSE)
    BY <1>6, <2>1 DEF ProcessGoodbye, IInv, TypeOK, Thread
  <2> QED
    BY <1>1, <2>2
<1>7. CASE ProcessDelete
  <2> DEFINE i == thread[Head(cmdQueue).conn].routerID
  <2>1. \/ UNCHANGED proxyMap
        \/ proxyMap' = [proxyMap EXCEPT ![i].updateCount = (@ + CountMod - 1) % CountMod]
    BY <1>7 DEF ProcessDelete
  <2>2. proxyMap \in [ClientID -> Mapping]
    BY DEF IInv, TypeOK
  <2> HIDE DEF i
  <2>3. \A j \in ClientID : proxyMap'[j].socket = proxyMap[j].socket
    BY <2>1, <2>2 DEF Mapping
  <2> QED
    BY <2>3 DEF SocketKept
<1> QED
  BY <1>2, <1>3, <1>4, <1>5, <1>6, <1>7 DEF Next, vars, registry, Connect, SendGoodbye, SendHello,
     SendVerify, SendStore, SendDelete, Send, HandleHello, HandleGoodbye, HandleDelete,
     CompleteHello, RejectHello

\* No proxy takes over an active mapping from another connection, and the
\* configured mappings stay with their proxies.
THEOREM MappingsKept == Spec => MappingKept
<1>1. IInv /\ IInv' /\ [Next]_vars =>
        [\A i \in ClientID :
           /\ proxyMap[i].isActive /\ proxyMap'[i].isActive =>
                proxyMap'[i].socket = proxyMap[i].socket
           /\ Configured[i] # 0 => proxyMap'[i].proxyID = Configured[i]]_vars
  BY SocketKeptStep DEF SocketKept, IInv, ConfiguredKept
<1> QED
  BY <1>1, RegistryInvariant, PTL DEF Spec, MappingKept

-----------------------------------------------------------------------------
(* One client ID per proxy, as long as noMappings does not wrap.           *)

\* The scan of findClientID reaches every mapping.
ScanReachesAll == Cardinality(Mapped) <= noMappings

\* No step of the server makes noMappings smaller but a wrap.
NoWrap == noMappings <= noMappings'

LEMMA MappedFinite ==
  /\ IsFiniteSet(ClientID) /\ ClientID \subseteq Nat
  /\ \A S \in SUBSET ClientID : IsFiniteSet(S) /\ Cardinality(S) \in Nat
<1>1. IsFiniteSet(ClientID) /\ ClientID \subseteq Nat
  BY FS_Interval, ClientAssumption DEF ClientID
<1> QED
  BY <1>1, FS_Subset, FS_CardinalityType

\* A mapped proxy is found.
LEMMA FoundIfMapped ==
  ASSUME TypeOK, ScanReachesAll, NEW i \in Mapped
  PROVE  /\ findClientID(proxyMap[i].proxyID) \in Mapped
         /\ proxyMap[findClientID(proxyMap[i].proxyID)].proxyID = proxyMap[i].proxyID
<1> DEFINE p     == proxyMap[i].proxyID
           found == {k \in Mapped : /\ proxyMap[k].proxyID = p
                                    /\ Cardinality({j \in Mapped : j < k}) < noMappings}
<1>1. Mapped \in SUBSET ClientID /\ Mapped \in SUBSET Nat
  BY MappedFinite DEF Mapped
<1>2. Cardinality({j \in Mapped : j < i}) < noMappings
  <2> DEFINE B == {j \in Mapped : j < i}
             M == Mapped \ {i}
  <2>1. B \in SUBSET M
    BY <1>1
  <2>2. IsFiniteSet(Mapped) /\ Cardinality(Mapped) \in Nat
    BY <1>1, MappedFinite
  <2>3. IsFiniteSet(M) /\ Cardinality(M) = Cardinality(Mapped) - 1
    BY <2>2, FS_RemoveElement
  <2> HIDE DEF B, M
  <2>4. Cardinality(B) <= Cardinality(M) /\ IsFiniteSet(B)
    BY <2>1, <2>3, FS_Subset
  <2>5. Cardinality(B) \in Nat
    BY <2>4, FS_CardinalityType
  <2>6. Cardinality(B) < noMappings
    BY <2>2, <2>3, <2>4, <2>5 DEF ScanReachesAll, TypeOK
  <2> QED
    BY <2>6 DEF B
<1>3. i \in found /\ found \in SUBSET Nat /\ found \subseteq Mapped
  BY <1>1, <1>2
<1>4. findClientID(p) = Min(found)
  BY <1>3 DEF findClientID
<1>5. \A k \in found : k \in Mapped /\ proxyMap[k].proxyID = p
  OBVIOUS
<1> HIDE DEF found, p
<1>6. Min(found) \in found
  BY <1>3, MinOf
<1> QED
  BY <1>4, <1>5, <1>6 DEF p

\* Releasing mappings keeps both facts.
LEMMA ReleaseKeepsOnce ==
  ASSUME TypeOK, ScanReachesAll, MappedOnce, noMappings' = noMappings,
         \A j \in ClientID : proxyMap'[j].proxyID \in {proxyMap[j].proxyID, 0}
  PROVE  ScanReachesAll' /\ MappedOnce'
<1>1. Mapped' \subseteq Mapped /\ Mapped \in SUBSET ClientID
      /\ \A j \in Mapped' : proxyMap'[j].proxyID = proxyMap[j].proxyID
  BY DEF Mapped
<1>2. MappedOnce'
  BY <1>1 DEF MappedOnce
<1>3. IsFiniteSet(Mapped) /\ Cardinality(Mapped) \in Nat /\ Cardinality(Mapped') \in Nat
  BY <1>1, MappedFinite
<1>4. Cardinality(Mapped') <= Cardinality(Mapped)
  BY <1>1, <1>3, FS_Subset
<1> QED
  BY <1>2, <1>3, <1>4 DEF ScanReachesAll, TypeOK

\* A HELLO gets the proxy's own client ID or, if it has none, a free one.
LEMMA AcceptKeepsOnce ==
  ASSUME IInv, ScanReachesAll, MappedOnce, NoWrap, AcceptHello
  PROVE  ScanReachesAll' /\ MappedOnce'
<1> DEFINE c == Head(cmdQueue).conn
           p == Head(cmdQueue).arg
           i == WantedID(p)
<1>0. TypeOK /\ Mapped \in SUBSET ClientID
  BY DEF IInv, Mapped
<1>1. p # 0
  BY AfterTail, PacketFields, ProxyAssumption
     DEF AcceptHello, Command, IInv, TypeOK, HelloAhead
<1>2. /\ i # 0
      /\ noMappings' = IF proxyMap[i].proxyID = 0 THEN (noMappings + 1) % Wrap ELSE noMappings
      /\ proxyMap' = [proxyMap EXCEPT ![i] =
           [@ EXCEPT !.proxyID = p, !.socket = c, !.isActive = TRUE, !.crashed = FALSE]]
  BY DEF AcceptHello, Mappable, addMapping
<1>3. i \in ClientID
  BY <1>0, <1>2, WantedIDType
<1>4. \A k \in Mapped : proxyMap[k].proxyID = p => k = i
  <2> SUFFICES ASSUME NEW k \in Mapped, proxyMap[k].proxyID = p PROVE k = i
    OBVIOUS
  <2>1. findClientID(p) \in Mapped /\ proxyMap[findClientID(p)].proxyID = p
    BY <1>0, FoundIfMapped
  <2>2. findClientID(p) # 0
    BY <1>0, <2>1, ClientAssumption DEF ClientID
  <2>3. i = findClientID(p)
    BY <2>2 DEF WantedID
  <2>4. k = findClientID(p)
    BY <2>1 DEF MappedOnce
  <2> QED
    BY <2>3, <2>4
<1> HIDE DEF c, p, i
<1>5. \A j \in ClientID : proxyMap'[j].proxyID = IF j = i THEN p ELSE proxyMap[j].proxyID
  BY <1>0, <1>2, <1>3 DEF TypeOK, Mapping
<1>6. Mapped' = Mapped \cup {i}
  BY <1>1, <1>3, <1>5 DEF Mapped
<1>7. MappedOnce'
  BY <1>0, <1>3, <1>4, <1>5, <1>6 DEF MappedOnce
<1>8. ScanReachesAll'
  <2>1. IsFiniteSet(Mapped) /\ Cardinality(Mapped) \in Nat
    BY <1>0, MappedFinite
  <2>2. CASE proxyMap[i].proxyID # 0
    <3>1. Mapped' = Mapped
      BY <1>3, <1>6, <2>2 DEF Mapped
    <3> QED
      BY <1>2, <2>2, <3>1 DEF ScanReachesAll
  <2>3. CASE proxyMap[i].proxyID = 0
    <3>1. Cardinality(Mapped') = Cardinality(Mapped) + 1
      <4>1. i \notin Mapped
        BY <2>3 DEF Mapped
      <4> QED
        BY <1>6, <2>1, <4>1, FS_AddElement
    <3>2. noMappings' = noMappings + 1
      <4>1. noMappings \in 0 .. Wrap - 1 /\ Wrap \in Nat /\ Wrap > 1
        BY <1>0, <1>3, ClientAssumption DEF TypeOK, ClientID
      <4>2. noMappings' = (noMappings + 1) % Wrap /\ noMappings <= noMappings'
        BY <1>2, <2>3 DEF NoWrap
      <4>3. CASE noMappings + 1 < Wrap
        <5>1. \A n \in 0 .. Wrap - 1 : n % Wrap = n
          BY <4>1
        <5> QED
          BY <4>1, <4>2, <4>3, <5>1
      <4>4. CASE noMappings + 1 = Wrap
        <5>1. Wrap % Wrap = 0
          BY <4>1
        <5> QED
          BY <4>1, <4>2, <4>4, <5>1
      <4> QED
        BY <4>1, <4>3, <4>4
    <3> QED
      BY <1>0, <2>1, <3>1, <3>2 DEF ScanReachesAll, TypeOK
  <2> QED
    BY <2>2, <2>3
<1> QED
  BY <1>7, <1>8

LEMMA NextKeepsOnce ==
  ASSUME IInv, ScanReachesAll, MappedOnce, [Next]_vars, [NoWrap]_vars
  PROVE  ScanReachesAll' /\ MappedOnce'
<1>0. TypeOK /\ ConfiguredKept /\ proxyMap \in [ClientID -> Mapping]
  BY DEF IInv, TypeOK
<1>1. CASE UNCHANGED <<proxyMap, noMappings>>
  BY <1>1 DEF ScanReachesAll, MappedOnce, Mapped
<1>2. ASSUME NEW i \in ClientID \cup {0}, NEW b \in BOOLEAN, Deactivate(i, b),
             noMappings' = noMappings
      PROVE  ScanReachesAll' /\ MappedOnce'
  <2>1. \A j \in ClientID : proxyMap'[j].proxyID \in {proxyMap[j].proxyID, 0}
    <3>1. CASE i = 0
      BY <1>2, <3>1 DEF Deactivate
    <3>2. CASE i # 0
      <4>1. i \in ClientID /\ proxyMap' = [proxyMap EXCEPT ![i] = Released(proxyMap[i], b)]
        BY <1>2, <3>2 DEF Deactivate
      <4>2. \A m \in Mapping : Released(m, b).proxyID \in {m.proxyID, 0}
        BY DEF Released, Mapping
      <4> QED
        BY <1>0, <4>1, <4>2
    <3> QED
      BY <3>1, <3>2
  <2> QED
    BY <1>0, <1>2, <2>1, ReleaseKeepsOnce
<1>3. ASSUME NEW c \in Conn, Disconnect(c) PROVE ScanReachesAll' /\ MappedOnce'
  <2>1. thread[c].routerID \in ClientID \cup {0} /\ thread[c].goodByeReceived \in BOOLEAN
    BY <1>0 DEF TypeOK, Thread
  <2>2. (~ thread[c].goodByeReceived) \in BOOLEAN
    BY <2>1
  <2> QED
    BY <1>2, <1>3, <2>1, <2>2 DEF Disconnect
<1>4. CASE HandleVerify
  <2> DEFINE pkt == Head(rcvQueue)
             i   == IF pkt.type = "VERIFY" THEN thread[pkt.conn].routerID ELSE 0
  <2>1. pkt \in Packet /\ pkt.type \in {"VERIFY", "STORE"}
    BY <1>4, AfterTail DEF HandleVerify, Received, IInv, TypeOK, HelloAhead
  <2>2. pkt.arg \in Update /\ pkt.conn \in Conn
    BY <2>1, PacketFields
  <2>3. i \in ClientID \cup {0}
    BY <1>0, <2>2 DEF TypeOK, Thread
  <2>4. Register(pkt.arg, i) \/ UNCHANGED registry
    BY <1>4 DEF HandleVerify
  <2> HIDE DEF i
  <2>5. CASE Register(pkt.arg, i)
    <3>1. SameButCounts(proxyMap, proxyMap') /\ noMappings' = noMappings
      BY <1>0, <2>2, <2>3, <2>5, RegisterStep
    <3> QED
      BY <1>0, <3>1, ReleaseKeepsOnce DEF SameButCounts
  <2> QED
    BY <1>1, <2>4, <2>5 DEF registry
<1>5. CASE AcceptHello
  <2>1. NoWrap
    BY <1>0 DEF NoWrap, TypeOK, vars, registry
  <2> QED
    BY <1>5, <2>1, AcceptKeepsOnce
<1>6. CASE ProcessGoodbye
  <2> DEFINE i == thread[Head(cmdQueue).conn].routerID
  <2>1. Head(cmdQueue).conn \in Conn
    BY <1>6, AfterTail, PacketFields DEF ProcessGoodbye, Command, IInv, TypeOK, HelloAhead
  <2>2. i \in ClientID \cup {0} /\ Deactivate(i, FALSE) /\ noMappings' = noMappings
    BY <1>0, <1>6, <2>1 DEF ProcessGoodbye, TypeOK, Thread
  <2> QED
    BY <1>2, <2>2
<1>7. CASE ProcessDelete
  <2> DEFINE i == thread[Head(cmdQueue).conn].routerID
  <2>1. /\ \/ UNCHANGED proxyMap
           \/ proxyMap' = [proxyMap EXCEPT ![i].updateCount = (@ + CountMod - 1) % CountMod]
        /\ noMappings' = noMappings
    BY <1>7 DEF ProcessDelete
  <2> HIDE DEF i
  <2>2. \A j \in ClientID : proxyMap'[j].proxyID = proxyMap[j].proxyID
    BY <1>0, <2>1 DEF Mapping
  <2> QED
    BY <1>0, <2>1, <2>2, ReleaseKeepsOnce
<1> QED
  BY <1>1, <1>3, <1>4, <1>5, <1>6, <1>7 DEF Next, vars, registry, Connect, SendGoodbye,
     SendHello, SendVerify, SendStore, SendDelete, Send, HandleHello, HandleGoodbye,
     HandleDelete, CompleteHello, RejectHello

LEMMA InitOnce == ASSUME Init PROVE ScanReachesAll /\ MappedOnce
<1>1. \A i \in ClientID : proxyMap[i].proxyID = Configured[i]
  BY DEF Init
<1>2. Mapped = {i \in ClientID : Configured[i] # 0}
  BY <1>1 DEF Mapped
<1>3. noMappings = Cardinality(Mapped)
  BY <1>2 DEF Init
<1>4. Cardinality(Mapped) \in Nat
  BY <1>2, MappedFinite
<1>5. MappedOnce
  BY <1>1, <1>2, ProxyAssumption DEF MappedOnce
<1> QED
  BY <1>3, <1>4, <1>5 DEF ScanReachesAll

\* A proxy has one client ID at most in every behaviour in which the counter
\* of mappings does not wrap: each return to a client ID that was given back
\* counts again, and after 256 of them the scan for the proxy is cut short.
THEOREM MappedOnceUnlessWraps == Spec /\ [][NoWrap]_vars => []MappedOnce
<1>1. Init => ScanReachesAll /\ MappedOnce
  BY InitOnce
<1>2. IInv /\ ScanReachesAll /\ MappedOnce /\ [Next]_vars /\ [NoWrap]_vars
        => ScanReachesAll' /\ MappedOnce'
  BY NextKeepsOnce
<1> QED
  BY <1>1, <1>2, RegistryInvariant, PTL DEF Spec
=============================================================================
