--------------------------- MODULE ClientRegistry ---------------------------
(***************************************************************************)
(* The proxy side of the SRx server: the connections of the proxies        *)
(* (util/server_socket.c), the map from proxies to the one-byte client IDs *)
(* (server/server_connection_handler.c) and the update cache's references  *)
(* from updates to client IDs (server/update_cache.c).                     *)
(*                                                                         *)
(* A packet passes two queues and two threads: the receiver queue, whose   *)
(* thread (_handlePacket) answers verification requests itself, and the    *)
(* command queue, whose thread (handleCommands) does the rest.  A third    *)
(* thread per connection reads from its socket and notices its end.        *)
(*                                                                         *)
(* A ClientThread is never freed, so commands of a connection that ended   *)
(* find its last contents.  Validation results are PrefixCache's subject.  *)
(***************************************************************************)
EXTENDS Integers, FiniteSets, SequencesExt

CONSTANTS
  Conn,        \* connections (ClientThread instances), each used once
  Proxy,       \* proxy IDs
  NumClients,  \* MAX_PROXY_CLIENT_ELEMENTS - 1, 255 in the code
  Configured,  \* Configured[i]: proxy ID the configuration maps to i, 0: none
  Update,      \* updates; each carries a BGPsec path
  MinClients,  \* UpdateCache.minNumberOfClients (expectedProxies)
  Wrap,        \* noMappings wraps at Wrap (2^8 in the code)
  CountMod,    \* updateCount wraps at CountMod (2^32 in the code)
  MaxQueue,    \* bound: packets in either queue
  NULL

ClientID == 1 .. NumClients

ASSUME ClientAssumption ==
  /\ NumClients \in Nat
  /\ NumClients < Wrap
  /\ Wrap \in Nat \ {0}
  /\ CountMod \in Nat \ {0}
  /\ MinClients \in Nat \ {0}
  /\ MaxQueue \in Nat
  /\ NULL \notin Conn \cup Proxy

ASSUME ProxyAssumption ==
  /\ Proxy \subseteq Nat \ {0}
  /\ Configured \in [ClientID -> Proxy \cup {0}]
  /\ \A i, j \in ClientID : Configured[i] = Configured[j] => i = j \/ Configured[i] = 0
  /\ IsFiniteSet(Update)

VARIABLES
  peer,        \* the proxy's end of the connection
  rib,         \* the updates a proxy holds: announced and not withdrawn
  thread,      \* ClientThread
  rcvQueue,    \* SCH_ReceiverQueue
  cmdQueue,    \* CommandQueue
  greeted,     \* connection whose HELLO is answered but not yet initialized
  proxyMap,    \* ServerConnectionHandler.proxyMap
  noMappings,  \* ServerConnectionHandler.noMappings
  item,        \* item[u]: position of the entry in allItems, 0: not stored
  clients,     \* CacheEntry.clients, of length noPossibleClients
  gcFlag,      \* the entries with a gcFlag other than 0
  ski          \* updates registered in the SKI cache

registry == <<proxyMap, noMappings, item, clients, gcFlag, ski>>
vars == <<peer, rib, thread, rcvQueue, cmdQueue, greeted, registry>>

Packet ==
  [type : {"HELLO"}, conn : Conn, arg : Proxy \cup {NULL}]
    \cup [type : {"GOODBYE"}, conn : Conn, arg : {NULL}]
    \cup [type : {"VERIFY", "STORE", "DELETE"}, conn : Conn, arg : Update]

\* ClientThread and ProxyClientMapping.
Thread ==
  [active : BOOLEAN, initialized : BOOLEAN, goodByeReceived : BOOLEAN,
   proxyID : Proxy \cup {0}, routerID : ClientID \cup {0}]

Mapping ==
  [proxyID : Proxy \cup {0}, socket : Conn \cup {NULL}, isActive : BOOLEAN,
   preDefined : BOOLEAN, crashed : BOOLEAN, updateCount : 0 .. CountMod - 1]

TypeOK ==
  /\ peer \in [Conn -> {"none", "connected", "greeting", "established", "leaving", "gone"}]
  /\ rib \in [Conn -> SUBSET Update]
  /\ thread \in [Conn -> Thread]
  /\ rcvQueue \in Seq(Packet)
  /\ cmdQueue \in Seq(Packet)
  /\ greeted \in Conn \cup {NULL}
  /\ proxyMap \in [ClientID -> Mapping]
  /\ noMappings \in 0 .. Wrap - 1
  /\ item \in [Update -> 0 .. Cardinality(Update)]
  /\ clients \in [Update -> Seq(ClientID \cup {0})]
  /\ gcFlag \subseteq Update
  /\ ski \subseteq Update

\* configureProxyMap installed the configured mappings.
Init ==
  /\ peer = [c \in Conn |-> "none"]
  /\ rib = [c \in Conn |-> {}]
  /\ thread = [c \in Conn |-> [active |-> FALSE, initialized |-> FALSE,
                               goodByeReceived |-> FALSE, proxyID |-> 0, routerID |-> 0]]
  /\ rcvQueue = <<>>
  /\ cmdQueue = <<>>
  /\ greeted = NULL
  /\ proxyMap = [i \in ClientID |->
       [proxyID |-> Configured[i], socket |-> NULL, isActive |-> FALSE,
        preDefined |-> Configured[i] # 0, crashed |-> FALSE, updateCount |-> 0]]
  /\ noMappings = Cardinality({i \in ClientID : Configured[i] # 0})
  /\ item = [u \in Update |-> 0]
  /\ clients = [u \in Update |-> <<>>]
  /\ gcFlag = {}
  /\ ski = {}

-----------------------------------------------------------------------------
(* The proxy map.                                                          *)

Mapped == {i \in ClientID : proxyMap[i].proxyID # 0}

\* The scan ends after noMappings mappings, active and inactive.
\* (Operators named ..._bug are seeded faults: slips in the definition that
\* follows, which the checks of the properties must notice.)
findClientID_bug(p) ==
  LET found == {i \in Mapped : proxyMap[i].proxyID = p /\ proxyMap[i].isActive}
  IN IF found = {} THEN 0 ELSE Min(found)

findClientID(p) ==
  LET found == {i \in Mapped : /\ proxyMap[i].proxyID = p
                               /\ Cardinality({j \in Mapped : j < i}) < noMappings}
  IN IF found = {} THEN 0 ELSE Min(found)

createClientID == IF Mapped = ClientID THEN 0 ELSE Min(ClientID \ Mapped)

\* The client ID a HELLO of proxy p asks for.
WantedID(p) == IF findClientID(p) # 0 THEN findClientID(p) ELSE createClientID

\* Whether addMapping accepts to map p to the wanted ID i on connection c.
Mappable_bug(p, i, c) == i # 0

Mappable(p, i, c) ==
  /\ i # 0
  /\ proxyMap[i].isActive => findClientID(p) = i /\ proxyMap[i].socket = c

addMapping(p, i, c) ==
  /\ noMappings' = IF proxyMap[i].proxyID = 0 THEN (noMappings + 1) % Wrap ELSE noMappings
  /\ proxyMap' = [proxyMap EXCEPT ![i] =
       [@ EXCEPT !.proxyID = p, !.socket = c, !.isActive = TRUE, !.crashed = FALSE]]

-----------------------------------------------------------------------------
(* The clients of an update.                                               *)

Stored == {u \in Update : item[u] # 0}

\* The position of the entry of u in allItems after a request.
Position_bug(u) == Cardinality(Stored) + 1

Position(u) == IF item[u] = 0 THEN Cardinality(Stored) + 1 ELSE item[u]

\* The updates that hold a reference to client i.
References(i) == {u \in Update : \E k \in DOMAIN clients[u] : clients[u][k] = i}

\* The slots of clients[u] in which _addClientReference would put i.
Slots(a, i) == {k \in DOMAIN a : a[k] \in {0, i}}

\* The array after _addClientReference: the first slot, or a longer array.
Referring(a, i) ==
  IF Slots(a, i) # {} THEN [a EXCEPT ![Min(Slots(a, i))] = i]
  ELSE a \o <<i>> \o [k \in 1 .. MinClients - 1 |-> 0]

\* The array after _deleteUpdateFromCache_clientMgmt: later clients move up.
Without_bug(a, i) == [k \in DOMAIN a |-> IF a[k] = i THEN 0 ELSE a[k]]

Without(a, i) == RemoveAt(a, SelectInSeq(a, LAMBDA e : e = i)) \o <<0>>

\* The entries left without a client when i is removed from those of U.
Orphaned(U, i) == {u \in U : \A k \in DOMAIN clients[u] : clients[u][k] \in {0, i}}

\* The entries unregisterClientID removes i from: in the order of allItems,
\* until updateCount is used up.
Unregistered(i) ==
  {u \in References(i) :
     Cardinality({v \in References(i) : item[v] < item[u]}) < proxyMap[i].updateCount}

\* The mapping m without its connection.
Released(m, crashed) ==
  [m EXCEPT !.proxyID = IF m.preDefined \/ crashed THEN @ ELSE 0,
            !.socket = NULL, !.isActive = FALSE, !.crashed = crashed, !.updateCount = 0]

\* deactivateConnectionMapping and _delMapping.  Client 0 is the place holder
\* of connections without a mapping.
Deactivate_bug(i, crashed) ==
  IF i = 0 THEN UNCHANGED <<proxyMap, clients, gcFlag>>
  ELSE /\ proxyMap' = [proxyMap EXCEPT ![i] = Released(@, crashed)]
       /\ UNCHANGED <<clients, gcFlag>>

Deactivate(i, crashed) ==
  IF i = 0 THEN UNCHANGED <<proxyMap, clients, gcFlag>>
  ELSE /\ proxyMap' = [proxyMap EXCEPT ![i] = Released(@, crashed)]
       /\ clients' = [u \in Update |->
            IF u \in Unregistered(i) THEN Without(clients[u], i) ELSE clients[u]]
       /\ gcFlag' = gcFlag \cup Orphaned(Unregistered(i), i)

-----------------------------------------------------------------------------
(* The proxies and their connections.                                      *)

Room(queue) == Len(queue) < MaxQueue

\* The proxy sends a packet and the connection's thread queues it.
Send(type, c, arg) ==
  /\ Room(rcvQueue)
  /\ rcvQueue' = Append(rcvQueue, [type |-> type, conn |-> c, arg |-> arg])
  /\ UNCHANGED <<thread, cmdQueue, greeted, registry>>

Connect(c) ==
  /\ peer[c] = "none"
  /\ peer' = [peer EXCEPT ![c] = "connected"]
  /\ thread' = [thread EXCEPT ![c].active = TRUE]
  /\ UNCHANGED <<rib, rcvQueue, cmdQueue, greeted, registry>>

\* p is NULL in a HELLO of another protocol version.
SendHello(c, p) ==
  /\ peer[c] = "connected"
  /\ peer' = [peer EXCEPT ![c] = "greeting"]
  /\ Send("HELLO", c, p)
  /\ UNCHANGED rib

SendVerify(c, u) ==
  /\ peer[c] = "established"
  /\ rib' = [rib EXCEPT ![c] = @ \cup {u}]
  /\ Send("VERIFY", c, u)
  /\ UNCHANGED peer

\* A request that asks for neither origin nor path validation.
SendStore(c, u) ==
  /\ peer[c] = "established"
  /\ Send("STORE", c, u)
  /\ UNCHANGED <<peer, rib>>

\* The proxy knows the update by the ID its answered request was told.
SendDelete(c, u) ==
  /\ peer[c] = "established"
  /\ u \in rib[c]
  /\ [type |-> "VERIFY", conn |-> c, arg |-> u] \notin ToSet(rcvQueue)
  /\ rib' = [rib EXCEPT ![c] = @ \ {u}]
  /\ Send("DELETE", c, u)
  /\ UNCHANGED peer

SendGoodbye(c) ==
  /\ peer[c] = "established"
  /\ peer' = [peer EXCEPT ![c] = "leaving"]
  /\ Send("GOODBYE", c, NULL)
  /\ UNCHANGED rib

\* The connection ends, its thread cleans up: handleStatusChange.
Disconnect_bug(c) ==
  /\ thread[c].active
  /\ peer' = [peer EXCEPT ![c] = "gone"]
  /\ thread' = [thread EXCEPT ![c].active = FALSE]
  /\ IF thread[c].goodByeReceived THEN UNCHANGED <<proxyMap, clients, gcFlag>>
     ELSE Deactivate(thread[c].routerID, TRUE)
  /\ UNCHANGED <<rib, rcvQueue, cmdQueue, greeted, noMappings, item, ski>>

Disconnect(c) ==
  /\ thread[c].active
  /\ peer' = [peer EXCEPT ![c] = "gone"]
  /\ thread' = [thread EXCEPT ![c].active = FALSE]
  /\ Deactivate(thread[c].routerID, ~thread[c].goodByeReceived)
  /\ UNCHANGED <<rib, rcvQueue, cmdQueue, greeted, noMappings, item, ski>>

-----------------------------------------------------------------------------
(* _handlePacket: the receiver queue's thread.                             *)

Received(type) == rcvQueue # <<>> /\ Head(rcvQueue).type = type

ToCommands(pkt) ==
  /\ Room(cmdQueue)
  /\ cmdQueue' = Append(cmdQueue, pkt)

\* ERROR and GOODBYE are sent; the proxy will close the connection.
Refuse(c) == peer' = [peer EXCEPT ![c] = IF @ = "gone" THEN @ ELSE "leaving"]

HandleHello ==
  LET pkt == Head(rcvQueue)
      t   == thread[pkt.conn]
  IN /\ Received("HELLO")
     /\ rcvQueue' = Tail(rcvQueue)
     /\ IF t.active /\ ~t.initialized
        THEN ToCommands(pkt) /\ UNCHANGED peer
        ELSE Refuse(pkt.conn) /\ UNCHANGED cmdQueue
     /\ UNCHANGED <<rib, thread, greeted, registry>>

HandleGoodbye ==
  LET pkt == Head(rcvQueue)
      t   == thread[pkt.conn]
  IN /\ Received("GOODBYE")
     /\ rcvQueue' = Tail(rcvQueue)
     /\ thread' = [thread EXCEPT ![pkt.conn].goodByeReceived =
                     @ \/ (t.active /\ t.initialized)]
     /\ ToCommands(pkt)
     /\ UNCHANGED <<peer, rib, greeted, registry>>

HandleDelete ==
  LET pkt == Head(rcvQueue)
  IN /\ Received("DELETE")
     /\ rcvQueue' = Tail(rcvQueue)
     /\ IF thread[pkt.conn].initialized
        THEN ToCommands(pkt) /\ UNCHANGED peer
        ELSE Refuse(pkt.conn) /\ UNCHANGED cmdQueue
     /\ UNCHANGED <<rib, thread, greeted, registry>>

\* getUpdateResult or, for a new update, storeUpdate with _addClientReference.
Register_bug(u, i) ==
  LET new   == item[u] = 0
      old   == IF new THEN [k \in 1 .. MinClients |-> 0] ELSE clients[u]
      slots == Slots(old, i)
  IN /\ item' = [item EXCEPT ![u] = Position(u)]
     /\ ski' = IF new THEN ski \cup {u} ELSE ski
     /\ clients' = [clients EXCEPT ![u] = IF i = 0 THEN old ELSE Referring(old, i)]
     /\ gcFlag' = IF i = 0 /\ new THEN gcFlag \cup {u} ELSE gcFlag
     /\ proxyMap' = IF i # 0 /\ slots # {} /\ old[Min(slots)] = 0
                    THEN [proxyMap EXCEPT ![i].updateCount = (@ + 1) % CountMod] ELSE proxyMap
     /\ UNCHANGED noMappings

Register(u, i) ==
  LET new   == item[u] = 0
      old   == IF new THEN [k \in 1 .. MinClients |-> 0] ELSE clients[u]
      slots == Slots(old, i)
  IN /\ item' = [item EXCEPT ![u] = Position(u)]
     /\ ski' = IF new THEN ski \cup {u} ELSE ski
     /\ clients' = [clients EXCEPT ![u] = IF i = 0 THEN old ELSE Referring(old, i)]
     /\ gcFlag' = IF i = 0 /\ new THEN gcFlag \cup {u}
                  ELSE IF i # 0 /\ slots # {} THEN gcFlag \ {u} ELSE gcFlag
     /\ proxyMap' = IF i # 0 /\ slots # {} /\ old[Min(slots)] = 0
                    THEN [proxyMap EXCEPT ![i].updateCount = (@ + 1) % CountMod] ELSE proxyMap
     /\ UNCHANGED noMappings

\* processValidationRequest.  A STORE asks for no validation and is not
\* registered with its client.
HandleVerify ==
  LET pkt == Head(rcvQueue)
      t   == thread[pkt.conn]
  IN /\ Received("VERIFY") \/ Received("STORE")
     /\ rcvQueue' = Tail(rcvQueue)
     /\ IF t.initialized
        THEN /\ Register(pkt.arg, IF pkt.type = "VERIFY" THEN t.routerID ELSE 0)
             /\ UNCHANGED peer
        ELSE Refuse(pkt.conn) /\ UNCHANGED registry
     /\ UNCHANGED <<rib, thread, cmdQueue, greeted>>

-----------------------------------------------------------------------------
(* handleCommands: the command handler's thread.                           *)

Command(type) == greeted = NULL /\ cmdQueue # <<>> /\ Head(cmdQueue).type = type

\* _processHandshake up to the HELLO response.
AcceptHello ==
  LET c == Head(cmdQueue).conn
      p == Head(cmdQueue).arg
      i == WantedID(p)
  IN /\ Command("HELLO")
     /\ p # NULL
     /\ Mappable(p, i, c)
     /\ addMapping(p, i, c)
     /\ thread' = [thread EXCEPT ![c].proxyID = p, ![c].routerID = i]
     /\ cmdQueue' = Tail(cmdQueue)
     /\ IF thread[c].active
        THEN greeted' = c /\ peer' = [peer EXCEPT ![c] = "established"]
        ELSE UNCHANGED <<greeted, peer>>
     /\ UNCHANGED <<rib, rcvQueue, item, clients, gcFlag, ski>>

\* The rest of it: the proxy may have sent its first requests by now.
CompleteHello ==
  /\ greeted # NULL
  /\ thread' = [thread EXCEPT ![greeted].initialized = TRUE]
  /\ greeted' = NULL
  /\ UNCHANGED <<peer, rib, rcvQueue, cmdQueue, registry>>

\* The handshake fails, the connection is closed.
RejectHello ==
  LET c == Head(cmdQueue).conn
      p == Head(cmdQueue).arg
  IN /\ Command("HELLO")
     /\ p # NULL => ~Mappable(p, WantedID(p), c)
     /\ peer' = [peer EXCEPT ![c] = "gone"]
     /\ thread' = [thread EXCEPT ![c].active = FALSE]
     /\ cmdQueue' = Tail(cmdQueue)
     /\ UNCHANGED <<rib, rcvQueue, greeted, registry>>

\* closeClientConnection cancels the connection's thread: no cleanup runs.
ProcessGoodbye ==
  LET c == Head(cmdQueue).conn
  IN /\ Command("GOODBYE")
     /\ peer' = [peer EXCEPT ![c] = "gone"]
     /\ thread' = [thread EXCEPT ![c].active = FALSE]
     /\ Deactivate(thread[c].routerID, FALSE)
     /\ cmdQueue' = Tail(cmdQueue)
     /\ UNCHANGED <<rib, rcvQueue, greeted, noMappings, item, ski>>

\* _processDeleteUpdate.
ProcessDelete ==
  LET pkt == Head(cmdQueue)
      i   == thread[pkt.conn].routerID
      u   == pkt.arg
  IN /\ Command("DELETE")
     /\ cmdQueue' = Tail(cmdQueue)
     /\ IF u \in References(i)
        THEN /\ clients' = [clients EXCEPT ![u] = Without(@, i)]
             /\ gcFlag' = gcFlag \cup Orphaned({u}, i)
             /\ ski' = ski \ {u}
             /\ proxyMap' = [proxyMap EXCEPT ![i].updateCount = (@ + CountMod - 1) % CountMod]
        ELSE UNCHANGED <<clients, gcFlag, ski, proxyMap>>
     /\ UNCHANGED <<peer, rib, thread, rcvQueue, greeted, noMappings, item>>

Next ==
  \/ \E c \in Conn : Connect(c) \/ SendGoodbye(c) \/ Disconnect(c)
  \/ \E c \in Conn, p \in Proxy \cup {NULL} : SendHello(c, p)
  \/ \E c \in Conn, u \in Update : SendVerify(c, u) \/ SendStore(c, u) \/ SendDelete(c, u)
  \/ HandleHello \/ HandleGoodbye \/ HandleDelete \/ HandleVerify
  \/ AcceptHello \/ CompleteHello \/ RejectHello \/ ProcessGoodbye \/ ProcessDelete

Spec == Init /\ [][Next]_vars

-----------------------------------------------------------------------------
(* Properties.                                                             *)

\* updateCount is the number of updates assigned to the client (the comment
\* at ProxyClientMapping.updateCount, server_connection_handler.h:86), even
\* for an inactive mapping that late requests still reach:
\* unregisterClientID relies on it to find the last reference.
CountsReferences ==
  \A i \in ClientID : proxyMap[i].updateCount = Cardinality(References(i))

\* The clients of an update stand at the front of its array, each once, as
\* the searches that stop at the first free slot need.
ClientsCompact ==
  \A u \in Update : \A k, l \in DOMAIN clients[u] :
    k < l /\ clients[u][l] # 0 => clients[u][k] \notin {0, clients[u][l]}

\* A stored update is marked for the garbage collector exactly while no
\* client refers to it, whichever of the paths removed or added the last one.
MarkedIfUnreferenced ==
  gcFlag = Stored \ UNION {References(i) : i \in ClientID}

\* A proxy is mapped to one client ID at most ("Attempt to re-register an
\* already registered proxy", addMapping), however often it comes and goes.
MappedOnce ==
  \A i, j \in Mapped : proxyMap[i].proxyID = proxyMap[j].proxyID => i = j

\* The mapping of a connection whose handshake completed is not active after
\* the connection ended, whatever ended it and whatever was still queued.
ActiveMappingServes ==
  \A i \in ClientID : proxyMap[i].isActive =>
    LET t == thread[proxyMap[i].socket]
    IN /\ t.routerID = i
       /\ t.proxyID = proxyMap[i].proxyID
       /\ t.initialized => t.active

\* No proxy takes over an active mapping from the connection that has it
\* (EM4, addMapping), and a configured mapping is the configured proxy's.
MappingKept ==
  [][\A i \in ClientID :
       /\ proxyMap[i].isActive /\ proxyMap'[i].isActive =>
            proxyMap'[i].socket = proxyMap[i].socket
       /\ Configured[i] # 0 => proxyMap'[i].proxyID = Configured[i]]_vars

\* An active mapping belongs to a connection that is alive: "reboots /
\* disconnects of proxies require to deactivate the mapping"
\* (server_connection_handler.c:1460), else the proxy is refused from then on.
ActiveMappingIsLive ==
  \A i \in ClientID : proxyMap[i].isActive => thread[proxyMap[i].socket].active

\* The connections broadcastResult sends a result of u to.
Notified(u) ==
  IF Len(clients[u]) > MinClients THEN {}
  ELSE {proxyMap[i].socket : i \in {j \in ClientID : u \in References(j) /\ proxyMap[j].isActive}}

\* "Sends a (new) result to all connected clients of the provided update"
\* (command_handler.c:913): a proxy that holds an update, and none of whose
\* packets is on its way, is among those that hear of its new results.
HoldersNotified ==
  \A c \in Conn : \A u \in rib[c] :
    /\ peer[c] = "established"
    /\ greeted # c
    /\ \A pkt \in ToSet(rcvQueue) \cup ToSet(cmdQueue) : pkt.conn # c
    => c \in Notified(u)

=============================================================================
