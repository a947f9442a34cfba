---------------------------- MODULE RouterClient ----------------------------
(***************************************************************************)
(* The RPKI-to-router client of the SRx server                             *)
(* (server/rpki_router_client.c, util/client_socket.c) and the validation  *)
(* cache it reads ROAs from (tools/rpkirtr_svr.c).                         *)
(*                                                                         *)
(* The cache keeps a list of announced and of withdrawn ROAs, each with a  *)
(* serial number, answers reset and serial queries, and notifies of        *)
(* changes from a timer's thread.  The client's thread manageConnection    *)
(* sends a reset query on every connection and processes what it receives. *)
(* The connection can be lost between and inside of PDUs, the cache can be *)
(* restarted and be given another session ID.                              *)
(*                                                                         *)
(* All PDUs have one version.  Error Reports, which only the operator of   *)
(* the cache sends, router keys and ASPA objects are left out.             *)
(***************************************************************************)
EXTENDS Naturals, SequencesExt

CONSTANTS
  Roa,
  MaxSerial,    \* bound: changes of the cache's ROAs
  MaxSession,   \* bound: session IDs
  MaxLosses,    \* bound: losses of the connection
  MaxRestarts,  \* bound: restarts of the cache
  MaxBuffer     \* bound: PDUs of a response in the socket's buffers

ASSUME BoundsAreNatural ==
  {MaxSerial, MaxLosses, MaxRestarts} \subseteq Nat /\ {MaxSession, MaxBuffer} \subseteq Nat \ {0}

VARIABLES
  \* the cache
  entries,   \* cache.entries, by serial: the ROA, its flag, its serial, the one before
  maxSerial, \* cache.maxSerial
  expired,   \* cache.minPSExpired, cache.maxSExpired
  session,   \* sessionID
  notify,    \* service.notify
  sending,   \* the response being sent with the read lock held: the PDU that
             \* comes next and the places of the entries that are left
  restarts,
  \* the connection
  link,      \* whether it is up
  toCache, toClient,
  losses,
  \* the client
  pc,        \* where manageConnection is
  client,    \* RPKIRouterClient
  have,      \* how often the prefix cache holds each ROA
  learned    \* history: the session client.serial was received in, or Foreign

cache == <<entries, maxSerial, expired, session, notify, sending, restarts>>
connection == <<link, toCache, toClient, losses>>
vars == <<cache, connection, pc, client, have, learned>>

Serial == 0 .. MaxSerial
Session == 1 .. MaxSession
Unlimited == MaxSerial + 1   \* UINT32_MAX
Foreign == MaxSession + 1    \* a query had a serial of another session

Queries == [type : {"RESET_QUERY"}] \cup [type : {"SERIAL_QUERY"}, session : Session, serial : Serial]

PDUs ==
  [type : {"SERIAL_NOTIFY", "CACHE_RESPONSE"}, session : Session]
    \cup [type : {"END_OF_DATA"}, session : Session, serial : Serial]
    \cup [type : {"PREFIX"}, roas : SUBSET Roa, announced : BOOLEAN]
    \cup [type : {"CACHE_RESET"}]

\* No response is being sent.
Idle == [next |-> "NOTHING", left |-> {}]

TypeOK ==
  /\ entries \in Seq([roa : Roa, announced : BOOLEAN, serial : Serial, prev : Serial])
  /\ maxSerial \in Serial
  /\ expired \in [min : 0 .. Unlimited, max : Serial]
  /\ session \in Session
  /\ notify \in BOOLEAN
  /\ sending \in [next : {"NOTHING", "CACHE_RESPONSE", "DATA", "CACHE_RESET"},
                   left : SUBSET (DOMAIN entries)]
  /\ restarts \in 0 .. MaxRestarts
  /\ link \in BOOLEAN
  /\ toCache \in Seq(Queries)
  /\ toClient \in Seq(PDUs)
  /\ losses \in 0 .. MaxLosses
  /\ pc \in {"reset", "first", "data", "lost", "renew", "renewing", "stopped", "crashed"}
  /\ client \in [serial : Serial, session : Session \cup {0}, startup : BOOLEAN,
                 changed : BOOLEAN, lastRecv : {p.type : p \in PDUs}, fd : BOOLEAN]
  /\ have \in [Roa -> Nat]
  /\ learned \in Session \cup {0, Foreign}

\* The RPKI handler and its client are static: lastRecv is 0, a Serial Notify.
Init ==
  /\ entries = <<>>
  /\ maxSerial = 0
  /\ expired = [min |-> Unlimited, max |-> 0]
  /\ session = 1
  /\ notify = FALSE
  /\ sending = Idle
  /\ restarts = 0
  /\ link = TRUE
  /\ toCache = <<>>
  /\ toClient = <<>>
  /\ losses = 0
  /\ pc = "reset"
  /\ client = [serial |-> 0, session |-> 0, startup |-> TRUE, changed |-> FALSE,
               lastRecv |-> "SERIAL_NOTIFY", fd |-> TRUE]
  /\ have = [r \in Roa |-> 0]
  /\ learned = 0

-----------------------------------------------------------------------------
(* The cache.                                                              *)

\* The places of the entries a query is answered with.  A withdrawal is
\* skipped if the client's serial is older than the announcement.
ServedReset == {i \in DOMAIN entries : entries[i].announced}

ServedSince_bug(n) ==
  {i \in DOMAIN entries : LET e == entries[i] IN e.serial > n + 1 /\ ~(e.serial # e.prev /\ e.prev > n)}

ServedSince(n) ==
  {i \in DOMAIN entries : LET e == entries[i] IN e.serial > n /\ ~(e.serial # e.prev /\ e.prev > n)}

Response(served) == [next |-> "CACHE_RESPONSE", left |-> served]

\* checkSerial: a range of serials for which withdrawals are missing.
checkSerial(n) ==
  IF expired.min < expired.max THEN n \in expired.min .. expired.max
  ELSE n >= expired.min /\ n > expired.max

\* sendCacheObjects: a serial query of another session is not answered at all.
Answer(q) ==
  IF q.type = "RESET_QUERY" THEN Response(ServedReset)
  ELSE IF q.session # session THEN Idle
  ELSE IF checkSerial(q.serial) THEN [next |-> "CACHE_RESET", left |-> {}]
  ELSE Response(ServedSince(q.serial))

\* A change sets notify after it released the lock, so an answer may have the
\* change in it and leave notify set.
CacheAnswer ==
  /\ toCache # <<>>
  /\ sending = Idle
  /\ toCache' = Tail(toCache)
  /\ notify' \in {FALSE, notify}
  /\ sending' = Answer(Head(toCache))
  /\ UNCHANGED <<entries, maxSerial, expired, session, restarts, link, toClient, losses,
                 pc, client, have, learned>>

\* A PDU carries the session ID and the serial of the moment it is sent.
NextPDU ==
  CASE sending.next = "CACHE_RESPONSE" -> [type |-> "CACHE_RESPONSE", session |-> session]
    [] sending.next = "CACHE_RESET" -> [type |-> "CACHE_RESET"]
    [] sending.next = "DATA" /\ sending.left = {} ->
         [type |-> "END_OF_DATA", session |-> session, serial |-> maxSerial]
    [] sending.next = "DATA" /\ sending.left # {} ->
         LET e == entries[Min(sending.left)]
         IN [type |-> "PREFIX", roas |-> {e.roa}, announced |-> e.announced]

RestOfResponse ==
  CASE sending.next = "CACHE_RESPONSE" -> [sending EXCEPT !.next = "DATA"]
    [] sending.next = "DATA" /\ sending.left # {} -> [sending EXCEPT !.left = @ \ {Min(@)}]
    [] OTHER -> Idle

CacheSend ==
  /\ sending # Idle
  /\ Len(toClient) < MaxBuffer
  /\ toClient' = Append(toClient, NextPDU)
  /\ sending' = RestOfResponse
  /\ UNCHANGED <<entries, maxSerial, expired, session, notify, restarts, link, toCache, losses,
                 pc, client, have, learned>>

Notified == IF link THEN Append(toClient, [type |-> "SERIAL_NOTIFY", session |-> session])
            ELSE toClient

\* serviceTimerExpired: the Serial Notify may be sent in the middle of a response.
ServiceTimer ==
  /\ notify
  /\ notify' = FALSE
  /\ toClient' = Notified
  /\ UNCHANGED <<entries, maxSerial, expired, session, sending, restarts, link, toCache, losses,
                 pc, client, have, learned>>

\* Changes of the entries wait for the end of a response: they take the write lock.
Entry(r) == [roa |-> r, announced |-> TRUE, serial |-> maxSerial + 1, prev |-> maxSerial + 1]

Absent(r) == \A i \in DOMAIN entries : entries[i].roa = r => ~entries[i].announced

appendPrefixData_bug(r) ==
  /\ maxSerial < MaxSerial
  /\ Absent(r)
  /\ maxSerial' = maxSerial + 1
  /\ entries' = Append(entries, Entry(r))
  /\ notify' = TRUE
  /\ UNCHANGED <<expired, session, sending, restarts, connection, pc, client, have, learned>>

appendPrefixData(r) ==
  /\ maxSerial < MaxSerial
  /\ Absent(r)
  /\ sending = Idle
  /\ maxSerial' = maxSerial + 1
  /\ entries' = Append(entries, Entry(r))
  /\ notify' = TRUE
  /\ UNCHANGED <<expired, session, sending, restarts, connection, pc, client, have, learned>>

\* A withdrawn entry moves to the end of the list and is kept for a while.
processEntryRemoval_bug(i) ==
  /\ maxSerial < MaxSerial
  /\ entries[i].serial = entries[i].prev
  /\ sending = Idle
  /\ maxSerial' = maxSerial + 1
  /\ entries' = Append(RemoveAt(entries, i),
                       [entries[i] EXCEPT !.announced = FALSE, !.serial = maxSerial + 1])
  /\ UNCHANGED <<notify, expired, session, sending, restarts, connection, pc, client, have, learned>>

processEntryRemoval(i) ==
  /\ maxSerial < MaxSerial
  /\ entries[i].serial = entries[i].prev
  /\ sending = Idle
  /\ maxSerial' = maxSerial + 1
  /\ entries' = Append(RemoveAt(entries, i),
                       [entries[i] EXCEPT !.announced = FALSE, !.serial = maxSerial + 1])
  /\ notify' = TRUE
  /\ UNCHANGED <<expired, session, sending, restarts, connection, pc, client, have, learned>>

deleteExpiredEntries(i) ==
  LET e == entries[i] IN
  /\ ~e.announced
  /\ sending = Idle
  /\ entries' = RemoveAt(entries, i)
  /\ expired' = [min |-> IF e.prev < expired.min THEN e.prev ELSE expired.min,
                 max |-> IF e.serial > expired.max THEN e.serial ELSE expired.max]
  /\ UNCHANGED <<maxSerial, session, notify, sending, restarts, connection, pc, client, have, learned>>

\* processSessionID takes no lock: the session changes within a response, too.
processSessionID ==
  /\ session < MaxSession
  /\ session' = session + 1
  /\ toClient' = IF link THEN Append(toClient, [type |-> "SERIAL_NOTIFY", session |-> session + 1])
                 ELSE toClient
  /\ UNCHANGED <<entries, maxSerial, expired, notify, sending, restarts, link, toCache, losses,
                 pc, client, have, learned>>

-----------------------------------------------------------------------------
(* Losing the connection.                                                  *)

\* A PDU the client reads only the header of: the rest of its buffer is zero.
Truncated(p) ==
  CASE p.type = "PREFIX" -> [p EXCEPT !.roas = {}, !.announced = FALSE]
    [] p.type = "END_OF_DATA" -> [p EXCEPT !.serial = 0]
    [] OTHER -> p

\* What the client can still read: the first n PDUs of those sent, and the
\* header of the next one.
Rest(n, header) ==
  LET sent == IF sending = Idle THEN toClient ELSE Append(toClient, NextPDU)
  IN SubSeq(sent, 1, n) \o (IF header /\ n < Len(sent) THEN <<Truncated(sent[n + 1])>> ELSE <<>>)

LoseConnection ==
  /\ link
  /\ losses < MaxLosses
  /\ losses' = losses + 1
  /\ link' = FALSE
  /\ \E n \in 0 .. Len(toClient), header \in BOOLEAN : toClient' = Rest(n, header)
  /\ toCache' = <<>>
  /\ sending' = Idle
  /\ UNCHANGED <<entries, maxSerial, expired, session, notify, restarts, pc, client, have, learned>>

\* The cache is started again: it reads its ROAs anew, under a new session ID.
RestartCache ==
  /\ restarts < MaxRestarts
  /\ session < MaxSession
  /\ restarts' = restarts + 1
  /\ session' = session + 1
  /\ entries' = <<>>
  /\ maxSerial' = 0
  /\ expired' = [min |-> Unlimited, max |-> 0]
  /\ notify' = FALSE
  /\ sending' = Idle
  /\ link' = FALSE
  /\ toCache' = <<>>
  /\ \E n \in 0 .. Len(toClient), header \in BOOLEAN : toClient' = Rest(n, header)
  /\ UNCHANGED <<losses, pc, client, have, learned>>

-----------------------------------------------------------------------------
(* The client: receivePDUs.                                                *)

Receiving == pc \in {"first", "data", "renewing"}

\* Where manageConnection goes on after a PDU.  The first PDU after the reset
\* query must be a Cache Response; renewing ends with the first End of Data.
After(type, keepGoing) ==
  CASE pc = "first" -> IF type = "CACHE_RESPONSE" THEN "data" ELSE "stopped"
    [] pc = "data" -> IF keepGoing THEN "data" ELSE "lost"
    [] pc = "renewing" -> IF keepGoing /\ type # "END_OF_DATA" THEN "renewing" ELSE "reset"

\* checkSessionID: the first session ID after a start is accepted.
SessionOK(s) == client.startup \/ client.session = s

checkSessionID(s) ==
  IF client.startup
  THEN [client EXCEPT !.startup = FALSE, !.session = s, !.changed = FALSE]
  ELSE [client EXCEPT !.changed = @ \/ client.session # s]

Receive(type) ==
  /\ Receiving
  /\ toClient # <<>>
  /\ Head(toClient).type = type
  /\ toClient' = Tail(toClient)

\* A query on a lost connection gets nowhere.
Query(q) == toCache' = IF link THEN Append(toCache, q) ELSE toCache

ReceiveNotify ==
  LET s == Head(toClient).session IN
  /\ Receive("SERIAL_NOTIFY")
  /\ client' = [checkSessionID(s) EXCEPT !.lastRecv = "SERIAL_NOTIFY"]
  /\ IF SessionOK(s)
     THEN Query([type |-> "SERIAL_QUERY", session |-> s, serial |-> client.serial])
     ELSE UNCHANGED toCache
  /\ learned' = IF SessionOK(s) /\ learned \notin {0, s} THEN Foreign ELSE learned
  /\ pc' = After("SERIAL_NOTIFY", SessionOK(s))
  /\ UNCHANGED <<cache, link, losses, have>>

\* sessionIDChangedCallback is not set: a Cache Response of another session
\* calls NULL.
ReceiveResponse ==
  LET s == Head(toClient).session IN
  /\ Receive("CACHE_RESPONSE")
  /\ client' = [checkSessionID(s) EXCEPT !.lastRecv = "CACHE_RESPONSE"]
  /\ pc' = IF SessionOK(s) THEN After("CACHE_RESPONSE", TRUE) ELSE "crashed"
  /\ UNCHANGED <<cache, link, toCache, losses, have, learned>>

\* handleIPv4Prefix: a ROA is counted up and down.
ReceivePrefix_bug ==
  LET p == Head(toClient) IN
  /\ Receive("PREFIX")
  /\ have' = [r \in Roa |-> IF r \notin p.roas THEN have[r]
                            ELSE IF p.announced THEN have[r] + 1
                            ELSE have[r] - 1]
  /\ client' = [client EXCEPT !.lastRecv = "PREFIX"]
  /\ pc' = After("PREFIX", TRUE)
  /\ UNCHANGED <<cache, link, toCache, losses, learned>>

ReceivePrefix ==
  LET p == Head(toClient) IN
  /\ Receive("PREFIX")
  /\ have' = [r \in Roa |->
               IF r \notin p.roas THEN have[r]
               ELSE IF p.announced THEN have[r] + 1
               ELSE IF have[r] > 0 THEN have[r] - 1 ELSE 0]
  /\ client' = [client EXCEPT !.lastRecv = "PREFIX"]
  /\ pc' = After("PREFIX", TRUE)
  /\ UNCHANGED <<cache, link, toCache, losses, learned>>

ReceiveEndOfData ==
  LET p == Head(toClient) IN
  /\ Receive("END_OF_DATA")
  /\ client' = [checkSessionID(p.session) EXCEPT
                  !.serial = IF SessionOK(p.session) THEN p.serial ELSE @,
                  !.lastRecv = "END_OF_DATA"]
  /\ learned' = IF ~SessionOK(p.session) \/ learned = Foreign THEN learned
                 ELSE IF p.serial > 0 THEN p.session ELSE 0
  /\ pc' = After("END_OF_DATA", SessionOK(p.session))
  /\ UNCHANGED <<cache, link, toCache, losses, have>>

\* handleReset does nothing.
ReceiveReset ==
  /\ Receive("CACHE_RESET")
  /\ client' = [client EXCEPT !.lastRecv = "CACHE_RESET"]
  /\ Query([type |-> "RESET_QUERY"])
  /\ pc' = After("CACHE_RESET", TRUE)
  /\ UNCHANGED <<cache, link, losses, have, learned>>

\* The socket reports the end of the connection; lastRecv is the one before.
ReceiveNothing ==
  /\ Receiving
  /\ ~link
  /\ toClient = <<>>
  /\ client' = [client EXCEPT !.fd = FALSE]
  /\ pc' = IF pc = "first" THEN After(client.lastRecv, FALSE) ELSE After("NONE", FALSE)
  /\ UNCHANGED <<cache, connection, have, learned>>

-----------------------------------------------------------------------------
(* The client: manageConnection.                                           *)

\* A send on a lost connection may still succeed.
SendResetQuery(from, sent, failed) ==
  /\ pc = from
  /\ \/ client.fd /\ Query([type |-> "RESET_QUERY"]) /\ pc' = sent
     \/ ~link /\ UNCHANGED toCache /\ pc' = failed
  /\ UNCHANGED <<cache, link, toClient, losses, client, have, learned>>

StartQuery == SendResetQuery("reset", "first", "lost")

RenewQuery == SendResetQuery("renew", "renewing", "reset")

\* reconnectToServer closes the socket and succeeds at last or gives up after
\* MAX_RECONNECTION_ATTEMPTS.
Reconnect(succ) ==
  /\ pc = "lost"
  /\ client' = [client EXCEPT !.startup = @ \/ client.changed, !.fd = succ]
  /\ pc' = IF client.changed THEN "renew" ELSE "reset"
  /\ link' = succ
  /\ toCache' = <<>>
  /\ toClient' = <<>>
  /\ sending' = Idle
  /\ UNCHANGED <<entries, maxSerial, expired, session, notify, restarts, losses, have, learned>>

Server == CacheAnswer \/ CacheSend \/ ServiceTimer

Operator ==
  \/ \E r \in Roa : appendPrefixData(r)
  \/ \E i \in DOMAIN entries : processEntryRemoval(i) \/ deleteExpiredEntries(i)
  \/ processSessionID

Fault == LoseConnection \/ RestartCache \/ Reconnect(FALSE)

Client ==
  \/ StartQuery \/ RenewQuery
  \/ ReceiveNotify \/ ReceiveResponse \/ ReceivePrefix \/ ReceiveEndOfData
  \/ ReceiveReset \/ ReceiveNothing

Next == Server \/ Operator \/ Fault \/ Client \/ Reconnect(TRUE)

\* The threads of cache and client run; a cache that is asked again and again
\* accepts the connection at some time.
Fairness ==
  /\ WF_vars(CacheAnswer) /\ WF_vars(CacheSend) /\ WF_vars(ServiceTimer)
  /\ WF_vars(Client)
  /\ SF_vars(Reconnect(TRUE))

Spec == Init /\ [][Next]_vars /\ Fairness

-----------------------------------------------------------------------------
(* Properties.                                                             *)

Announced == {entries[i].roa : i \in {j \in DOMAIN entries : entries[j].announced}}

\* Nothing is under way between cache and client.
Quiet == link /\ ~notify /\ sending = Idle /\ toCache = <<>> /\ toClient = <<>>

\* The client believes it has what the cache has.
Current == pc = "data" /\ client.session = session /\ client.serial = maxSerial

\* A client that is up to date by session and serial holds every ROA of the
\* cache, after any interleaving of notifications, queries, changes, losses,
\* truncated PDUs and restarts.
NothingMissing == Quiet /\ Current /\ learned # Foreign => \A r \in Announced : have[r] > 0

\* At the End of Data, when the routers are told of changes, the ROAs of the
\* serial it carries have all been received.
CompleteAtEndOfData ==
  [][ReceiveEndOfData /\ client'.session = session /\ client'.serial = maxSerial /\ learned # Foreign =>
       \A r \in Announced : have[r] > 0]_vars

Down == pc \in {"stopped", "crashed"}

\* Once the cache and the connection stay as they are, the client catches up
\* and stays up to date, unless its thread stopped or the server crashed.
CatchesUp == <>[](Down \/ (Current /\ Quiet))
=============================================================================
