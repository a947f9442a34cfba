------------------------- MODULE RouterClientProofs -------------------------
(***************************************************************************)
(* Proofs about RouterClient: types, and that a client which is up to date *)
(* by session and serial holds every ROA of the cache, for every number of *)
(* ROAs, changes, sessions, losses of the connection and restarts.         *)
(***************************************************************************)
EXTENDS RouterClient, NaturalsInduction, SequenceTheorems, WellFoundedInduction, TLAPS

-----------------------------------------------------------------------------
(* Sequences and sets.                                                     *)

LEMMA LeastPlace ==
  ASSUME NEW S \in SUBSET Nat, S # {}
  PROVE  /\ Min(S) \in S
         /\ \A n \in S : Min(S) <= n
<1>1. PICK m \in S : \A n \in S : ~ (<<n, m>> \in OpToRel(<, Nat))
  BY NatLessThanWellFounded, WFMin
<1>2. ASSUME NEW n \in S PROVE m <= n
  <2>1. n \in Nat /\ m \in Nat
    OBVIOUS
  <2>2. n < m => <<n, m>> \in OpToRel(<, Nat)
    BY <2>1 DEF OpToRel
  <2>3. ~ (n < m)
    BY <1>1, <2>2, Zenon
  <2> QED
    BY <2>1, <2>3
<1>3. \E x \in S : \A y \in S : x <= y
  BY <1>2
<1> QED
  BY <1>3 DEF Min

\* What removing an element leaves in place and what it shifts.
LEMMA Removed ==
  ASSUME NEW S, NEW s \in Seq(S), NEW i \in DOMAIN s
  PROVE  /\ RemoveAt(s, i) \in Seq(S)
         /\ Len(RemoveAt(s, i)) = Len(s) - 1
         /\ \A k \in 1 .. Len(s) - 1 : RemoveAt(s, i)[k] = s[IF k < i THEN k ELSE k + 1]
<1> DEFINE a == SubSeq(s, 1, i - 1)
           b == SubSeq(s, i + 1, Len(s))
<1>1. i \in 1 .. Len(s) /\ Len(s) \in Nat
  OBVIOUS
<1>2. a \in Seq(S) /\ b \in Seq(S)
  BY <1>1
<1>3. Len(a) = i - 1 /\ Len(b) = Len(s) - i
  BY <1>1
<1>4. /\ \A k \in 1 .. i - 1 : a[k] = s[k]
      /\ \A k \in 1 .. Len(s) - i : b[k] = s[k + i]
  BY <1>1
<1>5. RemoveAt(s, i) = a \o b
  BY DEF RemoveAt
<1> HIDE DEF a, b
<1>6. a \o b \in Seq(S) /\ Len(a \o b) = Len(s) - 1
  BY <1>1, <1>2, <1>3
<1>7. \A k \in 1 .. Len(s) - 1 : (a \o b)[k] = IF k < i THEN a[k] ELSE b[k - (i - 1)]
  <2>1. \A k \in 1 .. Len(a) + Len(b) : (a \o b)[k] = IF k <= Len(a) THEN a[k] ELSE b[k - Len(a)]
    BY <1>2, ConcatProperties, SMTT(30)
  <2>2. Len(a) + Len(b) = Len(s) - 1 /\ \A k \in 1 .. Len(s) - 1 : k <= Len(a) <=> k < i
    BY <1>1, <1>3
  <2> QED
    BY <1>3, <2>1, <2>2
<1>8. ASSUME NEW k \in 1 .. Len(s) - 1
      PROVE  (a \o b)[k] = s[IF k < i THEN k ELSE k + 1]
  <2>1. CASE k < i
    <3>1. k \in 1 .. i - 1
      BY <1>1, <2>1
    <3> QED
      BY <1>4, <1>7, <2>1, <3>1
  <2>2. CASE ~(k < i)
    <3>1. k - (i - 1) \in 1 .. Len(s) - i /\ (k - (i - 1)) + i = k + 1
      BY <1>1, <2>2
    <3> QED
      BY <1>4, <1>7, <2>2, <3>1
  <2> QED
    BY <2>1, <2>2
<1> QED
  BY <1>5, <1>6, <1>8

-----------------------------------------------------------------------------
(* Types.                                                                  *)

LEMMA Bounds ==
  /\ MaxSerial \in Nat /\ MaxSession \in Nat /\ MaxSession # 0
  /\ MaxLosses \in Nat /\ MaxRestarts \in Nat
BY BoundsAreNatural

Responding == sending.next \in {"CACHE_RESPONSE", "DATA"}

\* Entries are left to be sent only within a response to a query.
Leftover == ~Responding => sending.left = {}

Entries == [roa : Roa, announced : BOOLEAN, serial : Serial, prev : Serial]

Typed == TypeOK /\ Leftover

LEMMA NextPDUTyped ==
  ASSUME Typed, sending # Idle
  PROVE  /\ NextPDU \in PDUs
         /\ RestOfResponse \in [next : {"NOTHING", "CACHE_RESPONSE", "DATA", "CACHE_RESET"},
                                left : SUBSET (DOMAIN entries)]
         /\ RestOfResponse.next \notin {"CACHE_RESPONSE", "DATA"} => RestOfResponse.left = {}
<1>1. sending.next \in {"CACHE_RESPONSE", "DATA", "CACHE_RESET"}
  BY DEF Typed, TypeOK, Leftover, Responding, Idle
<1>2. /\ sending.left \subseteq DOMAIN entries /\ DOMAIN entries = 1 .. Len(entries)
      /\ entries \in Seq(Entries)
  BY DEF Typed, TypeOK, Entries
<1>3. sending.left # {} => Min(sending.left) \in sending.left
  BY <1>2, LeastPlace
<1>4. CASE sending.next = "CACHE_RESPONSE"
  <2>1. /\ NextPDU = [type |-> "CACHE_RESPONSE", session |-> session]
        /\ RestOfResponse = [sending EXCEPT !.next = "DATA"]
    BY <1>4 DEF NextPDU, RestOfResponse
  <2> QED
    BY <2>1, <1>2 DEF Typed, TypeOK, PDUs
<1>5. CASE sending.next = "CACHE_RESET"
  <2>1. /\ NextPDU = [type |-> "CACHE_RESET"]
        /\ RestOfResponse = Idle
    BY <1>5 DEF NextPDU, RestOfResponse
  <2> QED
    BY <2>1, <1>2 DEF Typed, TypeOK, PDUs, Idle
<1>6. CASE sending.next = "DATA" /\ sending.left = {}
  <2>1. /\ NextPDU = [type |-> "END_OF_DATA", session |-> session, serial |-> maxSerial]
        /\ RestOfResponse = Idle
    BY <1>6 DEF NextPDU, RestOfResponse
  <2> QED
    BY <2>1, <1>2 DEF Typed, TypeOK, PDUs, Idle
<1>7. CASE sending.next = "DATA" /\ sending.left # {}
  <2> DEFINE e == entries[Min(sending.left)]
  <2>1. e \in Entries
    BY <1>2, <1>3, <1>7
  <2>2. /\ NextPDU = [type |-> "PREFIX", roas |-> {e.roa}, announced |-> e.announced]
        /\ RestOfResponse = [sending EXCEPT !.left = @ \ {Min(@)}]
    BY <1>7 DEF NextPDU, RestOfResponse
  <2>3. {e.roa} \in SUBSET Roa /\ e.announced \in BOOLEAN
    BY <2>1 DEF Entries
  <2>4. NextPDU \in PDUs
    <3> HIDE DEF e
    <3> QED
      BY <2>2, <2>3 DEF PDUs
  <2>5. RestOfResponse \in [next : {"NOTHING", "CACHE_RESPONSE", "DATA", "CACHE_RESET"},
                            left : SUBSET (DOMAIN entries)]
    BY <2>2, <1>2 DEF Typed, TypeOK
  <2>6. RestOfResponse.next = "DATA"
    BY <2>2, <1>7 DEF Typed, TypeOK
  <2> QED
    BY <2>4, <2>5, <2>6
<1> QED
  BY <1>1, <1>4, <1>5, <1>6, <1>7

LEMMA TruncatedTyped ==
  ASSUME NEW p \in PDUs
  PROVE  Truncated(p) \in PDUs
<1>1. CASE p.type = "PREFIX"
  BY <1>1 DEF Truncated, PDUs
<1>2. CASE p.type = "END_OF_DATA"
  BY <1>2, Bounds DEF Truncated, PDUs, Serial
<1>3. CASE p.type \notin {"PREFIX", "END_OF_DATA"}
  BY <1>3 DEF Truncated
<1> QED
  BY <1>1, <1>2, <1>3

Sent == IF sending = Idle THEN toClient ELSE Append(toClient, NextPDU)

LEMMA SentTyped ==
  ASSUME Typed
  PROVE  /\ Sent \in Seq(PDUs)
         /\ Len(Sent) \in Nat
         /\ Len(toClient) \in Nat
         /\ Len(Sent) >= Len(toClient)
<1>1. toClient \in Seq(PDUs)
  BY DEF Typed, TypeOK
<1>2. sending # Idle => NextPDU \in PDUs
  BY NextPDUTyped
<1> QED
  BY <1>1, <1>2 DEF Sent

LEMMA RestTyped ==
  ASSUME Typed, NEW n \in 0 .. Len(toClient), NEW header \in BOOLEAN
  PROVE  Rest(n, header) \in Seq(PDUs)
<1>1. Sent \in Seq(PDUs) /\ Len(Sent) \in Nat /\ n \in 0 .. Len(Sent)
  BY SentTyped
<1>2. SubSeq(Sent, 1, n) \in Seq(PDUs)
  BY <1>1
<1>3. ASSUME n < Len(Sent) PROVE <<Truncated(Sent[n + 1])>> \in Seq(PDUs)
  <2>1. Sent[n + 1] \in PDUs
    BY <1>1, <1>3
  <2> QED
    BY <2>1, TruncatedTyped
<1>4. Rest(n, header) =
        SubSeq(Sent, 1, n) \o (IF header /\ n < Len(Sent) THEN <<Truncated(Sent[n + 1])>> ELSE <<>>)
  BY DEF Rest, Sent
<1> QED
  BY <1>2, <1>3, <1>4

LEMMA AnswerTyped ==
  ASSUME Typed, NEW q \in Queries
  PROVE  /\ Answer(q) \in [next : {"NOTHING", "CACHE_RESPONSE", "DATA", "CACHE_RESET"},
                           left : SUBSET (DOMAIN entries)]
         /\ Answer(q).next \notin {"CACHE_RESPONSE", "DATA"} => Answer(q).left = {}
<1>1. ServedReset \subseteq DOMAIN entries /\ ServedSince(q.serial) \subseteq DOMAIN entries
  BY DEF ServedReset, ServedSince
<1>2. \/ Answer(q) = Response(ServedReset)
      \/ Answer(q) = Response(ServedSince(q.serial))
      \/ Answer(q) = Idle
      \/ Answer(q) = [next |-> "CACHE_RESET", left |-> {}]
  BY DEF Answer
<1> QED
  BY <1>1, <1>2 DEF Response, Idle

LEMMA ReceivedTyped ==
  ASSUME Typed, NEW type, Receive(type)
  PROVE  /\ Head(toClient) \in PDUs
         /\ Head(toClient).type = type
         /\ toClient' \in Seq(PDUs)
         /\ type \in {"SERIAL_NOTIFY", "CACHE_RESPONSE", "END_OF_DATA"} =>
              Head(toClient).session \in Session
         /\ type = "END_OF_DATA" => Head(toClient).serial \in Serial
         /\ type = "PREFIX" => Head(toClient).roas \in SUBSET Roa
<1>1. toClient \in Seq(PDUs) /\ toClient # <<>>
  BY DEF Typed, TypeOK, Receive
<1>2. Head(toClient) \in PDUs /\ Tail(toClient) \in Seq(PDUs)
  BY <1>1
<1>3. Head(toClient).type = type /\ toClient' = Tail(toClient)
  BY DEF Receive
<1> QED
  BY <1>2, <1>3 DEF PDUs

PCs == {"reset", "first", "data", "lost", "renew", "renewing", "stopped", "crashed"}

LEMMA AfterTyped ==
  ASSUME Receiving, NEW type, NEW keepGoing
  PROVE  After(type, keepGoing) \in PCs
BY DEF Receiving, After, PCs

\* The client's record after a PDU.
ClientRecords ==
  [serial : Serial, session : Session \cup {0}, startup : BOOLEAN, changed : BOOLEAN,
   lastRecv : {p.type : p \in PDUs}, fd : BOOLEAN]

LEMMA CheckTyped ==
  ASSUME Typed, NEW s \in Session
  PROVE  checkSessionID(s) \in ClientRecords
<1>1. client \in ClientRecords
  BY DEF Typed, TypeOK, ClientRecords
<1> QED
  BY <1>1 DEF checkSessionID, ClientRecords

LEMMA LastRecvTyped ==
  ASSUME NEW s \in Session
  PROVE  {"SERIAL_NOTIFY", "CACHE_RESPONSE", "END_OF_DATA", "PREFIX", "CACHE_RESET"}
            \subseteq {p.type : p \in PDUs}
<1> DEFINE Of(type) == [type |-> type, session |-> s]
<1>1. Of("SERIAL_NOTIFY") \in PDUs /\ Of("CACHE_RESPONSE") \in PDUs
  BY DEF PDUs
<1>2. [type |-> "END_OF_DATA", session |-> s, serial |-> 0] \in PDUs
  BY Bounds DEF PDUs, Serial
<1>3. [type |-> "PREFIX", roas |-> {}, announced |-> FALSE] \in PDUs
  BY DEF PDUs
<1>4. [type |-> "CACHE_RESET"] \in PDUs
  BY DEF PDUs
<1> QED
  BY <1>1, <1>2, <1>3, <1>4

LEMMA EntryTyped ==
  ASSUME Typed
  PROVE  /\ entries \in Seq(Entries)
         /\ DOMAIN entries = 1 .. Len(entries)
         /\ Len(entries) \in Nat
         /\ \A i \in DOMAIN entries : entries[i] \in Entries
<1>1. entries \in Seq(Entries)
  BY DEF Typed, TypeOK, Entries
<1> QED
  BY <1>1

LEMMA CacheTypes ==
  ASSUME Typed, Server \/ Operator
  PROVE  Typed'
<1> USE DEF Typed
<1>1. CASE CacheAnswer
  <2>1. Head(toCache) \in Queries /\ toCache' \in Seq(Queries)
    BY <1>1 DEF TypeOK, CacheAnswer
  <2>2. sending' = Answer(Head(toCache)) /\ notify' \in BOOLEAN
    BY <1>1 DEF TypeOK, CacheAnswer
  <2> QED
    BY <1>1, <2>1, <2>2, AnswerTyped DEF TypeOK, CacheAnswer, Leftover, Responding
<1>2. CASE CacheSend
  <2>1. NextPDU \in PDUs /\ sending' = RestOfResponse /\ toClient' = Append(toClient, NextPDU)
    BY <1>2, NextPDUTyped DEF CacheSend
  <2>2. toClient' \in Seq(PDUs)
    BY <2>1 DEF TypeOK
  <2>3. /\ sending' \in [next : {"NOTHING", "CACHE_RESPONSE", "DATA", "CACHE_RESET"},
                         left : SUBSET (DOMAIN entries)]
        /\ sending'.next \notin {"CACHE_RESPONSE", "DATA"} => sending'.left = {}
    BY <1>2, <2>1, NextPDUTyped DEF CacheSend
  <2> QED
    BY <1>2, <2>2, <2>3 DEF TypeOK, CacheSend, Leftover, Responding
<1>3. CASE ServiceTimer
  <2>1. [type |-> "SERIAL_NOTIFY", session |-> session] \in PDUs
    BY DEF TypeOK, PDUs
  <2>2. toClient' \in Seq(PDUs)
    BY <1>3, <2>1 DEF TypeOK, ServiceTimer, Notified
  <2>3. UNCHANGED <<entries, maxSerial, expired, session, sending, restarts, link, toCache, losses,
                    pc, client, have, learned>>
    BY <1>3 DEF ServiceTimer
  <2>4. notify' \in BOOLEAN
    BY <1>3 DEF ServiceTimer
  <2> QED
    BY <2>2, <2>3, <2>4 DEF TypeOK, Leftover, Responding
<1>4. CASE processSessionID
  <2>1. session' \in Session
    <3>1. session \in 1 .. MaxSession /\ session < MaxSession /\ session' = session + 1
      BY <1>4 DEF TypeOK, processSessionID, Session
    <3> QED
      BY <3>1, Bounds DEF Session
  <2>2. [type |-> "SERIAL_NOTIFY", session |-> session + 1] \in PDUs
    BY <1>4, <2>1 DEF processSessionID, PDUs
  <2>3. toClient' \in Seq(PDUs)
    BY <1>4, <2>2 DEF TypeOK, processSessionID
  <2> QED
    BY <1>4, <2>1, <2>3 DEF TypeOK, processSessionID, Leftover, Responding
<1>5. ASSUME NEW r \in Roa, appendPrefixData(r) PROVE Typed'
  <2>1. maxSerial + 1 \in Serial
    <3>1. maxSerial < MaxSerial /\ maxSerial \in 0 .. MaxSerial
      BY <1>5 DEF TypeOK, appendPrefixData, Serial
    <3> QED
      BY <3>1, Bounds DEF Serial
  <2>2. Entry(r) \in Entries
    BY <2>1 DEF Entry, Entries
  <2>3. entries' \in Seq(Entries)
    BY <1>5, <2>2 DEF TypeOK, appendPrefixData, Entries
  <2>4. sending' = Idle /\ sending = Idle
    BY <1>5 DEF appendPrefixData
  <2> QED
    BY <1>5, <2>1, <2>3, <2>4
       DEF TypeOK, appendPrefixData, connection, Leftover, Responding, Idle, Entries
<1>6. ASSUME NEW i \in DOMAIN entries, processEntryRemoval(i) PROVE Typed'
  <2>1. maxSerial + 1 \in Serial
    <3>1. maxSerial < MaxSerial /\ maxSerial \in 0 .. MaxSerial
      BY <1>6 DEF TypeOK, processEntryRemoval, Serial
    <3> QED
      BY <3>1, Bounds DEF Serial
  <2>2. [entries[i] EXCEPT !.announced = FALSE, !.serial = maxSerial + 1] \in Entries
    BY <2>1, EntryTyped DEF Entries
  <2>3. RemoveAt(entries, i) \in Seq(Entries)
    BY Removed DEF TypeOK, Entries
  <2>4. entries' \in Seq(Entries)
    BY <1>6, <2>2, <2>3 DEF processEntryRemoval
  <2>5. sending' = Idle /\ sending = Idle
    BY <1>6 DEF processEntryRemoval
  <2> QED
    BY <1>6, <2>1, <2>4, <2>5
       DEF TypeOK, processEntryRemoval, connection, Leftover, Responding, Idle, Entries
<1>7. ASSUME NEW i \in DOMAIN entries, deleteExpiredEntries(i) PROVE Typed'
  <2>1. entries[i] \in Entries
    BY EntryTyped
  <2>2. entries' \in Seq(Entries)
    BY <1>7, Removed DEF TypeOK, Entries, deleteExpiredEntries
  <2>3. expired' \in [min : 0 .. Unlimited, max : Serial]
    <3>1. Serial \subseteq 0 .. Unlimited
      BY Bounds DEF Serial, Unlimited
    <3>2. entries[i].prev \in Serial /\ entries[i].serial \in Serial
      BY <2>1 DEF Entries
    <3>3. expired.min \in 0 .. Unlimited /\ expired.max \in Serial
      BY DEF TypeOK
    <3> QED
      BY <1>7, <3>1, <3>2, <3>3 DEF deleteExpiredEntries
  <2>4. sending' = Idle /\ sending = Idle
    BY <1>7 DEF deleteExpiredEntries
  <2> QED
    BY <1>7, <2>2, <2>3, <2>4
       DEF TypeOK, deleteExpiredEntries, connection, Leftover, Responding, Idle, Entries
<1> QED
  BY <1>1, <1>2, <1>3, <1>4, <1>5, <1>6, <1>7 DEF Server, Operator

LEMMA LossTypes ==
  ASSUME Typed, LoseConnection \/ RestartCache \/ \E succ \in BOOLEAN : Reconnect(succ)
  PROVE  Typed'
<1> USE DEF Typed
<1>1. CASE LoseConnection
  <2>1. losses' \in 0 .. MaxLosses
    BY <1>1, Bounds DEF TypeOK, LoseConnection
  <2>2. PICK n \in 0 .. Len(toClient), header \in BOOLEAN : toClient' = Rest(n, header)
    BY <1>1 DEF LoseConnection
  <2>3. toClient' \in Seq(PDUs)
    BY <2>2, RestTyped
  <2>4. link' \in BOOLEAN /\ sending' = Idle
    BY <1>1 DEF LoseConnection
  <2>5. toCache' \in Seq(Queries)
    BY <1>1 DEF LoseConnection
  <2>6. UNCHANGED <<entries, maxSerial, expired, session, notify, restarts, pc, client, have, learned>>
    BY <1>1 DEF LoseConnection
  <2> QED
    BY <2>1, <2>3, <2>4, <2>5, <2>6 DEF TypeOK, Leftover, Responding, Idle
<1>2. CASE RestartCache
  <2>1. restarts' \in 0 .. MaxRestarts /\ session' \in Session
    <3>1. MaxRestarts \in Nat /\ MaxSession \in Nat
      BY Bounds
    <3>2. /\ restarts \in 0 .. MaxRestarts /\ restarts < MaxRestarts /\ restarts' = restarts + 1
          /\ session \in 1 .. MaxSession /\ session < MaxSession /\ session' = session + 1
      BY <1>2 DEF TypeOK, RestartCache, Session
    <3> QED
      BY <3>1, <3>2 DEF Session
  <2>2. PICK n \in 0 .. Len(toClient), header \in BOOLEAN : toClient' = Rest(n, header)
    BY <1>2 DEF RestartCache
  <2>3. toClient' \in Seq(PDUs)
    BY <2>2, RestTyped
  <2>4. maxSerial' \in Serial /\ expired' \in [min : 0 .. Unlimited, max : Serial]
    BY <1>2, Bounds DEF RestartCache, Serial, Unlimited
  <2>5. entries' \in Seq(Entries) /\ toCache' \in Seq(Queries)
    BY <1>2 DEF RestartCache
  <2>6. sending' \in [next : {"NOTHING", "CACHE_RESPONSE", "DATA", "CACHE_RESET"},
                      left : SUBSET (DOMAIN entries')]
    BY <1>2 DEF RestartCache, Idle
  <2>7. Leftover'
    BY <1>2 DEF RestartCache, Leftover, Idle
  <2>8. notify' \in BOOLEAN /\ link' \in BOOLEAN
    BY <1>2 DEF RestartCache
  <2>9. UNCHANGED <<losses, pc, client, have, learned>>
    BY <1>2 DEF RestartCache
  <2> QED
    BY <2>1, <2>3, <2>4, <2>5, <2>6, <2>7, <2>8, <2>9 DEF TypeOK, Entries
<1>3. ASSUME NEW succ \in BOOLEAN, Reconnect(succ) PROVE Typed'
  <2>1. client' \in ClientRecords
    BY <1>3 DEF TypeOK, Reconnect, ClientRecords
  <2>2. pc' \in PCs /\ link' \in BOOLEAN /\ sending' = Idle
    BY <1>3 DEF Reconnect, PCs
  <2>3. toCache' \in Seq(Queries) /\ toClient' \in Seq(PDUs)
    <3>1. toCache' = <<>> /\ toClient' = <<>>
      BY <1>3 DEF Reconnect
    <3> QED
      BY <3>1
  <2>4. UNCHANGED <<entries, maxSerial, expired, session, notify, restarts, losses, have, learned>>
    BY <1>3 DEF Reconnect
  <2> QED
    BY <2>1, <2>2, <2>3, <2>4 DEF TypeOK, ClientRecords, PCs, Leftover, Responding, Idle
<1> QED
  BY <1>1, <1>2, <1>3

LEMMA QueryTyped ==
  ASSUME Typed, NEW q \in Queries, Query(q)
  PROVE  toCache' \in Seq(Queries)
BY DEF Typed, TypeOK, Query

LEMMA ReceiveTypes ==
  ASSUME Typed, ReceiveNotify \/ ReceiveResponse \/ ReceivePrefix \/ ReceiveEndOfData
  PROVE  Typed'
<1> DEFINE p == Head(toClient)
<1>0. /\ client \in ClientRecords /\ session \in Session
      /\ learned \in Session \cup {0, Foreign} /\ have \in [Roa -> Nat] /\ toCache \in Seq(Queries)
  BY DEF Typed, TypeOK, ClientRecords
<1>1. CASE ReceiveNotify
  <2>1. Receive("SERIAL_NOTIFY")
    BY <1>1 DEF ReceiveNotify
  <2>2. p.session \in Session /\ toClient' \in Seq(PDUs) /\ Receiving
    BY <2>1, ReceivedTyped DEF Receive
  <2>3. client' \in ClientRecords
    <3>1. client' = [checkSessionID(p.session) EXCEPT !.lastRecv = "SERIAL_NOTIFY"]
      BY <1>1 DEF ReceiveNotify
    <3>2. checkSessionID(p.session) \in ClientRecords
      BY <2>2, CheckTyped
    <3>3. "SERIAL_NOTIFY" \in {q.type : q \in PDUs}
      BY <2>2, LastRecvTyped
    <3> QED
      BY <3>1, <3>2, <3>3 DEF ClientRecords
  <2>4. toCache' \in Seq(Queries)
    <3>1. [type |-> "SERIAL_QUERY", session |-> p.session, serial |-> client.serial] \in Queries
      BY <1>0, <2>2 DEF Queries, ClientRecords
    <3> QED
      BY <1>0, <1>1, <3>1, QueryTyped DEF ReceiveNotify
  <2>5. learned' \in Session \cup {0, Foreign}
    BY <1>0, <1>1 DEF ReceiveNotify
  <2>6. pc' \in PCs
    BY <1>1, <2>2, AfterTyped DEF ReceiveNotify
  <2>7. UNCHANGED <<cache, link, losses, have>>
    BY <1>1 DEF ReceiveNotify
  <2> QED
    BY <2>2, <2>3, <2>4, <2>5, <2>6, <2>7
       DEF Typed, TypeOK, cache, PCs, ClientRecords, Leftover, Responding
<1>2. CASE ReceiveResponse
  <2>1. Receive("CACHE_RESPONSE")
    BY <1>2 DEF ReceiveResponse
  <2>2. p.session \in Session /\ toClient' \in Seq(PDUs) /\ Receiving
    BY <2>1, ReceivedTyped DEF Receive
  <2>3. client' \in ClientRecords
    <3>1. client' = [checkSessionID(p.session) EXCEPT !.lastRecv = "CACHE_RESPONSE"]
      BY <1>2 DEF ReceiveResponse
    <3>2. checkSessionID(p.session) \in ClientRecords
      BY <2>2, CheckTyped
    <3>3. "CACHE_RESPONSE" \in {q.type : q \in PDUs}
      BY <2>2, LastRecvTyped
    <3> QED
      BY <3>1, <3>2, <3>3 DEF ClientRecords
  <2>4. pc' \in PCs
    <3>1. pc' = After("CACHE_RESPONSE", TRUE) \/ pc' = "crashed"
      BY <1>2 DEF ReceiveResponse
    <3> QED
      BY <2>2, <3>1, AfterTyped DEF PCs
  <2>5. UNCHANGED <<cache, link, toCache, losses, have, learned>>
    BY <1>2 DEF ReceiveResponse
  <2> QED
    BY <2>2, <2>3, <2>4, <2>5 DEF Typed, TypeOK, cache, PCs, ClientRecords, Leftover, Responding
<1>3. CASE ReceivePrefix
  <2>1. Receive("PREFIX")
    BY <1>3 DEF ReceivePrefix
  <2>2. p.roas \in SUBSET Roa /\ toClient' \in Seq(PDUs) /\ Receiving
    BY <2>1, ReceivedTyped DEF Receive
  <2>3. client' \in ClientRecords
    <3>1. client' = [client EXCEPT !.lastRecv = "PREFIX"]
      BY <1>3 DEF ReceivePrefix
    <3>2. "PREFIX" \in {q.type : q \in PDUs}
      BY <1>0, LastRecvTyped
    <3> QED
      BY <1>0, <3>1, <3>2 DEF ClientRecords
  <2>4. have' \in [Roa -> Nat]
    <3>1. have' = [r \in Roa |->
                    IF r \notin p.roas THEN have[r]
                    ELSE IF p.announced THEN have[r] + 1
                    ELSE IF have[r] > 0 THEN have[r] - 1 ELSE 0]
      BY <1>3 DEF ReceivePrefix
    <3> HIDE DEF p
    <3>2. \A r \in Roa : have[r] \in Nat
      BY <1>0
    <3> QED
      BY <3>1, <3>2
  <2>5. pc' \in PCs
    BY <1>3, <2>2, AfterTyped DEF ReceivePrefix
  <2>6. UNCHANGED <<cache, link, toCache, losses, learned>>
    BY <1>3 DEF ReceivePrefix
  <2> QED
    BY <2>2, <2>3, <2>4, <2>5, <2>6 DEF Typed, TypeOK, cache, PCs, ClientRecords, Leftover, Responding
<1>4. CASE ReceiveEndOfData
  <2>1. Receive("END_OF_DATA")
    BY <1>4 DEF ReceiveEndOfData
  <2>2. p.session \in Session /\ p.serial \in Serial /\ toClient' \in Seq(PDUs) /\ Receiving
    BY <2>1, ReceivedTyped DEF Receive
  <2>3. client' \in ClientRecords
    <3>1. client' = [checkSessionID(p.session) EXCEPT
                       !.serial = IF SessionOK(p.session) THEN p.serial ELSE @,
                       !.lastRecv = "END_OF_DATA"]
      BY <1>4 DEF ReceiveEndOfData
    <3>2. checkSessionID(p.session) \in ClientRecords
      BY <2>2, CheckTyped
    <3>3. "END_OF_DATA" \in {q.type : q \in PDUs}
      BY <2>2, LastRecvTyped
    <3> QED
      BY <2>2, <3>1, <3>2, <3>3 DEF ClientRecords
  <2>4. learned' \in Session \cup {0, Foreign}
    BY <1>0, <1>4, <2>2 DEF ReceiveEndOfData
  <2>5. pc' \in PCs
    BY <1>4, <2>2, AfterTyped DEF ReceiveEndOfData
  <2>6. UNCHANGED <<cache, link, toCache, losses, have>>
    BY <1>4 DEF ReceiveEndOfData
  <2> QED
    BY <2>2, <2>3, <2>4, <2>5, <2>6 DEF Typed, TypeOK, cache, PCs, ClientRecords, Leftover, Responding
<1> QED
  BY <1>1, <1>2, <1>3, <1>4

LEMMA OtherClientTypes ==
  ASSUME Typed, StartQuery \/ RenewQuery \/ ReceiveReset \/ ReceiveNothing
  PROVE  Typed'
<1>0. /\ client \in ClientRecords /\ session \in Session /\ toCache \in Seq(Queries)
      /\ [type |-> "RESET_QUERY"] \in Queries
  BY DEF Typed, TypeOK, ClientRecords, Queries
<1>1. ASSUME NEW from, NEW sent \in PCs, NEW failed \in PCs, SendResetQuery(from, sent, failed)
      PROVE  Typed'
  <2>1. pc' \in PCs
    BY <1>1 DEF SendResetQuery
  <2>2. toCache' \in Seq(Queries)
    BY <1>0, <1>1, QueryTyped DEF SendResetQuery
  <2>3. UNCHANGED <<cache, link, toClient, losses, client, have, learned>>
    BY <1>1 DEF SendResetQuery
  <2> QED
    BY <2>1, <2>2, <2>3 DEF Typed, TypeOK, cache, PCs, Leftover, Responding
<1>2. CASE StartQuery \/ RenewQuery
  BY <1>1, <1>2 DEF StartQuery, RenewQuery, PCs
<1>3. CASE ReceiveReset
  <2>1. Receive("CACHE_RESET")
    BY <1>3 DEF ReceiveReset
  <2>2. toClient' \in Seq(PDUs) /\ Receiving
    BY <2>1, ReceivedTyped DEF Receive
  <2>3. client' \in ClientRecords
    <3>1. client' = [client EXCEPT !.lastRecv = "CACHE_RESET"]
      BY <1>3 DEF ReceiveReset
    <3>2. "CACHE_RESET" \in {q.type : q \in PDUs}
      BY <1>0, LastRecvTyped
    <3> QED
      BY <1>0, <3>1, <3>2 DEF ClientRecords
  <2>4. toCache' \in Seq(Queries)
    BY <1>0, <1>3, QueryTyped DEF ReceiveReset
  <2>5. pc' \in PCs
    BY <1>3, <2>2, AfterTyped DEF ReceiveReset
  <2>6. UNCHANGED <<cache, link, losses, have, learned>>
    BY <1>3 DEF ReceiveReset
  <2> QED
    BY <2>2, <2>3, <2>4, <2>5, <2>6 DEF Typed, TypeOK, cache, PCs, ClientRecords, Leftover, Responding
<1>4. CASE ReceiveNothing
  <2>1. client' \in ClientRecords
    BY <1>0, <1>4 DEF ReceiveNothing, ClientRecords
  <2>2. pc' \in PCs
    BY <1>4, AfterTyped DEF ReceiveNothing
  <2>3. UNCHANGED <<cache, connection, have, learned>>
    BY <1>4 DEF ReceiveNothing
  <2> QED
    BY <2>1, <2>2, <2>3 DEF Typed, TypeOK, cache, connection, PCs, ClientRecords, Leftover, Responding
<1> QED
  BY <1>2, <1>3, <1>4

LEMMA InitTypes ==
  ASSUME Init
  PROVE  Typed
<1>1. session \in Session /\ maxSerial \in Serial /\ expired \in [min : 0 .. Unlimited, max : Serial]
  BY Bounds DEF Init, Session, Serial, Unlimited
<1>2. entries \in Seq(Entries) /\ toCache \in Seq(Queries) /\ toClient \in Seq(PDUs)
  BY DEF Init
<1>3. /\ sending \in [next : {"NOTHING", "CACHE_RESPONSE", "DATA", "CACHE_RESET"},
                      left : SUBSET (DOMAIN entries)]
      /\ Leftover
  BY DEF Init, Idle, Leftover
<1>4. client \in ClientRecords
  <2>1. "SERIAL_NOTIFY" \in {q.type : q \in PDUs}
    BY <1>1, LastRecvTyped
  <2>2. 0 \in Serial
    BY Bounds DEF Serial
  <2> QED
    BY <2>1, <2>2 DEF Init, ClientRecords
<1>5. have \in [Roa -> Nat] /\ learned \in Session \cup {0, Foreign} /\ pc \in PCs
  BY DEF Init, PCs
<1>6. restarts \in 0 .. MaxRestarts /\ losses \in 0 .. MaxLosses
  BY Bounds DEF Init
<1>7. notify \in BOOLEAN /\ link \in BOOLEAN
  BY DEF Init
<1> QED
  BY <1>1, <1>2, <1>3, <1>4, <1>5, <1>6, <1>7 DEF Typed, TypeOK, Entries, ClientRecords, PCs

LEMMA NextTypes ==
  ASSUME Typed, [Next]_vars
  PROVE  Typed'
<1>1. CASE UNCHANGED vars
  BY <1>1 DEF Typed, TypeOK, vars, cache, connection, Leftover, Responding
<1>2. CASE Server \/ Operator
  BY <1>2, CacheTypes
<1>3. CASE Fault \/ Reconnect(TRUE)
  BY <1>3, LossTypes DEF Fault
<1>4. CASE Client
  BY <1>4, ReceiveTypes, OtherClientTypes DEF Client
<1> QED
  BY <1>1, <1>2, <1>3, <1>4 DEF Next

\* The state stays within its types, the response being sent within the list
\* of entries, and a ROA's count at zero or above.
THEOREM TypesCorrect == Spec => []TypeOK
<1>1. Init => Typed
  BY InitTypes
<1>2. Typed /\ [Next]_vars => Typed'
  BY NextTypes
<1>3. Typed => TypeOK
  BY DEF Typed
<1> QED
  BY <1>1, <1>2, <1>3, PTL DEF Spec

-----------------------------------------------------------------------------
(* The cache's list of entries and what is left of a response.             *)

InForce == {i \in DOMAIN entries : entries[i].announced}

\* The entries are sorted by serial.  An announced one is the last one of its
\* ROA, a withdrawn one knows the serial of its announcement.
Ordered ==
  /\ \A i \in DOMAIN entries : /\ entries[i].serial \in 1 .. maxSerial
                               /\ entries[i].announced <=> entries[i].serial = entries[i].prev
  /\ \A i, j \in DOMAIN entries : i < j => entries[i].serial < entries[j].serial
  /\ \A i \in InForce, j \in DOMAIN entries : entries[i].roa = entries[j].roa => j <= i

\* A response that has yet to withdraw a ROA has yet to announce it again.
LeftClosed ==
  \A i \in InForce, j \in sending.left : entries[i].roa = entries[j].roa => i \in sending.left

Severed == ~link => toCache = <<>> /\ sending = Idle

Listed == Ordered /\ LeftClosed /\ Severed

LEMMA InForceFacts ==
  ASSUME Typed, Ordered
  PROVE  /\ maxSerial \in Nat
         /\ \A i \in DOMAIN entries :
              /\ entries[i].serial \in Nat /\ entries[i].prev \in Nat
              /\ entries[i].serial > 0 /\ entries[i].serial <= maxSerial
              /\ entries[i].announced \in BOOLEAN /\ entries[i].roa \in Roa
         /\ InForce \subseteq DOMAIN entries
         /\ DOMAIN entries = 1 .. Len(entries) /\ Len(entries) \in Nat
<1>1. Serial \subseteq Nat
  BY Bounds DEF Serial
<1>2. maxSerial \in Nat
  BY <1>1 DEF Typed, TypeOK
<1>3. ASSUME NEW i \in DOMAIN entries
      PROVE  /\ entries[i].serial \in Nat /\ entries[i].prev \in Nat
             /\ entries[i].serial > 0 /\ entries[i].serial <= maxSerial
             /\ entries[i].announced \in BOOLEAN /\ entries[i].roa \in Roa
  <2>1. entries[i] \in Entries
    BY EntryTyped
  <2>2. entries[i].serial \in 1 .. maxSerial
    BY DEF Ordered
  <2>3. /\ entries[i].serial \in Nat /\ entries[i].prev \in Nat
        /\ entries[i].announced \in BOOLEAN /\ entries[i].roa \in Roa
    BY <1>1, <2>1 DEF Entries
  <2> QED
    BY <1>2, <2>2, <2>3
<1> QED
  BY <1>2, <1>3, EntryTyped DEF InForce

LEMMA AnswerListed ==
  ASSUME Typed, Listed, CacheAnswer
  PROVE  Listed'
<1> DEFINE q == Head(toCache)
<1>1. UNCHANGED <<entries, maxSerial, link>> /\ sending' = Answer(q) /\ link
  <2>1. link \in BOOLEAN
    BY DEF Typed, TypeOK
  <2> QED
    BY <2>1 DEF CacheAnswer, Listed, Severed
<1>2. Ordered' /\ Severed'
  BY <1>1 DEF Listed, Ordered, Severed, InForce
<1>3. CASE Answer(q) = Response(ServedReset)
  <2>1. sending'.left = InForce /\ InForce' = InForce
    BY <1>1, <1>3 DEF Response, ServedReset, InForce
  <2>2. LeftClosed'
    BY <2>1 DEF LeftClosed
  <2> QED
    BY <1>2, <2>2 DEF Listed
<1>4. CASE Answer(q) = Response(ServedSince(q.serial)) /\ q \in Queries /\ q.type = "SERIAL_QUERY"
  <2>0. q.serial \in Nat
    BY <1>4, Bounds DEF Queries, Serial
  <2>1. sending'.left = ServedSince(q.serial) /\ InForce' = InForce
    BY <1>1, <1>4 DEF Response, InForce
  <2>2. ASSUME NEW i \in InForce, NEW j \in ServedSince(q.serial), entries[i].roa = entries[j].roa
        PROVE  i \in ServedSince(q.serial)
    <3>1. j \in DOMAIN entries /\ i \in DOMAIN entries /\ entries[j].serial > q.serial
      BY DEF ServedSince, InForce
    <3>2. j <= i
      BY <2>2, <3>1 DEF Listed, Ordered
    <3>3. entries[j].serial <= entries[i].serial
      <4>1. j = i \/ j < i
        BY <3>1, <3>2, InForceFacts DEF Listed
      <4>2. j < i => entries[j].serial < entries[i].serial
        BY <3>1 DEF Listed, Ordered
      <4>3. entries[i].serial \in Nat /\ entries[j].serial \in Nat
        BY <3>1, InForceFacts DEF Listed
      <4> QED
        BY <4>1, <4>2, <4>3
    <3>4. entries[i].serial > q.serial
      BY <2>0, <3>1, <3>3, InForceFacts DEF Listed
    <3>5. entries[i].serial = entries[i].prev
      BY <3>1 DEF Listed, Ordered, InForce
    <3> QED
      BY <3>1, <3>4, <3>5 DEF ServedSince
  <2>3. LeftClosed'
    BY <1>1, <2>1, <2>2 DEF LeftClosed
  <2> QED
    BY <1>2, <2>3 DEF Listed
<1>5. CASE sending'.left = {}
  BY <1>2, <1>5 DEF Listed, LeftClosed
<1>6. q \in Queries
  BY DEF CacheAnswer, Typed, TypeOK
<1>7. q.type = "RESET_QUERY" \/ q.type = "SERIAL_QUERY"
  BY <1>6 DEF Queries
<1> QED
  BY <1>1, <1>2, <1>3, <1>4, <1>5, <1>6, <1>7 DEF Answer, Idle, Listed

LEMMA SendListed ==
  ASSUME Typed, Listed, CacheSend
  PROVE  Listed'
<1>1. UNCHANGED <<entries, maxSerial, link, toCache>> /\ sending' = RestOfResponse /\ sending # Idle
  BY DEF CacheSend
<1>2. link /\ link'
  <2>1. link \in BOOLEAN
    BY DEF Typed, TypeOK
  <2> QED
    BY <1>1, <2>1 DEF Listed, Severed
<1>3. Ordered' /\ Severed' /\ InForce' = InForce
  BY <1>1, <1>2 DEF Listed, Ordered, Severed, InForce
<1>4. CASE sending.next = "CACHE_RESPONSE"
  <2>1. sending' = [sending EXCEPT !.next = "DATA"]
    BY <1>1, <1>4 DEF RestOfResponse
  <2>2. sending'.left = sending.left
    BY <2>1 DEF Typed, TypeOK
  <2> QED
    BY <1>1, <1>3, <2>2 DEF Listed, LeftClosed
<1>5. CASE sending.next = "DATA" /\ sending.left # {}
  <2> DEFINE m == Min(sending.left)
  <2>1. sending' = [sending EXCEPT !.left = @ \ {Min(@)}]
    BY <1>1, <1>5 DEF RestOfResponse
  <2>2. sending'.left = sending.left \ {m}
    BY <2>1 DEF Typed, TypeOK
  <2>3. /\ sending.left \subseteq DOMAIN entries /\ DOMAIN entries = 1 .. Len(entries)
        /\ Len(entries) \in Nat
    BY EntryTyped DEF Typed, TypeOK
  <2>4. m \in sending.left /\ \A n \in sending.left : m <= n
    BY <1>5, <2>3, LeastPlace
  <2> HIDE DEF m
  <2>5. ASSUME NEW i \in InForce, NEW j \in sending.left \ {m}, entries[i].roa = entries[j].roa
        PROVE  i \in sending.left \ {m}
    <3>1. i \in sending.left
      BY <2>5 DEF Listed, LeftClosed
    <3>2. j <= i /\ m <= j /\ j # m
      BY <2>3, <2>4, <2>5 DEF Listed, Ordered
    <3> QED
      BY <2>3, <2>4, <3>1, <3>2
  <2> QED
    BY <1>1, <1>3, <2>2, <2>5 DEF Listed, LeftClosed
<1>6. CASE sending'.left = {}
  BY <1>3, <1>6 DEF Listed, LeftClosed
<1> QED
  BY <1>1, <1>4, <1>5, <1>6 DEF RestOfResponse, Idle

\* The place that the k-th element had before the i-th was removed.
Old(i, k) == IF k < i THEN k ELSE k + 1

LEMMA OldPlaces ==
  ASSUME Typed, NEW i \in DOMAIN entries
  PROVE  /\ RemoveAt(entries, i) \in Seq(Entries)
         /\ Len(RemoveAt(entries, i)) = Len(entries) - 1
         /\ \A k \in 1 .. Len(entries) - 1 :
              /\ RemoveAt(entries, i)[k] = entries[Old(i, k)]
              /\ Old(i, k) \in DOMAIN entries /\ Old(i, k) # i
              /\ \A l \in 1 .. Len(entries) - 1 : k < l <=> Old(i, k) < Old(i, l)
<1>1. /\ entries \in Seq(Entries) /\ DOMAIN entries = 1 .. Len(entries) /\ Len(entries) \in Nat
      /\ i \in 1 .. Len(entries)
  BY EntryTyped
<1>2. /\ RemoveAt(entries, i) \in Seq(Entries)
      /\ Len(RemoveAt(entries, i)) = Len(entries) - 1
      /\ \A k \in 1 .. Len(entries) - 1 :
           RemoveAt(entries, i)[k] = entries[IF k < i THEN k ELSE k + 1]
  BY <1>1, Removed
<1>3. ASSUME NEW k \in 1 .. Len(entries) - 1
      PROVE  /\ Old(i, k) \in DOMAIN entries /\ Old(i, k) # i
             /\ \A l \in 1 .. Len(entries) - 1 : k < l <=> Old(i, k) < Old(i, l)
  BY <1>1 DEF Old
<1> QED
  BY <1>2, <1>3 DEF Old

\* Every entry in force is one that was in force, or is newer than all there were.
Inherits ==
  \A k \in InForce' :
    \/ \E j \in InForce : entries'[k] = entries[j]
    \/ entries'[k].serial > maxSerial

ListChanged ==
  /\ sending = Idle /\ sending' = Idle
  /\ maxSerial <= maxSerial'
  /\ Inherits
  /\ UNCHANGED <<session, connection, pc, client, have, learned>>

LEMMA AppendListed ==
  ASSUME Typed, Listed, NEW r \in Roa, appendPrefixData(r)
  PROVE  Listed' /\ ListChanged
<1> DEFINE n == Len(entries)
<1>1. /\ Absent(r) /\ sending = Idle /\ sending' = Idle /\ maxSerial' = maxSerial + 1
      /\ entries' = Append(entries, Entry(r))
      /\ UNCHANGED <<session, connection, pc, client, have, learned>>
  BY DEF appendPrefixData
<1>2. /\ maxSerial \in Nat /\ n \in Nat /\ DOMAIN entries = 1 .. n /\ entries \in Seq(Entries)
  BY InForceFacts, EntryTyped DEF Listed
<1>3. /\ DOMAIN entries' = 1 .. n + 1
      /\ \A k \in 1 .. n : entries'[k] = entries[k]
      /\ entries'[n + 1] = Entry(r)
  BY <1>1, <1>2
<1>4. /\ Entry(r).serial = maxSerial + 1 /\ Entry(r).prev = maxSerial + 1
      /\ Entry(r).announced = TRUE /\ Entry(r).roa = r
  BY DEF Entry
<1>5. InForce' = InForce \cup {n + 1}
  BY <1>2, <1>3, <1>4 DEF InForce
<1>6. Ordered'
  <2>1. ASSUME NEW i \in DOMAIN entries'
        PROVE  /\ entries'[i].serial \in 1 .. maxSerial'
               /\ entries'[i].announced <=> entries'[i].serial = entries'[i].prev
    <3>1. CASE i = n + 1
      BY <1>1, <1>2, <1>3, <1>4, <3>1
    <3>2. CASE i \in 1 .. n
      BY <1>1, <1>2, <1>3, <3>2 DEF Listed, Ordered
    <3> QED
      BY <1>2, <1>3, <3>1, <3>2
  <2>2. ASSUME NEW i \in DOMAIN entries', NEW j \in DOMAIN entries', i < j
        PROVE  entries'[i].serial < entries'[j].serial
    <3>1. i \in 1 .. n
      BY <1>2, <1>3, <2>2
    <3>2. CASE j = n + 1
      <4>1. entries[i].serial \in Nat /\ entries[i].serial <= maxSerial
        BY <1>2, <3>1, InForceFacts DEF Listed
      <4> QED
        BY <1>2, <1>3, <1>4, <3>1, <3>2, <4>1
    <3>3. CASE j \in 1 .. n
      BY <1>2, <1>3, <2>2, <3>1, <3>3 DEF Listed, Ordered
    <3> QED
      BY <1>2, <1>3, <3>2, <3>3
  <2>3. ASSUME NEW i \in InForce', NEW j \in DOMAIN entries', entries'[i].roa = entries'[j].roa
        PROVE  j <= i
    <3>1. CASE i = n + 1
      BY <1>2, <1>3, <3>1
    <3>2. CASE i \in InForce /\ j = n + 1
      <4>1. i \in 1 .. n /\ entries[i].announced
        BY <1>2, <3>2 DEF InForce
      <4>2. entries[i].roa # r
        BY <1>1, <1>2, <4>1 DEF Absent
      <4> QED
        BY <1>3, <1>4, <2>3, <3>2, <4>1, <4>2
    <3>3. CASE i \in InForce /\ j \in 1 .. n
      <4>1. i \in 1 .. n
        BY <1>2, <3>3 DEF InForce
      <4> QED
        BY <1>2, <1>3, <2>3, <3>3, <4>1 DEF Listed, Ordered
    <3> QED
      BY <1>2, <1>3, <1>5, <3>1, <3>2, <3>3
  <2> QED
    BY <2>1, <2>2, <2>3 DEF Ordered
<1>7. Inherits
  <2>1. ASSUME NEW k \in InForce' PROVE \/ \E j \in InForce : entries'[k] = entries[j]
                                        \/ entries'[k].serial > maxSerial
    BY <1>2, <1>3, <1>4, <1>5 DEF InForce
  <2> QED
    BY <2>1 DEF Inherits
<1>8. LeftClosed' /\ Severed'
  BY <1>1 DEF LeftClosed, Severed, Listed, connection, Idle
<1>9. maxSerial <= maxSerial'
  BY <1>1, <1>2
<1> QED
  BY <1>1, <1>6, <1>7, <1>8, <1>9 DEF Listed, ListChanged

\* The entries that stay when one is removed.
LEMMA RestOrdered ==
  ASSUME Typed, Listed, NEW i \in DOMAIN entries, NEW k \in 1 .. Len(entries) - 1
  PROVE  LET t == RemoveAt(entries, i)
         IN /\ t[k].serial \in 1 .. maxSerial
            /\ t[k].announced <=> t[k].serial = t[k].prev
            /\ t[k].announced => \E j \in InForce : t[k] = entries[j]
            /\ \A l \in 1 .. Len(entries) - 1 :
                 /\ k < l => t[k].serial < t[l].serial
                 /\ t[k].announced /\ t[k].roa = t[l].roa => l <= k
<1> DEFINE t == RemoveAt(entries, i)
<1>1. t[k] = entries[Old(i, k)] /\ Old(i, k) \in DOMAIN entries
  BY OldPlaces
<1>2. /\ t[k].serial \in 1 .. maxSerial
      /\ t[k].announced <=> t[k].serial = t[k].prev
      /\ t[k].announced => \E j \in InForce : t[k] = entries[j]
  BY <1>1 DEF Listed, Ordered, InForce
<1>3. ASSUME NEW l \in 1 .. Len(entries) - 1
      PROVE  /\ k < l => t[k].serial < t[l].serial
             /\ t[k].announced /\ t[k].roa = t[l].roa => l <= k
  <2>1. /\ t[l] = entries[Old(i, l)] /\ Old(i, l) \in DOMAIN entries
        /\ k < l <=> Old(i, k) < Old(i, l)
    BY OldPlaces
  <2>2. k < l => t[k].serial < t[l].serial
    BY <1>1, <2>1 DEF Listed, Ordered
  <2>3. ASSUME t[k].announced, t[k].roa = t[l].roa PROVE l <= k
    <3>1. Old(i, k) \in InForce
      BY <1>1, <2>3 DEF InForce
    <3>2. Old(i, l) <= Old(i, k)
      BY <1>1, <2>1, <2>3, <3>1 DEF Listed, Ordered
    <3>3. DOMAIN entries = 1 .. Len(entries) /\ Len(entries) \in Nat
      BY EntryTyped
    <3> QED
      BY <1>1, <2>1, <3>2, <3>3
  <2> QED
    BY <2>2, <2>3
<1> QED
  BY <1>2, <1>3

LEMMA RemovalListed ==
  ASSUME Typed, Listed, NEW i \in DOMAIN entries, processEntryRemoval(i)
  PROVE  Listed' /\ ListChanged
<1> DEFINE n == Len(entries)
           t == RemoveAt(entries, i)
           w == [entries[i] EXCEPT !.announced = FALSE, !.serial = maxSerial + 1]
<1>1. /\ sending = Idle /\ sending' = Idle /\ maxSerial' = maxSerial + 1
      /\ entries' = Append(t, w)
      /\ UNCHANGED <<session, connection, pc, client, have, learned>>
  BY DEF processEntryRemoval
<1>2. /\ maxSerial \in Nat /\ n \in Nat /\ DOMAIN entries = 1 .. n /\ i \in 1 .. n
  BY InForceFacts, EntryTyped DEF Listed
<1>3. t \in Seq(Entries) /\ Len(t) = n - 1
  BY OldPlaces
<1>4. /\ w.serial = maxSerial + 1 /\ w.announced = FALSE /\ w.prev = entries[i].prev /\ w.roa = entries[i].roa
      /\ entries[i].prev <= maxSerial /\ entries[i].prev \in Nat /\ entries[i].announced
  <2>1. entries[i] \in Entries
    BY EntryTyped
  <2>2. entries[i].serial = entries[i].prev
    BY DEF processEntryRemoval
  <2>3. entries[i].serial \in Nat /\ entries[i].serial <= maxSerial
    BY InForceFacts DEF Listed
  <2> QED
    BY <2>1, <2>2, <2>3 DEF Entries, Listed, Ordered
<1>5. \A k \in 1 .. n - 1 : t[k] = entries[Old(i, k)] /\ Old(i, k) \in 1 .. n /\ Old(i, k) # i
  BY <1>2, OldPlaces
<1>6. /\ \A k \in 1 .. n - 1 : /\ t[k].serial \in 1 .. maxSerial
                               /\ t[k].announced <=> t[k].serial = t[k].prev
                               /\ t[k].announced => \E j \in InForce : t[k] = entries[j]
      /\ \A k, l \in 1 .. n - 1 : /\ k < l => t[k].serial < t[l].serial
                                  /\ t[k].announced /\ t[k].roa = t[l].roa => l <= k
  BY RestOrdered
<1>7. i \in InForce
  BY <1>4 DEF InForce
<1>8. ASSUME NEW k \in 1 .. n - 1, t[k].announced PROVE t[k].roa # w.roa
  <2>1. /\ Old(i, k) \in InForce /\ t[k] = entries[Old(i, k)] /\ Old(i, k) # i
        /\ Old(i, k) \in DOMAIN entries /\ Old(i, k) \in 1 .. n
    BY <1>2, <1>5, <1>8 DEF InForce
  <2>2. SUFFICES ASSUME entries[Old(i, k)].roa = entries[i].roa PROVE FALSE
    BY <1>4, <2>1
  <2>3. i <= Old(i, k) /\ Old(i, k) <= i
    BY <1>7, <2>1, <2>2 DEF Listed, Ordered
  <2> QED
    BY <1>2, <2>1, <2>3
<1>9. w \in Entries
  <2>1. entries[i] \in Entries
    BY EntryTyped
  <2>2. maxSerial + 1 \in Serial
    <3>1. maxSerial < MaxSerial
      BY DEF processEntryRemoval
    <3> QED
      BY <1>2, <3>1, Bounds DEF Serial
  <2> QED
    BY <2>1, <2>2 DEF Entries
<1> HIDE DEF t, w
<1>10. /\ DOMAIN entries' = 1 .. n
       /\ \A k \in 1 .. n - 1 : entries'[k] = t[k]
       /\ entries'[n] = w
  <2>1. w \in Entries
    BY <1>9
  <2>2. /\ Len(Append(t, w)) = Len(t) + 1
        /\ DOMAIN Append(t, w) = 1 .. Len(t) + 1
        /\ \A k \in 1 .. Len(t) : Append(t, w)[k] = t[k]
        /\ Append(t, w)[Len(t) + 1] = w
    BY <1>3, <2>1
  <2>3. Len(t) + 1 = n
    BY <1>2, <1>3
  <2> QED
    BY <1>1, <1>3, <2>2, <2>3
<1>11. Ordered'
  <2>1. ASSUME NEW k \in DOMAIN entries'
        PROVE  /\ entries'[k].serial \in 1 .. maxSerial'
               /\ entries'[k].announced <=> entries'[k].serial = entries'[k].prev
    <3>1. CASE k = n
      <4>1. w.serial # w.prev /\ w.serial \in 1 .. maxSerial'
        BY <1>1, <1>2, <1>4
      <4>2. entries'[k] = w
        BY <1>10, <3>1
      <4>3. w.announced <=> w.serial = w.prev
        BY <1>4, <4>1
      <4> QED
        BY <4>1, <4>2, <4>3
    <3>2. CASE k \in 1 .. n - 1
      <4>1. t[k].serial \in 1 .. maxSerial'
        BY <1>1, <1>2, <1>6, <3>2
      <4> QED
        BY <1>6, <1>10, <3>2, <4>1
    <3> QED
      BY <1>2, <1>10, <3>1, <3>2
  <2>2. ASSUME NEW k \in DOMAIN entries', NEW l \in DOMAIN entries', k < l
        PROVE  entries'[k].serial < entries'[l].serial
    <3>1. k \in 1 .. n - 1
      BY <1>2, <1>10, <2>2
    <3>2. CASE l = n
      BY <1>2, <1>4, <1>6, <1>10, <3>1, <3>2
    <3>3. CASE l \in 1 .. n - 1
      BY <1>6, <1>10, <2>2, <3>1, <3>3
    <3> QED
      BY <1>2, <1>10, <3>2, <3>3
  <2>3. ASSUME NEW k \in InForce', NEW l \in DOMAIN entries', entries'[k].roa = entries'[l].roa
        PROVE  l <= k
    <3>1. k \in 1 .. n /\ entries'[k].announced
      BY <1>10 DEF InForce
    <3>2. k # n
      BY <1>4, <1>10, <3>1
    <3>3. k \in 1 .. n - 1
      <4>1. k \in 1 .. n /\ n \in Nat
        BY <1>2, <3>1
      <4> HIDE DEF n
      <4> QED
        BY <3>2, <4>1
    <3>4. l # n
      BY <1>8, <1>10, <2>3, <3>1, <3>3
    <3> QED
      BY <1>2, <1>6, <1>10, <2>3, <3>1, <3>3, <3>4
  <2> QED
    BY <2>1, <2>2, <2>3 DEF Ordered
<1>12. Inherits
  <2>1. ASSUME NEW k \in InForce' PROVE \E j \in InForce : entries'[k] = entries[j]
    <3>1. k \in 1 .. n /\ entries'[k].announced
      BY <1>10 DEF InForce
    <3>2. k # n
      BY <1>4, <1>10, <3>1
    <3>3. k \in 1 .. n - 1
      <4>1. k \in 1 .. n /\ n \in Nat
        BY <1>2, <3>1
      <4> HIDE DEF n
      <4> QED
        BY <3>2, <4>1
    <3> QED
      BY <1>6, <1>10, <3>1, <3>3
  <2> QED
    BY <2>1 DEF Inherits
<1>13. LeftClosed' /\ Severed'
  BY <1>1 DEF LeftClosed, Severed, Listed, connection, Idle
<1>14. maxSerial <= maxSerial'
  BY <1>1, <1>2
<1> QED
  BY <1>1, <1>11, <1>12, <1>13, <1>14 DEF Listed, ListChanged

LEMMA ExpiryListed ==
  ASSUME Typed, Listed, NEW i \in DOMAIN entries, deleteExpiredEntries(i)
  PROVE  Listed' /\ ListChanged
<1> DEFINE n == Len(entries)
           t == RemoveAt(entries, i)
<1>1. /\ sending = Idle /\ sending' = Idle /\ maxSerial' = maxSerial
      /\ entries' = t
      /\ UNCHANGED <<session, connection, pc, client, have, learned>>
  BY DEF deleteExpiredEntries
<1>2. /\ maxSerial \in Nat /\ n \in Nat /\ i \in 1 .. n
  BY InForceFacts, EntryTyped DEF Listed
<1>3. t \in Seq(Entries) /\ Len(t) = n - 1
  BY OldPlaces
<1>4. /\ \A k \in 1 .. n - 1 : /\ t[k].serial \in 1 .. maxSerial
                               /\ t[k].announced <=> t[k].serial = t[k].prev
                               /\ t[k].announced => \E j \in InForce : t[k] = entries[j]
      /\ \A k, l \in 1 .. n - 1 : /\ k < l => t[k].serial < t[l].serial
                                  /\ t[k].announced /\ t[k].roa = t[l].roa => l <= k
  BY RestOrdered
<1> HIDE DEF t
<1>5. DOMAIN entries' = 1 .. n - 1
  BY <1>1, <1>2, <1>3
<1>6. InForce' = {k \in 1 .. n - 1 : t[k].announced}
  BY <1>1, <1>5 DEF InForce
<1>7. Ordered'
  BY <1>1, <1>4, <1>5, <1>6 DEF Ordered
<1>8. Inherits
  BY <1>1, <1>4, <1>6 DEF Inherits
<1>9. LeftClosed' /\ Severed'
  BY <1>1 DEF LeftClosed, Severed, Listed, connection, Idle
<1> QED
  BY <1>1, <1>2, <1>7, <1>8, <1>9 DEF Listed, ListChanged

\* The client leaves the cache alone, and a lost connection takes no query.
ClientStep ==
  /\ UNCHANGED <<cache, link, losses>>
  /\ toCache' = toCache \/ \E q \in Queries : Query(q)

LEMMA ClientSteps ==
  ASSUME Typed, Client
  PROVE  ClientStep
<1>1. client.serial \in Serial /\ [type |-> "RESET_QUERY"] \in Queries
  BY DEF Typed, TypeOK, Queries
<1>2. CASE ReceiveNotify
  <2>1. Head(toClient).session \in Session
    BY <1>2, ReceivedTyped DEF ReceiveNotify
  <2>2. [type |-> "SERIAL_QUERY", session |-> Head(toClient).session, serial |-> client.serial] \in Queries
    BY <1>1, <2>1 DEF Queries
  <2> QED
    BY <1>2, <2>2 DEF ReceiveNotify, ClientStep
<1>3. CASE ReceiveResponse \/ ReceivePrefix \/ ReceiveEndOfData
  BY <1>3 DEF ReceiveResponse, ReceivePrefix, ReceiveEndOfData, ClientStep
<1>4. CASE ReceiveReset
  BY <1>1, <1>4 DEF ReceiveReset, ClientStep
<1>5. CASE ReceiveNothing
  BY <1>5 DEF ReceiveNothing, connection, ClientStep
<1>6. CASE StartQuery \/ RenewQuery
  BY <1>1, <1>6 DEF StartQuery, RenewQuery, SendResetQuery, ClientStep
<1> QED
  BY <1>2, <1>3, <1>4, <1>5, <1>6 DEF Client

LEMMA ClientListed ==
  ASSUME Listed, ClientStep
  PROVE  Listed'
<1>1. UNCHANGED <<entries, maxSerial, sending, link>>
  BY DEF ClientStep, cache
<1>2. ~link => toCache' = toCache
  BY DEF ClientStep, Query
<1> QED
  BY <1>1, <1>2 DEF Listed, Ordered, LeftClosed, Severed, InForce

LEMMA NextListed ==
  ASSUME Typed, Listed, [Next]_vars
  PROVE  Listed'
<1>1. CASE Server
  <2>1. CASE ServiceTimer
    BY <2>1 DEF ServiceTimer, Listed, Ordered, LeftClosed, Severed, InForce
  <2> QED
    BY <1>1, <2>1, AnswerListed, SendListed DEF Server
<1>2. CASE Operator
  <2>1. CASE processSessionID
    BY <2>1 DEF processSessionID, Listed, Ordered, LeftClosed, Severed, InForce
  <2> QED
    BY <1>2, <2>1, AppendListed, RemovalListed, ExpiryListed DEF Operator
<1>3. CASE LoseConnection \/ \E succ \in BOOLEAN : Reconnect(succ)
  <2>1. UNCHANGED <<entries, maxSerial>> /\ sending' = Idle /\ toCache' = <<>>
    BY <1>3 DEF LoseConnection, Reconnect
  <2> QED
    BY <2>1 DEF Listed, Ordered, LeftClosed, Severed, InForce, Idle
<1>4. CASE RestartCache
  <2>1. entries' = <<>> /\ sending' = Idle /\ toCache' = <<>>
    BY <1>4 DEF RestartCache
  <2>2. DOMAIN entries' = {}
    BY <2>1
  <2> QED
    BY <2>1, <2>2 DEF Listed, Ordered, LeftClosed, Severed, InForce, Idle
<1>5. CASE Client
  BY <1>5, ClientSteps, ClientListed
<1>6. CASE UNCHANGED vars
  BY <1>6 DEF vars, cache, connection, Listed, Ordered, LeftClosed, Severed, InForce
<1> QED
  BY <1>1, <1>2, <1>3, <1>4, <1>5, <1>6 DEF Next, Fault

LEMMA InitListed ==
  ASSUME Init
  PROVE  Listed
<1>1. DOMAIN entries = {} /\ sending = Idle /\ toCache = <<>>
  BY DEF Init
<1> QED
  BY <1>1 DEF Listed, Ordered, LeftClosed, Severed, InForce, Idle

-----------------------------------------------------------------------------
(* Session IDs.                                                            *)

\* The PDUs that carry a session ID.
WithSession == {"SERIAL_NOTIFY", "CACHE_RESPONSE", "END_OF_DATA"}

\* The session IDs of PDUs grow, from one session to another.
Grows(pdus, low, high) ==
  /\ \A j \in DOMAIN pdus : pdus[j].type \in WithSession =>
       low <= pdus[j].session /\ pdus[j].session <= high
  /\ \A i, j \in DOMAIN pdus :
       i < j /\ pdus[i].type \in WithSession /\ pdus[j].type \in WithSession =>
         pdus[i].session <= pdus[j].session

\* So do those on the way to the client, from the client's session to the cache's.
Growing == Grows(toClient, client.session, session)

\* No query and no serial is of a session that is still to come.
Learned ==
  /\ client.session <= session
  /\ learned # Foreign => learned <= session
  /\ learned = 0 => client.serial = 0
  /\ \A k \in DOMAIN toCache : toCache[k].type = "SERIAL_QUERY" => toCache[k].session <= session

Sessions == Growing /\ Learned

LEMMA SessionNumbers ==
  ASSUME Typed
  PROVE  /\ session \in Nat /\ client.session \in Nat /\ MaxSession \in Nat
         /\ session <= MaxSession
         /\ learned \in Nat /\ client.serial \in Nat
         /\ toClient \in Seq(PDUs) /\ DOMAIN toClient = 1 .. Len(toClient) /\ Len(toClient) \in Nat
         /\ toCache \in Seq(Queries) /\ DOMAIN toCache = 1 .. Len(toCache) /\ Len(toCache) \in Nat
         /\ \A j \in DOMAIN toClient : toClient[j].type \in WithSession => toClient[j].session \in Nat
         /\ \A j \in DOMAIN toClient : toClient[j].type = "END_OF_DATA" => toClient[j].serial \in Nat
         /\ \A k \in DOMAIN toCache :
              toCache[k].type = "SERIAL_QUERY" => toCache[k].session \in Nat /\ toCache[k].serial \in Nat
<1>1. MaxSession \in Nat /\ MaxSerial \in Nat
  BY Bounds
<1>2. Session \subseteq Nat /\ Serial \subseteq Nat /\ Session \subseteq 1 .. MaxSession
  BY <1>1 DEF Session, Serial
<1>3. session \in Session /\ client \in ClientRecords /\ learned \in Session \cup {0, Foreign}
  BY DEF Typed, TypeOK, ClientRecords
<1>4. learned \in Nat
  BY <1>1, <1>2, <1>3 DEF Foreign
<1>5. client.session \in Nat /\ client.serial \in Nat
  <2>1. client.session \in Session \/ client.session = 0
    BY <1>3 DEF ClientRecords
  <2>2. client.serial \in Serial
    BY <1>3 DEF ClientRecords
  <2>3. client.session \in Nat
    <3>1. client.session \in Session => client.session \in Nat
      BY <1>2
    <3>2. client.session = 0 => client.session \in Nat
      OBVIOUS
    <3> QED
      BY <2>1, <3>1, <3>2, Zenon
  <2>4. client.serial \in Nat
    BY <1>2, <2>2
  <2> QED
    BY <2>3, <2>4
<1>6. /\ toClient \in Seq(PDUs) /\ DOMAIN toClient = 1 .. Len(toClient) /\ Len(toClient) \in Nat
      /\ toCache \in Seq(Queries) /\ DOMAIN toCache = 1 .. Len(toCache) /\ Len(toCache) \in Nat
  BY DEF Typed, TypeOK
<1>7. ASSUME NEW j \in DOMAIN toClient
      PROVE  /\ toClient[j].type \in WithSession => toClient[j].session \in Nat
             /\ toClient[j].type = "END_OF_DATA" => toClient[j].serial \in Nat
  <2>1. toClient[j] \in PDUs
    BY <1>6
  <2> QED
    BY <1>2, <2>1 DEF PDUs, WithSession
<1>8. ASSUME NEW k \in DOMAIN toCache
      PROVE  toCache[k].type = "SERIAL_QUERY" => toCache[k].session \in Nat /\ toCache[k].serial \in Nat
  <2>1. toCache[k] \in Queries
    BY <1>6
  <2> QED
    BY <1>2, <2>1 DEF Queries
<1>9. session \in Nat /\ session <= MaxSession
  BY <1>1, <1>2, <1>3
<1> QED
  BY <1>1, <1>4, <1>5, <1>6, <1>7, <1>8, <1>9

LEMMA SessionNatural ==
  ASSUME NEW p \in PDUs, p.type \in WithSession
  PROVE  p.session \in Nat
<1>1. Session \subseteq Nat
  BY Bounds DEF Session
<1> QED
  BY <1>1 DEF PDUs, WithSession

LEMMA GrowsAppend ==
  ASSUME NEW s \in Seq(PDUs), NEW p \in PDUs, NEW low \in Nat, NEW high \in Nat, low <= high,
         Grows(s, low, high), p.type \in WithSession => p.session = high
  PROVE  Grows(Append(s, p), low, high)
<1> DEFINE t == Append(s, p)
           n == Len(s)
<1>1. n \in Nat /\ DOMAIN s = 1 .. n /\ DOMAIN t = 1 .. n + 1
  OBVIOUS
<1>2. (\A j \in 1 .. n : t[j] = s[j]) /\ t[n + 1] = p
  OBVIOUS
<1> HIDE DEF t
<1>3. ASSUME NEW j \in DOMAIN t, t[j].type \in WithSession
      PROVE  low <= t[j].session /\ t[j].session <= high
  <2>1. CASE j = n + 1
    BY <1>2, <1>3, <2>1
  <2>2. CASE j \in 1 .. n
    BY <1>1, <1>2, <1>3, <2>2 DEF Grows
  <2> QED
    BY <1>1, <2>1, <2>2
<1>4. ASSUME NEW i \in DOMAIN t, NEW j \in DOMAIN t,
             i < j, t[i].type \in WithSession, t[j].type \in WithSession
      PROVE  t[i].session <= t[j].session
  <2>1. i \in 1 .. n
    BY <1>1, <1>4
  <2>2. CASE j = n + 1
    BY <1>2, <1>3, <1>4, <2>2
  <2>3. CASE j \in 1 .. n
    BY <1>1, <1>2, <1>4, <2>1, <2>3 DEF Grows
  <2> QED
    BY <1>1, <2>2, <2>3
<1> QED
  BY <1>3, <1>4 DEF Grows, t

LEMMA GrowsFurther ==
  ASSUME NEW s \in Seq(PDUs), NEW low \in Nat, NEW high \in Nat, NEW more \in Nat, high <= more,
         Grows(s, low, high)
  PROVE  Grows(s, low, more)
<1>1. ASSUME NEW j \in DOMAIN s, s[j].type \in WithSession
      PROVE  low <= s[j].session /\ s[j].session <= more
  <2>1. s[j] \in PDUs
    OBVIOUS
  <2>2. s[j].session \in Nat
    BY <1>1, <2>1, SessionNatural
  <2> QED
    BY <1>1, <2>2 DEF Grows
<1> QED
  BY <1>1 DEF Grows

LEMMA GrowsTail ==
  ASSUME NEW s \in Seq(PDUs), s # <<>>, NEW low \in Nat, NEW high \in Nat, Grows(s, low, high)
  PROVE  /\ Grows(Tail(s), low, high)
         /\ Head(s).type \in WithSession =>
              /\ Grows(Tail(s), Head(s).session, high)
              /\ low <= Head(s).session /\ Head(s).session <= high
<1> DEFINE t == Tail(s)
           n == Len(s)
<1>1. n \in Nat /\ n > 0 /\ DOMAIN s = 1 .. n /\ DOMAIN t = 1 .. n - 1
  OBVIOUS
<1>2. (\A j \in 1 .. n - 1 : t[j] = s[j + 1] /\ j + 1 \in 1 .. n) /\ Head(s) = s[1]
  BY <1>1
<1> HIDE DEF t
<1>3. ASSUME NEW j \in DOMAIN t, t[j].type \in WithSession
      PROVE  low <= t[j].session /\ t[j].session <= high
  BY <1>1, <1>2, <1>3 DEF Grows
<1>4. ASSUME NEW i \in DOMAIN t, NEW j \in DOMAIN t,
             i < j, t[i].type \in WithSession, t[j].type \in WithSession
      PROVE  t[i].session <= t[j].session
  <2>1. i + 1 < j + 1
    BY <1>1, <1>4
  <2> QED
    BY <1>1, <1>2, <1>4, <2>1 DEF Grows
<1>5. ASSUME Head(s).type \in WithSession, NEW j \in DOMAIN t, t[j].type \in WithSession
      PROVE  Head(s).session <= t[j].session
  <2>1. 1 < j + 1 /\ 1 \in 1 .. n
    BY <1>1
  <2> QED
    BY <1>1, <1>2, <1>5, <2>1 DEF Grows
<1>6. Head(s).type \in WithSession => low <= Head(s).session /\ Head(s).session <= high
  BY <1>1, <1>2 DEF Grows
<1> QED
  BY <1>3, <1>4, <1>5, <1>6 DEF Grows, t

\* A part of the PDUs, cut short.
LEMMA GrowsCut ==
  ASSUME NEW s \in Seq(PDUs), NEW t \in Seq(PDUs), NEW low \in Nat, NEW high \in Nat,
         Grows(s, low, high), Len(t) <= Len(s),
         \A j \in 1 .. Len(t) : /\ t[j].type = s[j].type
                                /\ t[j].type \in WithSession => t[j].session = s[j].session
  PROVE  Grows(t, low, high)
<1>1. Len(s) \in Nat /\ Len(t) \in Nat /\ DOMAIN s = 1 .. Len(s) /\ DOMAIN t = 1 .. Len(t)
  OBVIOUS
<1>2. DOMAIN t \subseteq DOMAIN s
  BY <1>1
<1> QED
  BY <1>1, <1>2 DEF Grows

\* What the client can still read after the connection was lost.
LEMMA RestFacts ==
  ASSUME Typed, NEW n \in 0 .. Len(toClient), NEW header \in BOOLEAN
  PROVE  LET t == Rest(n, header)
         IN /\ t \in Seq(PDUs) /\ Len(t) \in Nat
            /\ Len(t) <= Len(Sent) /\ Len(t) <= n + 1
            /\ \A j \in 1 .. Len(t) :
                 /\ t[j].type = Sent[j].type
                 /\ t[j].type \in WithSession => t[j].session = Sent[j].session
                 /\ j <= n => t[j] = toClient[j]
                 /\ j > n => (t[j].type = "END_OF_DATA" => t[j].serial = 0)
<1> DEFINE t == Rest(n, header)
           u == IF header /\ n < Len(Sent) THEN <<Truncated(Sent[n + 1])>> ELSE <<>>
           a == SubSeq(Sent, 1, n)
<1>1. /\ Sent \in Seq(PDUs) /\ Len(Sent) \in Nat /\ Len(toClient) \in Nat
      /\ Len(Sent) >= Len(toClient) /\ n \in Nat /\ n <= Len(toClient)
  BY SentTyped
<1>2. t = a \o u
  BY DEF Rest, Sent
<1>3. a \in Seq(PDUs) /\ Len(a) = n /\ \A j \in 1 .. n : a[j] = Sent[j]
  BY <1>1
<1>4. \A j \in 1 .. n : Sent[j] = toClient[j]
  <2>1. toClient \in Seq(PDUs)
    BY DEF Typed, TypeOK
  <2>2. sending # Idle => NextPDU \in PDUs
    BY NextPDUTyped
  <2> QED
    BY <1>1, <2>1, <2>2 DEF Sent
<1>5. CASE header /\ n < Len(Sent)
  <2>1. Sent[n + 1] \in PDUs
    BY <1>1, <1>5
  <2>2. Truncated(Sent[n + 1]) \in PDUs
    BY <2>1, TruncatedTyped
  <2> DEFINE p == Truncated(Sent[n + 1])
  <2>3. /\ p.type = Sent[n + 1].type
        /\ p.type \in WithSession => p.session = Sent[n + 1].session
        /\ p.type = "END_OF_DATA" => p.serial = 0
    <3> DEFINE q == Sent[n + 1]
    <3> HIDE DEF q
    <3>1. q \in PDUs
      BY <2>1 DEF q
    <3>2. CASE q.type = "PREFIX"
      BY <3>1, <3>2 DEF Truncated, PDUs, WithSession, q
    <3>3. CASE q.type = "END_OF_DATA"
      BY <3>1, <3>3 DEF Truncated, PDUs, WithSession, q
    <3>4. CASE q.type \notin {"PREFIX", "END_OF_DATA"}
      BY <3>4 DEF Truncated, q
    <3> QED
      BY <3>2, <3>3, <3>4
  <2> HIDE DEF p
  <2>4. t = a \o <<p>>
    BY <1>2, <1>5 DEF p
  <2>5. p \in PDUs
    BY <2>2 DEF p
  <2> HIDE DEF a, t
  <2>6. /\ t \in Seq(PDUs) /\ Len(t) = n + 1
        /\ t[n + 1] = p /\ \A j \in 1 .. n : t[j] = a[j]
    BY <1>1, <1>3, <2>4, <2>5
  <2>7. ASSUME NEW j \in 1 .. n + 1
        PROVE  /\ t[j].type = Sent[j].type
               /\ t[j].type \in WithSession => t[j].session = Sent[j].session
               /\ j <= n => t[j] = toClient[j]
               /\ j > n => (t[j].type = "END_OF_DATA" => t[j].serial = 0)
    <3>1. CASE j = n + 1
      BY <1>1, <2>3, <2>6, <3>1
    <3>2. CASE j \in 1 .. n
      BY <1>1, <1>3, <1>4, <2>6, <3>2
    <3> QED
      BY <1>1, <3>1, <3>2
  <2>8. /\ t \in Seq(PDUs) /\ Len(t) \in Nat /\ Len(t) <= Len(Sent) /\ Len(t) <= n + 1
        /\ 1 .. Len(t) = 1 .. n + 1
    BY <1>1, <1>5, <2>6
  <2> QED
    BY <2>7, <2>8 DEF t
<1>6. CASE ~(header /\ n < Len(Sent))
  <2>1. t = a
    <3>1. u = <<>>
      BY <1>6
    <3> HIDE DEF a, u, t
    <3> QED
      BY <1>2, <1>3, <3>1
  <2> HIDE DEF a, t
  <2> QED
    BY <1>1, <1>3, <1>4, <2>1 DEF t
<1> QED
  BY <1>5, <1>6

LEMMA NextPDUSession ==
  ASSUME Typed, sending # Idle
  PROVE  /\ NextPDU.type \in WithSession => NextPDU.session = session
         /\ NextPDU.type = "END_OF_DATA" =>
              sending.next = "DATA" /\ sending.left = {} /\ NextPDU.serial = maxSerial
<1>1. sending.next \in {"CACHE_RESPONSE", "DATA", "CACHE_RESET"}
  BY DEF Typed, TypeOK, Leftover, Responding, Idle
<1>2. CASE sending.next = "CACHE_RESPONSE"
  BY <1>2 DEF NextPDU
<1>3. CASE sending.next = "CACHE_RESET"
  BY <1>3 DEF NextPDU, WithSession
<1>4. CASE sending.next = "DATA" /\ sending.left = {}
  BY <1>4 DEF NextPDU
<1>5. CASE sending.next = "DATA" /\ sending.left # {}
  <2>1. NextPDU.type = "PREFIX"
    BY <1>5 DEF NextPDU
  <2> QED
    BY <2>1 DEF WithSession
<1> QED
  BY <1>1, <1>2, <1>3, <1>4, <1>5

LEMMA SentGrows ==
  ASSUME Typed, Sessions
  PROVE  Grows(Sent, client.session, session)
<1>1. /\ toClient \in Seq(PDUs) /\ client.session \in Nat /\ session \in Nat
      /\ client.session <= session /\ Grows(toClient, client.session, session)
  BY SessionNumbers DEF Sessions, Growing, Learned
<1>2. CASE sending = Idle
  BY <1>1, <1>2 DEF Sent
<1>3. CASE sending # Idle
  <2>1. NextPDU \in PDUs /\ (NextPDU.type \in WithSession => NextPDU.session = session)
    BY <1>3, NextPDUTyped, NextPDUSession
  <2>2. Grows(Append(toClient, NextPDU), client.session, session)
    BY <1>1, <2>1, GrowsAppend
  <2> QED
    BY <1>3, <2>2 DEF Sent
<1> QED
  BY <1>2, <1>3

LEMMA RestGrows ==
  ASSUME Typed, Sessions, NEW n \in 0 .. Len(toClient), NEW header \in BOOLEAN
  PROVE  Grows(Rest(n, header), client.session, session)
<1> DEFINE t == Rest(n, header)
<1>1. /\ t \in Seq(PDUs) /\ Len(t) <= Len(Sent)
      /\ \A j \in 1 .. Len(t) : /\ t[j].type = Sent[j].type
                                /\ t[j].type \in WithSession => t[j].session = Sent[j].session
  BY RestFacts
<1>2. Sent \in Seq(PDUs) /\ client.session \in Nat /\ session \in Nat
  BY SentTyped, SessionNumbers
<1>3. Grows(Sent, client.session, session)
  BY SentGrows
<1> HIDE DEF t
<1>4. Grows(t, client.session, session)
  BY <1>1, <1>2, <1>3, GrowsCut
<1> QED
  BY <1>4 DEF t

LEMMA CacheSessions ==
  ASSUME Typed, Sessions, Server \/ Operator \/ Fault \/ Reconnect(TRUE)
  PROVE  Sessions'
<1>0. /\ toClient \in Seq(PDUs) /\ client.session \in Nat /\ session \in Nat /\ session + 1 \in Nat
      /\ client.session <= session /\ Grows(toClient, client.session, session)
      /\ session <= session + 1 /\ client.session <= session + 1
  BY SessionNumbers DEF Sessions, Growing, Learned
<1>1. CASE CacheAnswer
  <2>1. /\ toCache' = Tail(toCache) /\ toCache # <<>> /\ toCache \in Seq(Queries)
        /\ UNCHANGED <<session, toClient, client, learned>>
    BY <1>1, SessionNumbers DEF CacheAnswer
  <2>2. ASSUME NEW k \in DOMAIN toCache', toCache'[k].type = "SERIAL_QUERY"
        PROVE  toCache'[k].session <= session
    <3>1. k + 1 \in DOMAIN toCache /\ toCache'[k] = toCache[k + 1]
      BY <2>1
    <3> QED
      BY <2>2, <3>1 DEF Sessions, Learned
  <2> QED
    BY <2>1, <2>2 DEF Sessions, Growing, Learned
<1>2. CASE CacheSend
  <2>1. /\ toClient' = Append(toClient, NextPDU) /\ sending # Idle
        /\ UNCHANGED <<session, toCache, client, learned>>
    BY <1>2 DEF CacheSend
  <2>2. NextPDU \in PDUs /\ (NextPDU.type \in WithSession => NextPDU.session = session)
    BY <2>1, NextPDUTyped, NextPDUSession
  <2>3. Grows(toClient', client.session, session)
    BY <1>0, <2>1, <2>2, GrowsAppend
  <2> QED
    BY <2>1, <2>3 DEF Sessions, Growing, Learned
<1>3. CASE ServiceTimer
  <2> DEFINE p == [type |-> "SERIAL_NOTIFY", session |-> session]
  <2>1. /\ toClient' = toClient \/ toClient' = Append(toClient, p)
        /\ UNCHANGED <<session, toCache, client, learned>>
    BY <1>3 DEF ServiceTimer, Notified
  <2>2. p \in PDUs
    BY DEF Typed, TypeOK, PDUs
  <2>3. Grows(toClient', client.session, session)
    BY <1>0, <2>1, <2>2, GrowsAppend
  <2> QED
    BY <2>1, <2>3 DEF Sessions, Growing, Learned
<1>4. CASE processSessionID
  <2> DEFINE p == [type |-> "SERIAL_NOTIFY", session |-> session + 1]
  <2>1. /\ toClient' = toClient \/ toClient' = Append(toClient, p)
        /\ session' = session + 1 /\ session < MaxSession
        /\ UNCHANGED <<toCache, client, learned>>
    BY <1>4 DEF processSessionID
  <2>2. p \in PDUs
    <3>1. session + 1 \in Session
      BY <1>0, <2>1, SessionNumbers DEF Session
    <3> QED
      BY <3>1 DEF PDUs
  <2>3. Grows(toClient, client.session, session + 1)
    BY <1>0, GrowsFurther
  <2>4. Grows(toClient', client.session, session + 1)
    BY <1>0, <2>1, <2>2, <2>3, GrowsAppend
  <2>5. Learned'
    BY <1>0, <2>1, SessionNumbers DEF Sessions, Learned
  <2> QED
    BY <2>1, <2>4, <2>5 DEF Sessions, Growing
<1>5. CASE \/ \E r \in Roa : appendPrefixData(r)
           \/ \E i \in DOMAIN entries : processEntryRemoval(i) \/ deleteExpiredEntries(i)
  <2>1. UNCHANGED <<session, toCache, toClient, client, learned>>
    BY <1>5 DEF appendPrefixData, processEntryRemoval, deleteExpiredEntries, connection
  <2> QED
    BY <2>1 DEF Sessions, Growing, Learned
<1>6. CASE LoseConnection
  <2>1. /\ UNCHANGED <<session, client, learned>> /\ toCache' = <<>>
        /\ \E n \in 0 .. Len(toClient), header \in BOOLEAN : toClient' = Rest(n, header)
    BY <1>6 DEF LoseConnection
  <2>2. Grows(toClient', client.session, session)
    BY <2>1, RestGrows
  <2> QED
    BY <2>1, <2>2 DEF Sessions, Growing, Learned
<1>7. CASE RestartCache
  <2>1. /\ UNCHANGED <<client, learned>> /\ toCache' = <<>> /\ session' = session + 1
        /\ \E n \in 0 .. Len(toClient), header \in BOOLEAN : toClient' = Rest(n, header)
    BY <1>7 DEF RestartCache
  <2>2. Grows(toClient', client.session, session) /\ toClient' \in Seq(PDUs)
    BY <2>1, RestGrows, RestTyped
  <2>3. Grows(toClient', client.session, session + 1)
    BY <1>0, <2>2, GrowsFurther
  <2>4. Learned'
    BY <1>0, <2>1, SessionNumbers DEF Sessions, Learned
  <2> QED
    BY <2>1, <2>3, <2>4 DEF Sessions, Growing
<1>8. ASSUME NEW succ \in BOOLEAN, Reconnect(succ) PROVE Sessions'
  <2>1. /\ UNCHANGED <<session, learned>> /\ toCache' = <<>> /\ toClient' = <<>>
        /\ client'.session = client.session /\ client'.serial = client.serial
    BY <1>8 DEF Reconnect, Typed, TypeOK
  <2>2. Grows(toClient', client.session, session)
    BY <2>1 DEF Grows
  <2> QED
    BY <2>1, <2>2 DEF Sessions, Growing, Learned
<1> QED
  BY <1>1, <1>2, <1>3, <1>4, <1>5, <1>6, <1>7, <1>8 DEF Server, Operator, Fault

LEMMA Checked ==
  ASSUME Typed, NEW s
  PROVE  /\ checkSessionID(s).session = IF client.startup THEN s ELSE client.session
         /\ checkSessionID(s).serial = client.serial
         /\ SessionOK(s) => checkSessionID(s).session = s
BY DEF Typed, TypeOK, checkSessionID, SessionOK

\* What the head of the PDUs does to the client's session and serial.
LEMMA ReceivedSessions ==
  ASSUME Typed, Sessions, Client
  PROVE  /\ toClient' = toClient \/ (toClient # <<>> /\ toClient' = Tail(toClient))
         /\ \/ client'.session = client.session
            \/ /\ toClient # <<>> /\ toClient' = Tail(toClient)
               /\ Head(toClient).type \in WithSession /\ client'.session = Head(toClient).session
         /\ client'.serial # client.serial \/ learned' # learned =>
              Head(toClient).type \in WithSession /\ Receiving /\ toClient # <<>>
<1>1. client \in ClientRecords
  BY DEF Typed, TypeOK, ClientRecords
<1>2. CASE ReceiveNotify
  <2>1. client' = [checkSessionID(Head(toClient).session) EXCEPT !.lastRecv = "SERIAL_NOTIFY"]
    BY <1>2 DEF ReceiveNotify
  <2>2. /\ client'.session = checkSessionID(Head(toClient).session).session
    BY <1>1, <2>1 DEF checkSessionID, ClientRecords
  <2> QED
    BY <1>2, <2>2, Checked DEF ReceiveNotify, Receive, WithSession
<1>3. CASE ReceiveResponse
  <2>1. client' = [checkSessionID(Head(toClient).session) EXCEPT !.lastRecv = "CACHE_RESPONSE"]
    BY <1>3 DEF ReceiveResponse
  <2>2. /\ client'.session = checkSessionID(Head(toClient).session).session
        /\ client'.serial = client.serial
    BY <1>1, <2>1 DEF checkSessionID, ClientRecords
  <2> QED
    BY <1>3, <2>2, Checked DEF ReceiveResponse, Receive, WithSession
<1>4. CASE ReceiveEndOfData
  <2>1. client'.session = checkSessionID(Head(toClient).session).session
    BY <1>1, <1>4 DEF ReceiveEndOfData, checkSessionID, ClientRecords
  <2> QED
    BY <1>4, <2>1, Checked DEF ReceiveEndOfData, Receive, WithSession
<1>5. CASE ReceivePrefix \/ ReceiveReset
  <2>1. client'.session = client.session /\ client'.serial = client.serial
    BY <1>1, <1>5 DEF ReceivePrefix, ReceiveReset, ClientRecords
  <2> QED
    BY <1>5, <2>1 DEF ReceivePrefix, ReceiveReset, Receive
<1>6. CASE StartQuery \/ RenewQuery \/ ReceiveNothing
  <2>1. client'.session = client.session /\ client'.serial = client.serial
    BY <1>1, <1>6 DEF StartQuery, RenewQuery, SendResetQuery, ReceiveNothing, ClientRecords
  <2>2. toClient' = toClient /\ learned' = learned
    BY <1>6 DEF StartQuery, RenewQuery, SendResetQuery, ReceiveNothing, connection
  <2> QED
    BY <2>1, <2>2
<1> QED
  BY <1>2, <1>3, <1>4, <1>5, <1>6 DEF Client

LEMMA ClientSessions ==
  ASSUME Typed, Sessions, Client
  PROVE  Sessions'
<1>0. /\ toClient \in Seq(PDUs) /\ client.session \in Nat /\ session \in Nat
      /\ client.session <= session /\ Grows(toClient, client.session, session)
      /\ learned \in Nat /\ learned # Foreign => learned <= session
  BY SessionNumbers DEF Sessions, Growing, Learned
<1>1. UNCHANGED session
  BY ClientSteps DEF ClientStep, cache
<1>2. Growing' /\ client'.session <= session'
  <2>1. toClient # <<>> => Grows(Tail(toClient), client.session, session)
    BY <1>0, GrowsTail
  <2>2. toClient # <<>> /\ Head(toClient).type \in WithSession =>
          /\ Grows(Tail(toClient), Head(toClient).session, session)
          /\ Head(toClient).session <= session
    BY <1>0, GrowsTail
  <2> QED
    BY <1>0, <1>1, <2>1, <2>2, ReceivedSessions DEF Growing
<1>3. toClient # <<>> /\ Head(toClient).type \in WithSession =>
        Head(toClient).session <= session /\ Head(toClient).session \in Nat
  <2>1. toClient # <<>> => Head(toClient) \in PDUs
    BY <1>0
  <2> QED
    BY <1>0, <2>1, GrowsTail, SessionNatural
<1>4. /\ learned' # Foreign => learned' <= session
      /\ learned' = 0 => client'.serial = 0
  <2>1. CASE ReceiveNotify
    <3>1. client'.serial = client.serial
      BY <2>1, Checked DEF ReceiveNotify, Typed, TypeOK, checkSessionID
    <3>2. learned' = learned \/ learned' = Foreign
      BY <2>1 DEF ReceiveNotify
    <3>3. Foreign # 0
      BY SessionNumbers DEF Foreign
    <3> QED
      BY <3>1, <3>2, <3>3 DEF Sessions, Learned
  <2>2. CASE ReceiveEndOfData
    <3> DEFINE p == Head(toClient)
    <3>1. /\ client'.serial = IF SessionOK(p.session) THEN p.serial ELSE client.serial
          /\ learned' = IF ~SessionOK(p.session) \/ learned = Foreign THEN learned
                        ELSE IF p.serial > 0 THEN p.session ELSE 0
          /\ Receive("END_OF_DATA")
      BY <2>2, Checked DEF ReceiveEndOfData, Typed, TypeOK, checkSessionID
    <3>2. p.serial \in Nat /\ p.session \in Nat /\ p.session > 0 /\ p.session <= session
      <4>1. toClient # <<>> /\ p.type = "END_OF_DATA"
        BY <3>1 DEF Receive
      <4>2. p.session \in Session /\ p.serial \in Serial
        BY <3>1, ReceivedTyped
      <4> QED
        BY <1>3, <4>1, <4>2, Bounds DEF WithSession, Session, Serial
    <3>3. Foreign # 0 /\ 0 <= session
      BY <1>0, SessionNumbers DEF Foreign
    <3> HIDE DEF p
    <3> QED
      BY <3>1, <3>2, <3>3 DEF Sessions, Learned
  <2>3. CASE ReceiveResponse \/ ReceivePrefix \/ ReceiveReset \/ StartQuery \/ RenewQuery \/ ReceiveNothing
    <3>1. client'.serial = client.serial /\ learned' = learned
      BY <2>3, Checked DEF ReceiveResponse, ReceivePrefix, ReceiveReset, StartQuery, RenewQuery,
         SendResetQuery, ReceiveNothing, Typed, TypeOK, checkSessionID
    <3> QED
      BY <3>1 DEF Sessions, Learned
  <2> QED
    BY <2>1, <2>2, <2>3 DEF Client
<1>5. ASSUME NEW k \in DOMAIN toCache', toCache'[k].type = "SERIAL_QUERY"
      PROVE  toCache'[k].session <= session
  <2>0. toCache \in Seq(Queries) /\ DOMAIN toCache = 1 .. Len(toCache) /\ Len(toCache) \in Nat
    BY SessionNumbers
  <2>1. CASE toCache' = toCache
    BY <1>5, <2>1 DEF Sessions, Learned
  <2>2. CASE toCache' = Append(toCache, [type |-> "RESET_QUERY"])
    <3>1. [type |-> "RESET_QUERY"] \in Queries
      BY DEF Queries
    <3>2. k # Len(toCache) + 1
      BY <1>5, <2>0, <2>2, <3>1
    <3>3. k \in DOMAIN toCache /\ toCache'[k] = toCache[k]
      BY <2>0, <2>2, <3>1, <3>2
    <3> QED
      BY <1>5, <3>3 DEF Sessions, Learned
  <2>3. CASE /\ Head(toClient).type = "SERIAL_NOTIFY" /\ toClient # <<>>
             /\ toCache' = Append(toCache, [type |-> "SERIAL_QUERY", session |-> Head(toClient).session,
                                            serial |-> client.serial])
    <3> DEFINE q == [type |-> "SERIAL_QUERY", session |-> Head(toClient).session,
                     serial |-> client.serial]
    <3>1. q \in Queries
      <4>1. Head(toClient) \in PDUs
        BY <1>0, <2>3
      <4>2. Head(toClient).session \in Session
        BY <2>3, <4>1 DEF PDUs
      <4>3. client.serial \in Serial
        BY DEF Typed, TypeOK
      <4> QED
        BY <4>2, <4>3 DEF Queries
    <3>2. q.session <= session
      BY <1>3, <2>3 DEF WithSession
    <3> HIDE DEF q
    <3>3. toCache' = Append(toCache, q)
      BY <2>3 DEF q
    <3>4. CASE k = Len(toCache) + 1
      BY <2>0, <3>1, <3>2, <3>3, <3>4
    <3>5. CASE k # Len(toCache) + 1
      <4>1. k \in DOMAIN toCache /\ toCache'[k] = toCache[k]
        BY <2>0, <3>1, <3>3, <3>5
      <4> QED
        BY <1>5, <4>1 DEF Sessions, Learned
    <3> QED
      BY <3>4, <3>5
  <2>4. \/ toCache' = toCache \/ toCache' = Append(toCache, [type |-> "RESET_QUERY"])
        \/ /\ Head(toClient).type = "SERIAL_NOTIFY" /\ toClient # <<>>
           /\ toCache' = Append(toCache, [type |-> "SERIAL_QUERY", session |-> Head(toClient).session,
                                          serial |-> client.serial])
    BY DEF Client, StartQuery, RenewQuery, SendResetQuery, ReceiveNotify, ReceiveResponse,
       ReceivePrefix, ReceiveEndOfData, ReceiveReset, ReceiveNothing, Query, Receive, connection
  <2> QED
    BY <2>1, <2>2, <2>3, <2>4
<1> QED
  BY <1>1, <1>2, <1>4, <1>5 DEF Sessions, Learned

LEMMA InitSessions ==
  ASSUME Init
  PROVE  Sessions
<1>1. /\ DOMAIN toClient = {} /\ DOMAIN toCache = {}
      /\ client.session = 0 /\ session = 1 /\ learned = 0 /\ client.serial = 0
  BY DEF Init
<1> QED
  BY <1>1 DEF Sessions, Growing, Grows, Learned

LEMMA NextSessions ==
  ASSUME Typed, Sessions, [Next]_vars
  PROVE  Sessions'
<1>1. CASE UNCHANGED vars
  BY <1>1 DEF vars, cache, connection, Sessions, Growing, Learned
<1> QED
  BY <1>1, CacheSessions, ClientSessions DEF Next

-----------------------------------------------------------------------------
(* What the client will hold.                                              *)

Announces(p, r) == p.type = "PREFIX" /\ r \in p.roas /\ p.announced
Withdraws(p, r) == p.type = "PREFIX" /\ r \in p.roas /\ ~p.announced

\* A client that holds each ROA as often as `held` says holds ROA r after the
\* first j PDUs, because the last of them about r announces it.
Holds(pdus, held, j, r) ==
  \/ \E i \in 1 .. j : Announces(pdus[i], r) /\ \A l \in i + 1 .. j : ~Withdraws(pdus[l], r)
  \/ held[r] > 0 /\ \A l \in 1 .. j : ~Withdraws(pdus[l], r)

LEMMA HoldsSame ==
  ASSUME NEW s, NEW t, NEW held, NEW j \in Nat, NEW r, \A i \in 1 .. j : s[i] = t[i],
         Holds(s, held, j, r)
  PROVE  Holds(t, held, j, r)
<1>1. CASE held[r] > 0 /\ \A l \in 1 .. j : ~Withdraws(s[l], r)
  BY <1>1 DEF Holds
<1>2. ASSUME NEW i \in 1 .. j, Announces(s[i], r), \A l \in i + 1 .. j : ~Withdraws(s[l], r)
      PROVE  Holds(t, held, j, r)
  <2>1. Announces(t[i], r)
    BY <1>2
  <2>2. \A l \in i + 1 .. j : l \in 1 .. j
    BY <1>2
  <2>3. \A l \in i + 1 .. j : ~Withdraws(t[l], r)
    BY <1>2, <2>2
  <2> QED
    BY <2>1, <2>3 DEF Holds
<1> QED
  BY <1>1, <1>2 DEF Holds

LEMMA HoldsAppend ==
  ASSUME NEW s \in Seq(PDUs), NEW p \in PDUs, NEW held, NEW r
  PROVE  /\ \A j \in 0 .. Len(s) : Holds(s, held, j, r) => Holds(Append(s, p), held, j, r)
         /\ Announces(p, r) => Holds(Append(s, p), held, Len(s) + 1, r)
         /\ ~Withdraws(p, r) /\ Holds(s, held, Len(s), r) => Holds(Append(s, p), held, Len(s) + 1, r)
<1> DEFINE t == Append(s, p)
           n == Len(s)
<1>1. n \in Nat /\ (\A i \in 1 .. n : t[i] = s[i]) /\ t[n + 1] = p
  OBVIOUS
<1> HIDE DEF t, n
<1>2. ASSUME NEW j \in 0 .. n, Holds(s, held, j, r) PROVE Holds(t, held, j, r)
  <2>1. j \in Nat /\ \A i \in 1 .. j : s[i] = t[i]
    BY <1>1
  <2> QED
    BY <1>2, <2>1, HoldsSame
<1>3. ASSUME Announces(p, r) PROVE Holds(t, held, n + 1, r)
  <2>1. n + 1 \in 1 .. n + 1 /\ Announces(t[n + 1], r) /\ \A l \in n + 1 + 1 .. n + 1 : FALSE
    BY <1>1, <1>3
  <2> QED
    BY <2>1 DEF Holds
<1>4. ASSUME ~Withdraws(p, r), Holds(s, held, n, r) PROVE Holds(t, held, n + 1, r)
  <2>1. Holds(t, held, n, r)
    BY <1>1, <1>2, <1>4
  <2>2. \A l \in 1 .. n + 1 : l \in 1 .. n \/ l = n + 1
    BY <1>1
  <2>3. CASE held[r] > 0 /\ \A l \in 1 .. n : ~Withdraws(t[l], r)
    BY <1>1, <1>4, <2>2, <2>3 DEF Holds
  <2>4. ASSUME NEW i \in 1 .. n, Announces(t[i], r), \A l \in i + 1 .. n : ~Withdraws(t[l], r)
        PROVE  Holds(t, held, n + 1, r)
    <3>1. \A l \in i + 1 .. n + 1 : l \in i + 1 .. n \/ l = n + 1
      BY <1>1
    <3>2. \A l \in i + 1 .. n + 1 : ~Withdraws(t[l], r)
      BY <1>1, <1>4, <2>4, <3>1
    <3>3. i \in 1 .. n + 1
      BY <1>1
    <3> QED
      BY <2>4, <3>2, <3>3 DEF Holds
  <2> QED
    BY <2>1, <2>3, <2>4 DEF Holds
<1> QED
  BY <1>2, <1>3, <1>4 DEF t, n

\* The first PDU is taken off and counted.
LEMMA HoldsTail ==
  ASSUME NEW s \in Seq(PDUs), s # <<>>, NEW held, NEW after, NEW r, NEW j \in 1 .. Len(s),
         Announces(Head(s), r) => after[r] > 0,
         held[r] > 0 /\ ~Withdraws(Head(s), r) => after[r] > 0,
         Holds(s, held, j, r)
  PROVE  Holds(Tail(s), after, j - 1, r)
<1> DEFINE t == Tail(s)
           n == Len(s)
<1>1. /\ n \in Nat /\ n > 0 /\ j \in Nat /\ j > 0 /\ j <= n
      /\ Head(s) = s[1]
      /\ \A i \in 1 .. n - 1 : t[i] = s[i + 1]
  OBVIOUS
<1> HIDE DEF t, n
<1>2. ASSUME after[r] > 0, \A l \in 2 .. j : ~Withdraws(s[l], r) PROVE Holds(t, after, j - 1, r)
  <2>1. ASSUME NEW l \in 1 .. j - 1 PROVE ~Withdraws(t[l], r)
    <3>1. l \in 1 .. n - 1 /\ l + 1 \in 2 .. j
      BY <1>1
    <3> QED
      BY <1>1, <1>2, <3>1
  <2> QED
    BY <1>2, <2>1 DEF Holds
<1>3. CASE held[r] > 0 /\ \A l \in 1 .. j : ~Withdraws(s[l], r)
  <2>1. 1 \in 1 .. j /\ \A l \in 2 .. j : l \in 1 .. j
    BY <1>1
  <2>2. ~Withdraws(Head(s), r)
    BY <1>1, <1>3, <2>1
  <2>3. after[r] > 0
    BY <1>3, <2>2
  <2>4. \A l \in 2 .. j : ~Withdraws(s[l], r)
    BY <1>3, <2>1
  <2> QED
    BY <1>2, <2>3, <2>4 DEF t
<1>4. ASSUME NEW i \in 1 .. j, Announces(s[i], r), \A l \in i + 1 .. j : ~Withdraws(s[l], r)
      PROVE  Holds(t, after, j - 1, r)
  <2>1. CASE i = 1
    BY <1>1, <1>2, <1>4, <2>1
  <2>2. CASE i # 1
    <3>1. i - 1 \in 1 .. j - 1 /\ i - 1 \in 1 .. n - 1 /\ (i - 1) + 1 = i
      BY <1>1, <2>2
    <3>2. Announces(t[i - 1], r)
      BY <1>1, <1>4, <3>1
    <3>3. ASSUME NEW l \in (i - 1) + 1 .. j - 1 PROVE ~Withdraws(t[l], r)
      <4>1. l \in 1 .. n - 1 /\ l + 1 \in i + 1 .. j
        BY <1>1, <3>1
      <4> QED
        BY <1>1, <1>4, <4>1
    <3> QED
      BY <3>1, <3>2, <3>3 DEF Holds
  <2> QED
    BY <2>1, <2>2
<1> QED
  BY <1>3, <1>4 DEF Holds, t

\* The ROA of entry i will be held when the response being sent has arrived.
WillHold(r) == Holds(toClient, have, Len(toClient), r)
Will(i) == i \in sending.left \/ WillHold(entries[i].roa)

ResetBefore(k) == \E l \in 1 .. k - 1 : toCache[l].type = "RESET_QUERY"
ResetAsked == \E l \in DOMAIN toCache : toCache[l].type = "RESET_QUERY"

Coming(i) == Will(i) \/ ResetAsked

\* Every response brings what is in force.
InResponse == Responding => \A i \in InForce : Will(i)

\* What a serial query leaves out, the client holds by the time of the answer.
InQueries ==
  \A k \in DOMAIN toCache : toCache[k].type = "SERIAL_QUERY" /\ toCache[k].session = session =>
    /\ toCache[k].serial <= maxSerial
    /\ \A i \in InForce : entries[i].serial <= toCache[k].serial => Will(i) \/ ResetBefore(k)

\* What is in force at the serial of an End of Data, the client holds when it
\* receives it, and later as well.
AtEndOfData ==
  \A j \in DOMAIN toClient : toClient[j].type = "END_OF_DATA" /\ toClient[j].session = session =>
    /\ toClient[j].serial <= maxSerial
    /\ \A i \in InForce : entries[i].serial <= toClient[j].serial =>
         Holds(toClient, have, j, entries[i].roa) /\ (link => Coming(i))

\* What was in force at the client's serial, the client will hold.
AtSerial ==
  learned = session =>
    /\ client.serial <= maxSerial
    /\ link /\ Receiving => \A i \in InForce : entries[i].serial <= client.serial => Coming(i)

Delivered == learned # Foreign => InResponse /\ InQueries /\ AtEndOfData /\ AtSerial

IInv == Typed /\ Listed /\ Sessions /\ Delivered

-----------------------------------------------------------------------------
(* Delivered is preserved.                                                 *)

LEMMA InForceRoa ==
  ASSUME Typed, Listed, NEW i \in InForce
  PROVE  /\ i \in DOMAIN entries /\ entries[i].roa \in Roa /\ entries[i].announced
         /\ entries[i].serial \in Nat /\ entries[i].serial > 0 /\ entries[i].serial <= maxSerial
         /\ maxSerial \in Nat
BY InForceFacts DEF Listed, InForce

LEMMA AnswerDelivered ==
  ASSUME IInv, learned # Foreign, CacheAnswer
  PROVE  InResponse' /\ InQueries' /\ AtEndOfData' /\ AtSerial'
<1> DEFINE q == Head(toCache)
<1>0. Typed /\ Listed /\ Sessions /\ InResponse /\ InQueries /\ AtEndOfData /\ AtSerial
  BY DEF IInv, Delivered
<1>1. /\ toCache # <<>> /\ sending = Idle /\ toCache' = Tail(toCache) /\ sending' = Answer(q)
      /\ UNCHANGED <<entries, maxSerial, session, link, toClient, pc, client, have, learned>>
  BY DEF CacheAnswer
<1>2. /\ toCache \in Seq(Queries) /\ DOMAIN toCache = 1 .. Len(toCache) /\ Len(toCache) \in Nat
      /\ Len(toCache) > 0 /\ q \in Queries /\ q = toCache[1] /\ 1 \in DOMAIN toCache
  BY <1>0, <1>1, SessionNumbers
<1>3. /\ DOMAIN toCache' = 1 .. Len(toCache) - 1
      /\ \A k \in 1 .. Len(toCache) - 1 : toCache'[k] = toCache[k + 1]
  BY <1>1, <1>2
<1>4. InForce' = InForce /\ \A i \in InForce : WillHold(entries[i].roa)' <=> WillHold(entries[i].roa)
  BY <1>1 DEF InForce, WillHold
<1>5. ASSUME NEW i \in InForce, Will(i) PROVE Will(i)'
  BY <1>1, <1>4, <1>5 DEF Will, Idle
<1>6. ASSUME q.type = "RESET_QUERY", NEW i \in InForce PROVE Will(i)'
  <2>1. sending'.left = ServedReset
    BY <1>1, <1>6 DEF Answer, Response
  <2> QED
    BY <2>1 DEF InForce, ServedReset, Will
<1>7. ASSUME q.type = "SERIAL_QUERY", q.session = session, Responding', NEW i \in InForce PROVE Will(i)'
  <2>1. sending' = Response(ServedSince(q.serial))
    <3>1. q.type # "RESET_QUERY"
      BY <1>7
    <3> QED
      BY <1>1, <1>7, <3>1 DEF Answer, Responding
  <2>2. q.serial \in Nat
    BY <1>0, <1>2, <1>7, SessionNumbers
  <2>3. CASE entries[i].serial <= q.serial
    <3>1. Will(i) \/ ResetBefore(1)
      BY <1>0, <1>2, <1>7, <2>3 DEF InQueries
    <3>2. ~ResetBefore(1)
      BY DEF ResetBefore
    <3> QED
      BY <1>5, <3>1, <3>2
  <2>4. CASE ~(entries[i].serial <= q.serial)
    <3>1. /\ i \in DOMAIN entries /\ entries[i].serial = entries[i].prev
          /\ entries[i].serial \in Nat
      BY <1>0, InForceRoa DEF Listed, Ordered
    <3>2. i \in ServedSince(q.serial)
      BY <2>2, <2>4, <3>1 DEF ServedSince
    <3> QED
      BY <2>1, <3>2 DEF Response, Will
  <2> QED
    BY <2>3, <2>4
<1>8. InResponse'
  <2>1. ASSUME Responding' PROVE q.type = "RESET_QUERY" \/ (q.type = "SERIAL_QUERY" /\ q.session = session)
    <3>1. q.type = "RESET_QUERY" \/ q.type = "SERIAL_QUERY"
      BY <1>2 DEF Queries
    <3> QED
      BY <1>1, <2>1, <3>1 DEF Responding, Answer, Idle
  <2>2. ASSUME Responding', NEW i \in InForce PROVE Will(i)'
    BY <1>6, <1>7, <2>1, <2>2
  <2> QED
    BY <1>4, <2>2 DEF InResponse
<1>9. ASSUME NEW i \in InForce, Coming(i) PROVE Coming(i)'
  <2>1. CASE Will(i)
    BY <1>5, <2>1 DEF Coming
  <2>2. ASSUME NEW l \in DOMAIN toCache, toCache[l].type = "RESET_QUERY" PROVE Coming(i)'
    <3>1. CASE l = 1
      BY <1>2, <1>6, <2>2, <3>1 DEF Coming
    <3>2. CASE l # 1
      <4>1. l - 1 \in 1 .. Len(toCache) - 1 /\ (l - 1) + 1 = l
        BY <1>2, <3>2
      <4>2. toCache'[l - 1].type = "RESET_QUERY" /\ l - 1 \in DOMAIN toCache'
        BY <1>3, <2>2, <4>1
      <4> QED
        BY <4>2 DEF Coming, ResetAsked
    <3> QED
      BY <3>1, <3>2
  <2> QED
    BY <1>9, <2>1, <2>2 DEF Coming, ResetAsked
<1>10. InQueries'
  <2>1. ASSUME NEW k \in DOMAIN toCache', toCache'[k].type = "SERIAL_QUERY", toCache'[k].session = session
        PROVE  /\ toCache'[k].serial <= maxSerial
               /\ \A i \in InForce : entries[i].serial <= toCache'[k].serial => Will(i)' \/ ResetBefore(k)'
    <3>1. k \in 1 .. Len(toCache) - 1 /\ k + 1 \in DOMAIN toCache /\ toCache'[k] = toCache[k + 1]
      BY <1>2, <1>3
    <3>2. /\ toCache'[k].serial <= maxSerial
          /\ \A i \in InForce : entries[i].serial <= toCache'[k].serial => Will(i) \/ ResetBefore(k + 1)
      BY <1>0, <2>1, <3>1 DEF InQueries
    <3>3. ASSUME NEW i \in InForce, ResetBefore(k + 1) PROVE Will(i)' \/ ResetBefore(k)'
      <4>1. PICK l \in 1 .. (k + 1) - 1 : toCache[l].type = "RESET_QUERY"
        BY <3>3 DEF ResetBefore
      <4>2. CASE l = 1
        BY <1>2, <1>6, <4>1, <4>2
      <4>3. CASE l # 1
        <5>1. l - 1 \in 1 .. k - 1 /\ l - 1 \in 1 .. Len(toCache) - 1 /\ (l - 1) + 1 = l
          BY <1>2, <3>1, <4>3
        <5>2. toCache'[l - 1].type = "RESET_QUERY"
          BY <1>3, <4>1, <5>1
        <5> QED
          BY <5>1, <5>2 DEF ResetBefore
      <4> QED
        BY <4>2, <4>3
    <3> QED
      BY <1>5, <3>2, <3>3
  <2> QED
    BY <1>1, <1>4, <2>1 DEF InQueries
<1>11. AtEndOfData'
  BY <1>0, <1>1, <1>4, <1>9 DEF AtEndOfData
<1>12. AtSerial'
  BY <1>0, <1>1, <1>4, <1>9 DEF AtSerial, Receiving
<1> QED
  BY <1>8, <1>10, <1>11, <1>12

\* What stays when a PDU is sent that withdraws nothing the client needs.
Appended(p) ==
  /\ p \in PDUs
  /\ toClient' = Append(toClient, p)
  /\ UNCHANGED <<entries, maxSerial, link, toCache, pc, client, have, learned>>
  /\ \A i \in InForce : Will(i) => Will(i)'

LEMMA AppendedDelivered ==
  ASSUME IInv, learned # Foreign, NEW p, Appended(p), UNCHANGED session,
         p.type = "END_OF_DATA" =>
           /\ p.serial = maxSerial
           /\ \A i \in InForce : Holds(toClient', have, Len(toClient) + 1, entries[i].roa) /\ Will(i)'
  PROVE  InQueries' /\ AtEndOfData' /\ AtSerial'
<1>0. Typed /\ Listed /\ Sessions /\ InResponse /\ InQueries /\ AtEndOfData /\ AtSerial
  BY DEF IInv, Delivered
<1>1. /\ p \in PDUs /\ toClient' = Append(toClient, p)
      /\ UNCHANGED <<entries, maxSerial, session, link, toCache, pc, client, have, learned>>
      /\ InForce' = InForce
      /\ \A i \in InForce : Will(i) => Will(i)'
  BY DEF Appended, InForce
<1>2. \A i \in InForce : Coming(i) => Coming(i)'
  BY <1>1 DEF Coming, ResetAsked
<1>3. InQueries'
  BY <1>0, <1>1 DEF InQueries, ResetBefore
<1>4. AtSerial'
  BY <1>0, <1>1, <1>2 DEF AtSerial, Receiving
<1>5. /\ toClient \in Seq(PDUs) /\ Len(toClient) \in Nat /\ DOMAIN toClient = 1 .. Len(toClient)
      /\ DOMAIN toClient' = 1 .. Len(toClient) + 1
      /\ \A j \in 1 .. Len(toClient) : toClient'[j] = toClient[j]
      /\ toClient'[Len(toClient) + 1] = p
  BY <1>0, <1>1, SessionNumbers
<1>6. AtEndOfData'
  <2>1. ASSUME NEW j \in DOMAIN toClient', toClient'[j].type = "END_OF_DATA", toClient'[j].session = session
        PROVE  /\ toClient'[j].serial <= maxSerial
               /\ \A i \in InForce : entries[i].serial <= toClient'[j].serial =>
                    Holds(toClient', have, j, entries[i].roa) /\ (link => Coming(i)')
    <3>1. CASE j = Len(toClient) + 1
      <4>1. maxSerial \in Nat
        BY <1>0, InForceFacts DEF Listed
      <4> QED
        BY <1>5, <2>1, <3>1, <4>1 DEF Coming
    <3>2. CASE j \in 1 .. Len(toClient)
      <4>1. /\ toClient[j].serial <= maxSerial
            /\ \A i \in InForce : entries[i].serial <= toClient[j].serial =>
                 Holds(toClient, have, j, entries[i].roa) /\ (link => Coming(i))
        BY <1>0, <1>5, <2>1, <3>2 DEF AtEndOfData
      <4>2. \A i \in InForce : Holds(toClient, have, j, entries[i].roa) =>
                                 Holds(toClient', have, j, entries[i].roa)
        <5>1. j \in 0 .. Len(toClient)
          BY <1>5, <3>2
        <5>2. ASSUME NEW r, Holds(toClient, have, j, r) PROVE Holds(toClient', have, j, r)
          <6>1. Holds(Append(toClient, p), have, j, r)
            BY <1>1, <1>5, <5>1, <5>2, HoldsAppend
          <6> QED
            BY <1>1, <6>1
        <5> QED
          BY <5>2
      <4> QED
        BY <1>2, <1>5, <3>2, <4>1, <4>2
    <3> QED
      BY <1>5, <3>1, <3>2
  <2> QED
    BY <1>1, <2>1 DEF AtEndOfData
<1> QED
  BY <1>3, <1>4, <1>6

\* A PDU that carries no ROA of the kind keeps what the client will hold.
LEMMA AppendKeepsHeld ==
  ASSUME Typed, NEW p \in PDUs, toClient' = Append(toClient, p), UNCHANGED have,
         NEW r, WillHold(r), ~Withdraws(p, r)
  PROVE  WillHold(r)'
<1>1. toClient \in Seq(PDUs) /\ Len(toClient') = Len(toClient) + 1
  BY SessionNumbers
<1>2. Holds(Append(toClient, p), have, Len(toClient) + 1, r)
  BY <1>1, HoldsAppend DEF WillHold
<1> QED
  BY <1>1, <1>2 DEF WillHold

LEMMA NotifyAppended ==
  ASSUME IInv, NEW s \in Session,
         toClient' = Append(toClient, [type |-> "SERIAL_NOTIFY", session |-> s]),
         UNCHANGED <<entries, maxSerial, sending, link, toCache, pc, client, have, learned>>
  PROVE  Appended([type |-> "SERIAL_NOTIFY", session |-> s])
<1> DEFINE p == [type |-> "SERIAL_NOTIFY", session |-> s]
<1>1. p \in PDUs /\ p.type = "SERIAL_NOTIFY" /\ toClient' = Append(toClient, p)
  BY DEF PDUs
<1> HIDE DEF p
<1>2. \A r : ~Withdraws(p, r)
  BY <1>1 DEF Withdraws
<1>3. ASSUME NEW i \in InForce, Will(i) PROVE Will(i)'
  <2>1. CASE i \in sending.left
    BY <2>1 DEF Will
  <2>2. CASE WillHold(entries[i].roa)
    <3>1. WillHold(entries[i].roa)'
      <4>1. ASSUME NEW r, WillHold(r) PROVE WillHold(r)'
        BY <1>1, <1>2, <4>1, AppendKeepsHeld DEF IInv
      <4>2. entries'[i] = entries[i]
        OBVIOUS
      <4> QED
        BY <2>2, <4>1 DEF WillHold
    <3> QED
      BY <3>1 DEF Will
  <2> QED
    BY <1>3, <2>1, <2>2 DEF Will
<1> QED
  BY <1>1, <1>3 DEF Appended, p

LEMMA TimerDelivered ==
  ASSUME IInv, learned # Foreign, ServiceTimer
  PROVE  InResponse' /\ InQueries' /\ AtEndOfData' /\ AtSerial'
<1> DEFINE p == [type |-> "SERIAL_NOTIFY", session |-> session]
<1>0. Typed /\ InResponse /\ InQueries /\ AtEndOfData /\ AtSerial
  BY DEF IInv, Delivered
<1>1. UNCHANGED <<entries, maxSerial, sending, session, link, toCache, pc, client, have, learned>>
  BY DEF ServiceTimer
<1>2. CASE toClient' = toClient
  <2>1. \A i : Will(i)' <=> Will(i)
    BY <1>1, <1>2 DEF Will, WillHold
  <2> QED
    BY <1>0, <1>1, <1>2, <2>1
       DEF InResponse, InQueries, AtEndOfData, AtSerial, InForce, Responding, Coming, ResetAsked,
           ResetBefore, Receiving
<1>3. CASE toClient' = Append(toClient, p)
  <2>1. session \in Session
    BY <1>0 DEF Typed, TypeOK
  <2>2. Appended(p) /\ p.type # "END_OF_DATA"
    BY <1>1, <1>3, <2>1, NotifyAppended
  <2>3. InResponse'
    BY <1>0, <1>1, <2>2 DEF InResponse, Appended, InForce, Responding
  <2> HIDE DEF p
  <2> QED
    BY <1>1, <2>2, <2>3, AppendedDelivered
<1> QED
  BY <1>2, <1>3 DEF ServiceTimer, Notified

LEMMA SessionDelivered ==
  ASSUME IInv, learned # Foreign, processSessionID
  PROVE  InResponse' /\ InQueries' /\ AtEndOfData' /\ AtSerial'
<1> DEFINE p == [type |-> "SERIAL_NOTIFY", session |-> session + 1]
<1>0. Typed /\ Sessions /\ InResponse
  BY DEF IInv, Delivered
<1>1. /\ UNCHANGED <<entries, maxSerial, sending, link, toCache, pc, client, have, learned>>
      /\ session' = session + 1 /\ session < MaxSession
  BY DEF processSessionID
<1>2. session \in Nat /\ MaxSession \in Nat /\ learned \in Nat /\ learned <= session
  BY <1>0, SessionNumbers DEF Sessions, Learned
<1>3. session + 1 \in Session
  BY <1>1, <1>2 DEF Session
<1>4. toClient' = toClient \/ toClient' = Append(toClient, p)
  BY DEF processSessionID
<1>5. InResponse'
  <2>1. CASE toClient' = toClient
    <3>1. \A i : Will(i)' <=> Will(i)
      BY <1>1, <2>1 DEF Will, WillHold
    <3> QED
      BY <1>0, <1>1, <3>1 DEF InResponse, InForce, Responding
  <2>2. CASE toClient' = Append(toClient, p)
    <3>1. Appended(p)
      BY <1>1, <1>3, <2>2, NotifyAppended
    <3> QED
      BY <1>0, <1>1, <3>1 DEF InResponse, Appended, InForce, Responding
  <2> QED
    BY <1>4, <2>1, <2>2
<1>6. InQueries'
  <2>1. ASSUME NEW k \in DOMAIN toCache, toCache[k].type = "SERIAL_QUERY"
        PROVE  toCache[k].session # session + 1
    <3>1. toCache[k].session \in Nat /\ toCache[k].session <= session
      BY <1>0, <2>1, SessionNumbers DEF Sessions, Learned
    <3> QED
      BY <1>2, <3>1
  <2> QED
    BY <1>1, <2>1 DEF InQueries
<1>7. AtEndOfData'
  <2>1. toClient \in Seq(PDUs) /\ DOMAIN toClient = 1 .. Len(toClient) /\ Len(toClient) \in Nat
    BY <1>0, SessionNumbers
  <2>2. p \in PDUs
    BY <1>3 DEF PDUs
  <2>3. ASSUME NEW j \in DOMAIN toClient', toClient'[j].type = "END_OF_DATA"
        PROVE  toClient'[j].session # session + 1
    <3>1. j \in DOMAIN toClient /\ toClient'[j] = toClient[j]
      <4>1. CASE toClient' = toClient
        BY <4>1
      <4>2. CASE toClient' = Append(toClient, p)
        <5>1. p.type = "SERIAL_NOTIFY"
          OBVIOUS
        <5> HIDE DEF p
        <5>2. j # Len(toClient) + 1
          BY <2>1, <2>2, <2>3, <4>2, <5>1
        <5> QED
          BY <2>1, <2>2, <4>2, <5>2
      <4> QED
        BY <1>4, <4>1, <4>2
    <3>2. toClient[j].session \in Nat /\ toClient[j].session <= session
      BY <1>0, <2>3, <3>1, SessionNumbers DEF Sessions, Growing, Grows, WithSession
    <3> QED
      BY <1>2, <3>1, <3>2
  <2> QED
    BY <1>1, <2>3 DEF AtEndOfData
<1>8. AtSerial'
  BY <1>1, <1>2 DEF AtSerial
<1> QED
  BY <1>5, <1>6, <1>7, <1>8

LEMMA SendDelivered ==
  ASSUME IInv, learned # Foreign, CacheSend
  PROVE  InResponse' /\ InQueries' /\ AtEndOfData' /\ AtSerial'
<1> DEFINE p == NextPDU
<1>0. Typed /\ Listed /\ InResponse
  BY DEF IInv, Delivered
<1>1. /\ UNCHANGED <<entries, maxSerial, session, link, toCache, pc, client, have, learned>>
      /\ sending # Idle /\ toClient' = Append(toClient, p) /\ sending' = RestOfResponse
  BY DEF CacheSend
<1>2. p \in PDUs
  BY <1>0, <1>1, NextPDUTyped
<1>3. /\ toClient \in Seq(PDUs) /\ Len(toClient) \in Nat /\ Len(toClient') = Len(toClient) + 1
  BY <1>0, <1>1, <1>2, SessionNumbers
<1>4. sending.next \in {"CACHE_RESPONSE", "DATA", "CACHE_RESET"}
  BY <1>0, <1>1 DEF Typed, TypeOK, Leftover, Responding, Idle
\* A ROA that the PDU withdraws is not in force, or announced again.
<1>5. ASSUME NEW i \in InForce, Will(i) PROVE Will(i)'
  <2>1. CASE sending.next = "DATA" /\ sending.left # {}
    <3> DEFINE m == Min(sending.left)
               e == entries[m]
    <3>1. /\ p = [type |-> "PREFIX", roas |-> {e.roa}, announced |-> e.announced]
          /\ sending' = [sending EXCEPT !.left = @ \ {Min(@)}]
      BY <1>1, <2>1 DEF NextPDU, RestOfResponse
    <3>2. sending'.left = sending.left \ {m}
      BY <1>0, <3>1 DEF Typed, TypeOK
    <3>3. sending.left \subseteq DOMAIN entries /\ DOMAIN entries = 1 .. Len(entries)
      BY <1>0, EntryTyped DEF Typed, TypeOK
    <3>4. m \in sending.left
      BY <2>1, <3>3, LeastPlace
    <3> HIDE DEF m
    <3>5. entries[m] \in Entries /\ entries[m].announced \in BOOLEAN
      BY <1>0, <3>3, <3>4, EntryTyped DEF Entries
    <3>6. CASE i = m
      <4>1. entries[m].announced
        BY <3>6 DEF InForce
      <4>2. Announces(p, entries[i].roa)
        BY <3>1, <3>6, <4>1 DEF Announces
      <4>3. Holds(Append(toClient, p), have, Len(toClient) + 1, entries[i].roa)
        BY <1>2, <1>3, <4>2, HoldsAppend
      <4> QED
        BY <1>1, <1>3, <4>3 DEF Will, WillHold
    <3>7. CASE i # m /\ i \in sending.left
      BY <3>2, <3>7 DEF Will
    <3>8. CASE i # m /\ i \notin sending.left
      <4>1. entries[i].roa # entries[m].roa
        BY <1>0, <3>4, <3>8 DEF Listed, LeftClosed
      <4>2. ~Withdraws(p, entries[i].roa)
        BY <3>1, <4>1 DEF Withdraws
      <4>3. WillHold(entries[i].roa)
        BY <1>5, <3>8 DEF Will
      <4>4. Holds(Append(toClient, p), have, Len(toClient) + 1, entries[i].roa)
        BY <1>2, <1>3, <4>2, <4>3, HoldsAppend DEF WillHold
      <4> QED
        BY <1>1, <1>3, <4>4 DEF Will, WillHold
    <3> QED
      BY <3>6, <3>7, <3>8
  <2>2. CASE ~(sending.next = "DATA" /\ sending.left # {})
    <3>1. p.type # "PREFIX"
      BY <1>4, <2>2 DEF NextPDU
    <3>2. CASE i \in sending.left
      <4>1. sending.next = "CACHE_RESPONSE"
        BY <1>0, <1>4, <2>2, <3>2 DEF Typed, Leftover, Responding
      <4>2. sending'.left = sending.left
        BY <1>0, <1>1, <4>1 DEF RestOfResponse, Typed, TypeOK
      <4> QED
        BY <3>2, <4>2 DEF Will
    <3>3. CASE i \notin sending.left
      <4>1. ~Withdraws(p, entries[i].roa)
        BY <3>1 DEF Withdraws
      <4>2. WillHold(entries[i].roa)
        BY <1>5, <3>3 DEF Will
      <4>3. Holds(Append(toClient, p), have, Len(toClient) + 1, entries[i].roa)
        BY <1>2, <1>3, <4>1, <4>2, HoldsAppend DEF WillHold
      <4> QED
        BY <1>1, <1>3, <4>3 DEF Will, WillHold
    <3> QED
      BY <3>2, <3>3
  <2> QED
    BY <2>1, <2>2
<1>6. InResponse'
  <2>1. Responding' => Responding
    <3>1. sending.next = "CACHE_RESET" => sending' = Idle
      BY <1>1 DEF RestOfResponse
    <3> QED
      BY <1>4, <3>1 DEF Responding, Idle
  <2> QED
    BY <1>0, <1>1, <1>5, <2>1 DEF InResponse, InForce
<1>7. Appended(p)
  BY <1>1, <1>2, <1>5 DEF Appended
<1>8. ASSUME p.type = "END_OF_DATA"
      PROVE  /\ p.serial = maxSerial
             /\ \A i \in InForce : Holds(toClient', have, Len(toClient) + 1, entries[i].roa) /\ Will(i)'
  <2>1. sending.next = "DATA" /\ sending.left = {} /\ p.serial = maxSerial
    BY <1>0, <1>1, <1>8, NextPDUSession
  <2>2. ASSUME NEW i \in InForce
        PROVE  Holds(toClient', have, Len(toClient) + 1, entries[i].roa) /\ Will(i)'
    <3>1. Will(i)
      BY <1>0, <2>1 DEF InResponse, Responding
    <3>2. WillHold(entries[i].roa)
      BY <2>1, <3>1 DEF Will
    <3>3. ~Withdraws(p, entries[i].roa)
      BY <1>8 DEF Withdraws
    <3>4. Holds(Append(toClient, p), have, Len(toClient) + 1, entries[i].roa)
      BY <1>2, <1>3, <3>2, <3>3, HoldsAppend DEF WillHold
    <3> QED
      BY <1>1, <1>5, <3>1, <3>4
  <2> QED
    BY <2>1, <2>2
<1> HIDE DEF p
<1> QED
  BY <1>1, <1>6, <1>7, <1>8, AppendedDelivered

LEMMA ListDelivered ==
  ASSUME IInv, learned # Foreign, ListChanged, Typed'
  PROVE  InResponse' /\ InQueries' /\ AtEndOfData' /\ AtSerial'
<1>0. Typed /\ Listed /\ Sessions /\ InResponse /\ InQueries /\ AtEndOfData /\ AtSerial
  BY DEF IInv, Delivered
<1>1. /\ sending = Idle /\ sending' = Idle /\ maxSerial <= maxSerial'
      /\ UNCHANGED <<session, link, toCache, toClient, pc, client, have, learned>>
  BY DEF ListChanged, connection
<1>2. maxSerial \in Nat /\ maxSerial' \in Nat
  BY <1>0, InForceFacts, Bounds DEF Listed, Typed, TypeOK, Serial
<1>3. InResponse'
  BY <1>1 DEF InResponse, Responding, Idle
\* What held for all entries of a serial up to maxSerial, still holds.
<1>4. ASSUME NEW k \in InForce', NEW n \in Nat, n <= maxSerial, entries'[k].serial <= n
      PROVE  \E i \in InForce : entries'[k] = entries[i] /\ entries[i].serial <= n
  <2>1. CASE entries'[k].serial > maxSerial
    <3>1. entries' \in Seq(Entries) /\ k \in DOMAIN entries'
      BY DEF Typed, TypeOK, Entries, InForce
    <3>2. entries'[k] \in Entries
      BY <3>1
    <3>3. entries'[k].serial \in Nat
      BY <3>2, Bounds DEF Entries, Serial
    <3> QED
      BY <1>2, <1>4, <2>1, <3>3
  <2>2. CASE \E i \in InForce : entries'[k] = entries[i]
    BY <1>4, <2>2
  <2> QED
    BY <2>1, <2>2 DEF ListChanged, Inherits
<1>5. ASSUME NEW i \in InForce, NEW k \in InForce', entries'[k] = entries[i]
      PROVE  /\ Will(i) => Will(k)'
             /\ Coming(i) => Coming(k)'
  <2>1. Will(i) => WillHold(entries[i].roa)
    BY <1>1 DEF Will, Idle
  <2>2. WillHold(entries[i].roa) => Will(k)'
    BY <1>1, <1>5 DEF Will, WillHold
  <2> QED
    BY <1>1, <2>1, <2>2 DEF Coming, ResetAsked
<1>6. InQueries'
  <2>1. ASSUME NEW q \in DOMAIN toCache, toCache[q].type = "SERIAL_QUERY", toCache[q].session = session
        PROVE  /\ toCache[q].serial <= maxSerial'
               /\ \A k \in InForce' :
                    entries'[k].serial <= toCache[q].serial => Will(k)' \/ ResetBefore(q)
    <3>1. /\ toCache[q].serial <= maxSerial /\ toCache[q].serial \in Nat
          /\ \A i \in InForce : entries[i].serial <= toCache[q].serial => Will(i) \/ ResetBefore(q)
      BY <1>0, <2>1, SessionNumbers DEF InQueries
    <3>2. ASSUME NEW k \in InForce', entries'[k].serial <= toCache[q].serial
          PROVE  Will(k)' \/ ResetBefore(q)
      <4>1. PICK i \in InForce : entries'[k] = entries[i] /\ entries[i].serial <= toCache[q].serial
        BY <1>4, <3>1, <3>2
      <4> QED
        BY <1>5, <3>1, <4>1
    <3>3. toCache[q].serial <= maxSerial'
      BY <1>1, <1>2, <3>1
    <3> QED
      BY <3>2, <3>3
  <2> QED
    BY <1>1, <2>1 DEF InQueries, ResetBefore
<1>7. AtEndOfData'
  <2>1. ASSUME NEW j \in DOMAIN toClient, toClient[j].type = "END_OF_DATA", toClient[j].session = session
        PROVE  /\ toClient[j].serial <= maxSerial'
               /\ \A k \in InForce' : entries'[k].serial <= toClient[j].serial =>
                    Holds(toClient, have, j, entries'[k].roa) /\ (link => Coming(k)')
    <3>1. /\ toClient[j].serial <= maxSerial /\ toClient[j].serial \in Nat
          /\ \A i \in InForce : entries[i].serial <= toClient[j].serial =>
               Holds(toClient, have, j, entries[i].roa) /\ (link => Coming(i))
      BY <1>0, <2>1, SessionNumbers DEF AtEndOfData
    <3>2. ASSUME NEW k \in InForce', entries'[k].serial <= toClient[j].serial
          PROVE  Holds(toClient, have, j, entries'[k].roa) /\ (link => Coming(k)')
      <4>1. PICK i \in InForce : entries'[k] = entries[i] /\ entries[i].serial <= toClient[j].serial
        BY <1>4, <3>1, <3>2
      <4> QED
        BY <1>5, <3>1, <4>1
    <3>3. toClient[j].serial <= maxSerial'
      BY <1>1, <1>2, <3>1
    <3> QED
      BY <3>2, <3>3
  <2> QED
    BY <1>1, <2>1 DEF AtEndOfData
<1>8. AtSerial'
  <2>1. ASSUME learned = session
        PROVE  /\ client.serial <= maxSerial'
               /\ link /\ Receiving =>
                    \A k \in InForce' : entries'[k].serial <= client.serial => Coming(k)'
    <3>1. /\ client.serial <= maxSerial /\ client.serial \in Nat
          /\ link /\ Receiving =>
               \A i \in InForce : entries[i].serial <= client.serial => Coming(i)
      BY <1>0, <2>1, SessionNumbers DEF AtSerial
    <3>2. ASSUME link, Receiving, NEW k \in InForce', entries'[k].serial <= client.serial
          PROVE  Coming(k)'
      <4>1. PICK i \in InForce : entries'[k] = entries[i] /\ entries[i].serial <= client.serial
        BY <1>4, <3>1, <3>2
      <4> QED
        BY <1>5, <3>1, <3>2, <4>1
    <3>3. client.serial <= maxSerial'
      BY <1>1, <1>2, <3>1
    <3> QED
      BY <3>2, <3>3
  <2> QED
    BY <1>1, <2>1 DEF AtSerial, Receiving
<1> QED
  BY <1>3, <1>6, <1>7, <1>8

LEMMA LossDelivered ==
  ASSUME IInv, learned # Foreign, LoseConnection
  PROVE  InResponse' /\ InQueries' /\ AtEndOfData' /\ AtSerial'
<1>0. Typed /\ Listed /\ AtEndOfData /\ AtSerial
  BY DEF IInv, Delivered
<1>1. /\ link' = FALSE /\ toCache' = <<>> /\ sending' = Idle
      /\ UNCHANGED <<entries, maxSerial, session, pc, client, have, learned>>
  BY DEF LoseConnection
<1>2. InResponse' /\ InQueries' /\ AtSerial'
  BY <1>0, <1>1 DEF InResponse, InQueries, AtSerial, Responding, Idle
<1>3. PICK n \in 0 .. Len(toClient), header \in BOOLEAN : toClient' = Rest(n, header)
  BY DEF LoseConnection
<1>4. /\ toClient' \in Seq(PDUs) /\ Len(toClient') \in Nat
      /\ Len(toClient') <= n + 1
      /\ \A j \in 1 .. Len(toClient') :
           /\ j <= n => toClient'[j] = toClient[j]
           /\ j > n => (toClient'[j].type = "END_OF_DATA" => toClient'[j].serial = 0)
  BY <1>0, <1>3, RestFacts
<1>5. AtEndOfData'
  <2>1. ASSUME NEW j \in DOMAIN toClient', toClient'[j].type = "END_OF_DATA",
               toClient'[j].session = session
        PROVE  /\ toClient'[j].serial <= maxSerial
               /\ \A i \in InForce : entries[i].serial <= toClient'[j].serial =>
                    Holds(toClient', have, j, entries[i].roa)
    <3>0. /\ j \in 1 .. Len(toClient') /\ n \in Nat /\ n <= Len(toClient) /\ j \in Nat
          /\ DOMAIN toClient = 1 .. Len(toClient) /\ Len(toClient) \in Nat
      BY <1>0, <1>4, SessionNumbers
    <3>1. CASE j > n
      <4>1. toClient'[j].serial = 0
        BY <1>4, <2>1, <3>0, <3>1
      <4>2. \A i \in InForce : ~(entries[i].serial <= 0)
        BY <1>0, InForceRoa
      <4>3. maxSerial \in Nat
        BY <1>0, InForceFacts DEF Listed
      <4> QED
        BY <4>1, <4>2, <4>3
    <3>2. CASE j <= n
      <4>1. /\ \A l \in 1 .. j : toClient'[l] = toClient[l]
            /\ j \in DOMAIN toClient /\ toClient'[j] = toClient[j]
        <5>1. \A l \in 1 .. j : l \in 1 .. Len(toClient') /\ l <= n
          BY <3>0, <3>2
        <5> QED
          BY <1>4, <3>0, <3>2, <5>1
      <4>2. /\ toClient[j].serial <= maxSerial
            /\ \A i \in InForce : entries[i].serial <= toClient[j].serial =>
                 Holds(toClient, have, j, entries[i].roa)
        BY <1>0, <2>1, <4>1 DEF AtEndOfData
      <4>3. ASSUME NEW r, Holds(toClient, have, j, r) PROVE Holds(toClient', have, j, r)
        BY <3>0, <4>1, <4>3, HoldsSame
      <4> QED
        BY <4>1, <4>2, <4>3
    <3> QED
      BY <3>0, <3>1, <3>2
  <2>2. InForce' = InForce
    BY <1>1 DEF InForce
  <2> QED
    BY <1>1, <2>1, <2>2 DEF AtEndOfData
<1> QED
  BY <1>2, <1>5

LEMMA RestartDelivered ==
  ASSUME IInv, learned # Foreign, RestartCache
  PROVE  InResponse' /\ InQueries' /\ AtEndOfData' /\ AtSerial'
<1>0. Typed /\ Sessions
  BY DEF IInv
<1>1. /\ entries' = <<>> /\ toCache' = <<>> /\ sending' = Idle /\ session' = session + 1
      /\ UNCHANGED <<pc, client, have, learned>>
  BY DEF RestartCache
<1>2. session \in Nat /\ learned \in Nat /\ learned <= session
  BY <1>0, SessionNumbers DEF Sessions, Learned
<1>3. InResponse' /\ InQueries' /\ AtSerial'
  BY <1>1, <1>2 DEF InResponse, InQueries, AtSerial, Responding, Idle
<1>4. PICK n \in 0 .. Len(toClient), header \in BOOLEAN : toClient' = Rest(n, header)
  BY DEF RestartCache
<1>5. Grows(toClient', client.session, session) /\ toClient' \in Seq(PDUs)
  BY <1>0, <1>4, RestGrows, RestTyped
<1>6. AtEndOfData'
  <2>1. ASSUME NEW j \in DOMAIN toClient', toClient'[j].type = "END_OF_DATA"
        PROVE  toClient'[j].session # session + 1
    <3>1. toClient'[j] \in PDUs /\ toClient'[j].type \in WithSession
      BY <1>5, <2>1 DEF WithSession
    <3>2. toClient'[j].session \in Nat /\ toClient'[j].session <= session
      BY <1>5, <3>1, SessionNatural DEF Grows
    <3> QED
      BY <1>2, <3>2
  <2> QED
    BY <1>1, <2>1 DEF AtEndOfData
<1> QED
  BY <1>3, <1>6

LEMMA ReconnectDelivered ==
  ASSUME IInv, learned # Foreign, NEW succ, Reconnect(succ)
  PROVE  InResponse' /\ InQueries' /\ AtEndOfData' /\ AtSerial'
<1>0. Typed /\ AtSerial
  BY DEF IInv, Delivered
<1>1. /\ toClient' = <<>> /\ toCache' = <<>> /\ sending' = Idle /\ pc' \in {"renew", "reset"}
      /\ client'.serial = client.serial
      /\ UNCHANGED <<entries, maxSerial, session, have, learned>>
  BY <1>0 DEF Reconnect, Typed, TypeOK
<1> QED
  BY <1>0, <1>1 DEF InResponse, InQueries, AtEndOfData, AtSerial, Responding, Idle, Receiving

\* A PDU the client takes off and counts keeps what it will hold.
Counted ==
  /\ toClient # <<>> /\ toClient' = Tail(toClient)
  /\ \A r \in Roa : /\ Announces(Head(toClient), r) => have'[r] > 0
                    /\ have[r] > 0 /\ ~Withdraws(Head(toClient), r) => have'[r] > 0
  /\ UNCHANGED <<entries, maxSerial, session, sending, link>>

LEMMA ReceivedCounted ==
  ASSUME Typed, ReceiveNotify \/ ReceiveResponse \/ ReceivePrefix \/ ReceiveEndOfData \/ ReceiveReset
  PROVE  Counted
<1> DEFINE p == Head(toClient)
<1>1. /\ toClient # <<>> /\ toClient' = Tail(toClient)
      /\ UNCHANGED <<entries, maxSerial, session, sending, link>>
  BY DEF ReceiveNotify, ReceiveResponse, ReceivePrefix, ReceiveEndOfData, ReceiveReset, Receive, cache
<1>2. CASE ReceivePrefix
  <2>1. have' = [r \in Roa |->
                  IF r \notin p.roas THEN have[r]
                  ELSE IF p.announced THEN have[r] + 1
                  ELSE IF have[r] > 0 THEN have[r] - 1 ELSE 0]
    BY <1>2 DEF ReceivePrefix
  <2>2. p.type = "PREFIX"
    BY <1>2 DEF ReceivePrefix, Receive
  <2>3. ASSUME NEW r \in Roa
        PROVE  /\ Announces(p, r) => have'[r] > 0
               /\ have[r] > 0 /\ ~Withdraws(p, r) => have'[r] > 0
    <3>1. have[r] \in Nat
      BY DEF Typed, TypeOK
    <3> HIDE DEF p
    <3>2. CASE r \notin p.roas
      BY <2>1, <3>1, <3>2 DEF Announces
    <3>3. CASE r \in p.roas /\ p.announced
      BY <2>1, <3>1, <3>3
    <3>4. CASE r \in p.roas /\ ~p.announced
      BY <2>2, <3>4 DEF Announces, Withdraws
    <3> QED
      BY <3>2, <3>3, <3>4
  <2> QED
    BY <1>1, <2>3 DEF Counted
<1>3. CASE ReceiveNotify \/ ReceiveResponse \/ ReceiveEndOfData \/ ReceiveReset
  <2>1. UNCHANGED have
    BY <1>3 DEF ReceiveNotify, ReceiveResponse, ReceiveEndOfData, ReceiveReset
  <2>2. p.type # "PREFIX"
    BY <1>3 DEF ReceiveNotify, ReceiveResponse, ReceiveEndOfData, ReceiveReset, Receive
  <2> QED
    BY <1>1, <2>1, <2>2 DEF Counted, Announces
<1> QED
  BY <1>2, <1>3

LEMMA CountedHolds ==
  ASSUME Typed, Counted, NEW r \in Roa, NEW j \in 1 .. Len(toClient), Holds(toClient, have, j, r)
  PROVE  Holds(toClient', have', j - 1, r)
<1>1. toClient \in Seq(PDUs) /\ toClient # <<>> /\ toClient' = Tail(toClient)
  BY SessionNumbers DEF Counted
<1>2. /\ Announces(Head(toClient), r) => have'[r] > 0
      /\ have[r] > 0 /\ ~Withdraws(Head(toClient), r) => have'[r] > 0
  BY DEF Counted
<1>3. Holds(Tail(toClient), have', j - 1, r)
  BY <1>1, <1>2, HoldsTail
<1> QED
  BY <1>1, <1>3

LEMMA CountedWill ==
  ASSUME Typed, Listed, Counted, NEW i \in InForce, Will(i)
  PROVE  Will(i)'
<1>1. /\ toClient \in Seq(PDUs) /\ Len(toClient) \in Nat /\ toClient # <<>>
      /\ toClient' = Tail(toClient) /\ UNCHANGED <<sending, entries>>
  BY SessionNumbers DEF Counted
<1>2. Len(toClient) \in 1 .. Len(toClient) /\ Len(toClient') = Len(toClient) - 1
  BY <1>1
<1>3. CASE i \in sending.left
  BY <1>1, <1>3 DEF Will
<1>4. CASE WillHold(entries[i].roa)
  <2>1. Holds(toClient, have, Len(toClient), entries[i].roa) /\ entries[i].roa \in Roa
    BY <1>4, InForceRoa DEF WillHold
  <2>2. Holds(toClient', have', Len(toClient) - 1, entries[i].roa)
    BY <1>2, <2>1, CountedHolds
  <2> QED
    BY <1>1, <1>2, <2>2 DEF Will, WillHold
<1> QED
  BY <1>3, <1>4 DEF Will

\* The client's query is put at the end of those to the cache.
LEMMA QueryAsked ==
  ASSUME Typed, NEW q \in Queries, Query(q)
  PROVE  /\ ResetAsked => ResetAsked'
         /\ \A k \in DOMAIN toCache : ResetBefore(k) => ResetBefore(k)'
         /\ link /\ q.type = "RESET_QUERY" => ResetAsked'
         /\ \A k \in DOMAIN toCache' :
              \/ k \in DOMAIN toCache /\ toCache'[k] = toCache[k]
              \/ link /\ toCache'[k] = q /\ (ResetAsked => ResetBefore(k)')
<1>1. toCache \in Seq(Queries) /\ Len(toCache) \in Nat /\ DOMAIN toCache = 1 .. Len(toCache)
  BY SessionNumbers
<1>2. CASE toCache' = toCache /\ ~link
  BY <1>1, <1>2 DEF ResetAsked, ResetBefore
<1>3. CASE toCache' = Append(toCache, q) /\ link
  <2>1. /\ DOMAIN toCache' = 1 .. Len(toCache) + 1
        /\ \A k \in 1 .. Len(toCache) : toCache'[k] = toCache[k]
        /\ toCache'[Len(toCache) + 1] = q
    BY <1>1, <1>3
  <2>2. 1 .. Len(toCache) \subseteq 1 .. Len(toCache) + 1
    BY <1>1
  <2>3. ASSUME ResetAsked PROVE ResetAsked' /\ \A k : k = Len(toCache) + 1 => ResetBefore(k)'
    <3>1. PICK l \in 1 .. Len(toCache) : toCache[l].type = "RESET_QUERY"
      BY <1>1, <2>3 DEF ResetAsked
    <3>2. l \in 1 .. (Len(toCache) + 1) - 1 /\ toCache'[l].type = "RESET_QUERY" /\ l \in DOMAIN toCache'
      BY <1>1, <2>1, <2>2, <3>1
    <3> QED
      BY <3>2 DEF ResetAsked, ResetBefore
  <2>4. ASSUME NEW k \in DOMAIN toCache, ResetBefore(k) PROVE ResetBefore(k)'
    <3>1. PICK l \in 1 .. k - 1 : toCache[l].type = "RESET_QUERY"
      BY <2>4 DEF ResetBefore
    <3>2. l \in 1 .. Len(toCache)
      BY <1>1
    <3> QED
      BY <2>1, <3>1, <3>2 DEF ResetBefore
  <2>5. q.type = "RESET_QUERY" => ResetAsked'
    BY <1>1, <2>1 DEF ResetAsked
  <2>6. \A k \in DOMAIN toCache' : k \in DOMAIN toCache \/ k = Len(toCache) + 1
    BY <1>1, <2>1
  <2> QED
    BY <1>1, <1>3, <2>1, <2>3, <2>4, <2>5, <2>6
<1> QED
  BY <1>2, <1>3 DEF Query

\* Receiving a PDU: what is left of the queries and of the PDUs.
LEMMA CountedDelivered ==
  ASSUME IInv, learned # Foreign, Counted, ResetAsked => ResetAsked'
  PROVE  /\ InResponse' /\ AtEndOfData'
         /\ \A i \in InForce : Coming(i) => Coming(i)'
<1>0. Typed /\ Listed /\ InResponse /\ AtEndOfData
  BY DEF IInv, Delivered
<1>1. /\ toClient # <<>> /\ toClient' = Tail(toClient)
      /\ UNCHANGED <<entries, maxSerial, session, sending, link>> /\ InForce' = InForce
  BY DEF Counted, InForce
<1>2. \A i \in InForce : Will(i) => Will(i)'
  BY <1>0, CountedWill
<1>3. \A i \in InForce : Coming(i) => Coming(i)'
  BY <1>2 DEF Coming
<1>4. InResponse'
  BY <1>0, <1>1, <1>2 DEF InResponse, Responding
<1>5. /\ toClient \in Seq(PDUs) /\ Len(toClient) \in Nat /\ Len(toClient) > 0
      /\ DOMAIN toClient = 1 .. Len(toClient)
      /\ DOMAIN toClient' = 1 .. Len(toClient) - 1
      /\ \A j \in 1 .. Len(toClient) - 1 : toClient'[j] = toClient[j + 1]
  BY <1>0, <1>1, SessionNumbers
<1>6. ASSUME NEW j \in DOMAIN toClient', toClient'[j].type = "END_OF_DATA", toClient'[j].session = session
      PROVE  /\ toClient'[j].serial <= maxSerial
             /\ \A i \in InForce : entries[i].serial <= toClient'[j].serial =>
                  Holds(toClient', have', j, entries[i].roa) /\ (link => Coming(i)')
  <2>1. /\ j + 1 \in 1 .. Len(toClient) /\ toClient'[j] = toClient[j + 1] /\ (j + 1) - 1 = j
    BY <1>5
  <2>2. /\ toClient'[j].serial <= maxSerial
        /\ \A i \in InForce : entries[i].serial <= toClient'[j].serial =>
             Holds(toClient, have, j + 1, entries[i].roa) /\ (link => Coming(i))
    BY <1>0, <1>5, <1>6, <2>1 DEF AtEndOfData
  <2>3. ASSUME NEW r \in Roa, Holds(toClient, have, j + 1, r) PROVE Holds(toClient', have', j, r)
    <3>1. Holds(toClient', have', (j + 1) - 1, r)
      BY <1>0, <2>1, <2>3, CountedHolds
    <3> QED
      BY <2>1, <3>1
  <2>4. \A i \in InForce : entries[i].roa \in Roa
    BY <1>0, InForceRoa
  <2> QED
    BY <1>3, <2>2, <2>3, <2>4
<1> QED
  BY <1>1, <1>3, <1>4, <1>6 DEF AtEndOfData

\* A query for the cache's ROAs, and the queries there were.
LEMMA ResetQueryDelivered ==
  ASSUME IInv, learned # Foreign, Query([type |-> "RESET_QUERY"]), UNCHANGED <<maxSerial, session, link>>,
         InForce' = InForce, UNCHANGED entries,
         \A i \in InForce : Will(i) => Will(i)'
  PROVE  InQueries' /\ (link => ResetAsked')
<1> DEFINE q == [type |-> "RESET_QUERY"]
<1>0. Typed /\ InQueries
  BY DEF IInv, Delivered
<1>1. q \in Queries /\ q.type = "RESET_QUERY" /\ Query(q)
  BY DEF Queries
<1> HIDE DEF q
<1>2. /\ \A k \in DOMAIN toCache : ResetBefore(k) => ResetBefore(k)'
      /\ link => ResetAsked'
      /\ \A k \in DOMAIN toCache' :
           \/ k \in DOMAIN toCache /\ toCache'[k] = toCache[k]
           \/ toCache'[k].type = "RESET_QUERY"
  BY <1>0, <1>1, QueryAsked
<1>3. ASSUME NEW k \in DOMAIN toCache', toCache'[k].type = "SERIAL_QUERY", toCache'[k].session = session
      PROVE  /\ toCache'[k].serial <= maxSerial
             /\ \A i \in InForce : entries[i].serial <= toCache'[k].serial => Will(i)' \/ ResetBefore(k)'
  <2>1. k \in DOMAIN toCache /\ toCache'[k] = toCache[k]
    BY <1>2, <1>3
  <2> QED
    BY <1>0, <1>2, <1>3, <2>1 DEF InQueries
<1> QED
  BY <1>2, <1>3 DEF InQueries

LEMMA NotifyDelivered ==
  ASSUME IInv, ReceiveNotify, learned' # Foreign, learned # Foreign
  PROVE  InResponse' /\ InQueries' /\ AtEndOfData' /\ AtSerial'
<1> DEFINE s == Head(toClient).session
           q == [type |-> "SERIAL_QUERY", session |-> s, serial |-> client.serial]
<1>0. Typed /\ Listed /\ Sessions /\ InQueries /\ AtSerial
  BY DEF IInv, Delivered
<1>1. Counted /\ UNCHANGED <<entries, maxSerial, session, sending, link>> /\ Receiving
  BY <1>0, ReceivedCounted DEF Counted, ReceiveNotify, Receive
<1>2. client'.serial = client.serial /\ learned' = learned
  BY <1>0, Checked DEF ReceiveNotify, Typed, TypeOK, checkSessionID
<1>3. q \in Queries
  <2>1. s \in Session
    BY <1>0, ReceivedTyped DEF ReceiveNotify
  <2>2. client.serial \in Serial
    BY <1>0 DEF Typed, TypeOK
  <2> QED
    BY <2>1, <2>2 DEF Queries
<1>4. q.type = "SERIAL_QUERY" /\ q.session = s /\ q.serial = client.serial
  OBVIOUS
<1>5. toCache' = toCache \/ (Query(q) /\ learned \in {0, s})
  BY <1>2 DEF ReceiveNotify
<1> HIDE DEF q, s
<1>6. ResetAsked => ResetAsked'
  <2>1. CASE toCache' = toCache
    BY <2>1 DEF ResetAsked
  <2>2. CASE Query(q)
    BY <1>0, <1>3, <2>2, QueryAsked
  <2> QED
    BY <1>5, <2>1, <2>2
<1>7. /\ InResponse' /\ AtEndOfData' /\ \A i \in InForce : Coming(i) => Coming(i)'
      /\ \A i \in InForce : Will(i) => Will(i)'
  BY <1>0, <1>1, <1>6, CountedDelivered, CountedWill
<1>8. AtSerial'
  BY <1>0, <1>1, <1>2, <1>7 DEF AtSerial, InForce
<1>9. InQueries'
  <2>1. CASE toCache' = toCache
    BY <1>0, <1>1, <1>7, <2>1 DEF InQueries, InForce, ResetBefore
  <2>2. CASE Query(q) /\ learned \in {0, s}
    <3>1. /\ \A k \in DOMAIN toCache : ResetBefore(k) => ResetBefore(k)'
          /\ \A k \in DOMAIN toCache' :
               \/ k \in DOMAIN toCache /\ toCache'[k] = toCache[k]
               \/ link /\ toCache'[k] = q /\ (ResetAsked => ResetBefore(k)')
      BY <1>0, <1>3, <2>2, QueryAsked
    <3>2. ASSUME NEW k \in DOMAIN toCache', toCache'[k].type = "SERIAL_QUERY", toCache'[k].session = session
          PROVE  /\ toCache'[k].serial <= maxSerial
                 /\ \A i \in InForce :
                      entries[i].serial <= toCache'[k].serial => Will(i)' \/ ResetBefore(k)'
      <4>1. CASE k \in DOMAIN toCache /\ toCache'[k] = toCache[k]
        BY <1>0, <1>7, <3>1, <3>2, <4>1 DEF InQueries
      <4>2. CASE link /\ toCache'[k] = q /\ (ResetAsked => ResetBefore(k)')
        <5>1. s = session /\ toCache'[k].serial = client.serial
          BY <1>4, <3>2, <4>2
        <5>2. CASE learned = 0
          <6>1. client.serial = 0
            BY <1>0, <5>2 DEF Sessions, Learned
          <6>2. \A i \in InForce : ~(entries[i].serial <= 0)
            BY <1>0, InForceRoa
          <6>3. maxSerial \in Nat
            BY <1>0, InForceFacts DEF Listed
          <6> QED
            BY <5>1, <6>1, <6>2, <6>3
        <5>3. CASE learned = session
          <6>1. /\ client.serial <= maxSerial
                /\ \A i \in InForce : entries[i].serial <= client.serial => Coming(i)
            BY <1>0, <1>1, <4>2, <5>3 DEF AtSerial
          <6> QED
            BY <1>7, <4>2, <5>1, <6>1 DEF Coming
        <5> QED
          BY <2>2, <5>1, <5>2, <5>3
      <4> QED
        BY <3>1, <4>1, <4>2
    <3> QED
      BY <1>1, <3>2 DEF InQueries, InForce
  <2> QED
    BY <1>5, <2>1, <2>2
<1> QED
  BY <1>7, <1>8, <1>9

LEMMA EndOfDataDelivered ==
  ASSUME IInv, ReceiveEndOfData, learned # Foreign
  PROVE  InResponse' /\ InQueries' /\ AtEndOfData' /\ AtSerial'
<1> DEFINE p == Head(toClient)
<1>0. Typed /\ Listed /\ Sessions /\ InQueries /\ AtEndOfData /\ AtSerial
  BY DEF IInv, Delivered
<1>1. /\ Counted /\ UNCHANGED <<entries, maxSerial, session, sending, link, toCache>> /\ Receiving
      /\ p.type = "END_OF_DATA"
  BY <1>0, ReceivedCounted DEF Counted, ReceiveEndOfData, Receive
<1>2. ResetAsked' <=> ResetAsked
  BY <1>1 DEF ResetAsked
<1>3. /\ InResponse' /\ AtEndOfData' /\ \A i \in InForce : Coming(i) => Coming(i)'
      /\ \A i \in InForce : Will(i) => Will(i)'
  BY <1>0, <1>1, <1>2, CountedDelivered, CountedWill
<1>4. InQueries'
  BY <1>0, <1>1, <1>3 DEF InQueries, InForce, ResetBefore
<1>5. /\ client'.serial = IF SessionOK(p.session) THEN p.serial ELSE client.serial
      /\ learned' = IF ~SessionOK(p.session) THEN learned
                    ELSE IF p.serial > 0 THEN p.session ELSE 0
  BY <1>0, Checked DEF ReceiveEndOfData, Typed, TypeOK, checkSessionID
<1>6. /\ 1 \in DOMAIN toClient /\ p = toClient[1]
  <2>1. toClient \in Seq(PDUs) /\ toClient # <<>>
    BY <1>0, <1>1, SessionNumbers DEF Counted
  <2> QED
    BY <2>1
<1>7. session \in Nat /\ session # 0
  BY <1>0, Bounds DEF Typed, TypeOK, Session
<1>8. p.session = session =>
        /\ p.serial <= maxSerial
        /\ link => \A i \in InForce : entries[i].serial <= p.serial => Coming(i)
  BY <1>0, <1>1, <1>6 DEF AtEndOfData
<1> HIDE DEF p
<1>9. AtSerial'
  <2>1. CASE SessionOK(p.session)
    BY <1>1, <1>3, <1>5, <1>7, <1>8, <2>1 DEF AtSerial, InForce
  <2>2. CASE ~SessionOK(p.session)
    BY <1>0, <1>1, <1>3, <1>5, <2>2 DEF AtSerial, InForce
  <2> QED
    BY <2>1, <2>2
<1> QED
  BY <1>3, <1>4, <1>9

LEMMA OtherReceivedDelivered ==
  ASSUME IInv, ReceiveResponse \/ ReceivePrefix \/ ReceiveReset, learned # Foreign
  PROVE  InResponse' /\ InQueries' /\ AtEndOfData' /\ AtSerial'
<1>0. Typed /\ Listed /\ InQueries /\ AtSerial
  BY DEF IInv, Delivered
<1>1. Counted /\ UNCHANGED <<entries, maxSerial, session, sending, link>> /\ Receiving
  BY <1>0, ReceivedCounted DEF Counted, ReceiveResponse, ReceivePrefix, ReceiveReset, Receive
<1>2. client'.serial = client.serial /\ learned' = learned
  BY <1>0, Checked DEF ReceiveResponse, ReceivePrefix, ReceiveReset, Typed, TypeOK, checkSessionID
<1>3. toCache' = toCache \/ Query([type |-> "RESET_QUERY"])
  BY DEF ReceiveResponse, ReceivePrefix, ReceiveReset
<1>4. ResetAsked => ResetAsked'
  <2>1. CASE toCache' = toCache
    BY <2>1 DEF ResetAsked
  <2>2. CASE Query([type |-> "RESET_QUERY"])
    <3>1. [type |-> "RESET_QUERY"] \in Queries
      BY DEF Queries
    <3> QED
      BY <1>0, <2>2, <3>1, QueryAsked
  <2> QED
    BY <1>3, <2>1, <2>2
<1>5. /\ InResponse' /\ AtEndOfData' /\ \A i \in InForce : Coming(i) => Coming(i)'
      /\ \A i \in InForce : Will(i) => Will(i)'
  BY <1>0, <1>1, <1>4, CountedDelivered, CountedWill
<1>6. AtSerial'
  BY <1>0, <1>1, <1>2, <1>5 DEF AtSerial, InForce
<1>7. InQueries'
  <2>1. CASE toCache' = toCache
    BY <1>0, <1>1, <1>5, <2>1 DEF InQueries, InForce, ResetBefore
  <2>2. CASE Query([type |-> "RESET_QUERY"])
    <3>1. InForce' = InForce
      BY <1>1 DEF InForce
    <3> QED
      BY <1>1, <1>5, <2>2, <3>1, ResetQueryDelivered
  <2> QED
    BY <1>3, <2>1, <2>2
<1> QED
  BY <1>5, <1>6, <1>7

LEMMA SendQueryDelivered ==
  ASSUME IInv, learned # Foreign, NEW from, NEW sent, NEW failed, SendResetQuery(from, sent, failed),
         failed \notin {"first", "data", "renewing"}
  PROVE  InResponse' /\ InQueries' /\ AtEndOfData' /\ AtSerial'
<1>0. Typed /\ InResponse /\ InQueries /\ AtEndOfData /\ AtSerial
  BY DEF IInv, Delivered
<1>1. UNCHANGED <<entries, maxSerial, session, sending, link, toClient, client, have, learned>>
  BY DEF SendResetQuery, cache
<1>2. InForce' = InForce /\ \A i : Will(i)' <=> Will(i)
  BY <1>1 DEF InForce, Will, WillHold
<1>3. InResponse'
  BY <1>0, <1>1, <1>2 DEF InResponse, Responding
<1>4. CASE Query([type |-> "RESET_QUERY"])
  <2>1. InQueries' /\ (link => ResetAsked')
    BY <1>1, <1>2, <1>4, ResetQueryDelivered
  <2>2. AtEndOfData' /\ AtSerial'
    BY <1>0, <1>1, <1>2, <2>1 DEF AtEndOfData, AtSerial, Coming
  <2> QED
    BY <1>3, <2>1, <2>2
<1>5. CASE ~link /\ UNCHANGED toCache
  BY <1>0, <1>1, <1>2, <1>3, <1>5 DEF InQueries, AtEndOfData, AtSerial, ResetBefore
<1> QED
  BY <1>4, <1>5 DEF SendResetQuery

LEMMA NothingDelivered ==
  ASSUME IInv, learned # Foreign, ReceiveNothing
  PROVE  InResponse' /\ InQueries' /\ AtEndOfData' /\ AtSerial'
<1>0. Typed /\ InResponse /\ InQueries /\ AtEndOfData /\ AtSerial
  BY DEF IInv, Delivered
<1>1. UNCHANGED <<entries, maxSerial, session, sending, link, toCache, toClient, have, learned>> /\ ~link
  BY DEF ReceiveNothing, cache, connection
<1>2. client'.serial = client.serial
  BY <1>0 DEF ReceiveNothing, Typed, TypeOK
<1>3. InForce' = InForce /\ \A i : Will(i)' <=> Will(i)
  BY <1>1 DEF InForce, Will, WillHold
<1> QED
  BY <1>0, <1>1, <1>2, <1>3 DEF InResponse, InQueries, AtEndOfData, AtSerial, ResetBefore, Responding

LEMMA NextDelivered ==
  ASSUME IInv, [Next]_vars, Typed'
  PROVE  Delivered'
<1>0. learned' # Foreign => learned # Foreign
  BY DEF Next, vars, cache, connection, Server, CacheAnswer, CacheSend, ServiceTimer, Operator,
     appendPrefixData, processEntryRemoval, deleteExpiredEntries, processSessionID, Fault,
     LoseConnection, RestartCache, Reconnect, Client, StartQuery, RenewQuery, SendResetQuery,
     ReceiveNotify, ReceiveResponse, ReceivePrefix, ReceiveEndOfData, ReceiveReset, ReceiveNothing
<1> SUFFICES ASSUME learned' # Foreign, learned # Foreign
             PROVE  InResponse' /\ InQueries' /\ AtEndOfData' /\ AtSerial'
  BY <1>0 DEF Delivered
<1>1. CASE UNCHANGED vars
  <2>1. UNCHANGED <<entries, maxSerial, session, sending, link, toCache, toClient, pc, client, have, learned>>
    BY <1>1 DEF vars, cache, connection
  <2>2. InResponse /\ InQueries /\ AtEndOfData /\ AtSerial
    BY DEF IInv, Delivered
  <2> QED
    BY <2>1, <2>2 DEF InResponse, InQueries, AtEndOfData, AtSerial, Responding, InForce, Will, WillHold,
       Coming, ResetAsked, ResetBefore, Receiving
<1>2. CASE Server
  BY <1>2, AnswerDelivered, SendDelivered, TimerDelivered DEF Server
<1>3. CASE Operator
  <2>1. processSessionID \/ ListChanged
    BY <1>3, AppendListed, RemovalListed, ExpiryListed DEF Operator, IInv
  <2> QED
    BY <2>1, SessionDelivered, ListDelivered
<1>4. CASE Fault \/ Reconnect(TRUE)
  BY <1>4, LossDelivered, RestartDelivered, ReconnectDelivered DEF Fault
<1>5. CASE Client
  BY <1>5, NotifyDelivered, EndOfDataDelivered, OtherReceivedDelivered, SendQueryDelivered,
     NothingDelivered DEF Client, StartQuery, RenewQuery
<1> QED
  BY <1>1, <1>2, <1>3, <1>4, <1>5 DEF Next

LEMMA InitDelivered ==
  ASSUME Init
  PROVE  Delivered
<1>1. DOMAIN toCache = {} /\ DOMAIN toClient = {} /\ DOMAIN entries = {} /\ sending = Idle /\ learned = 0
      /\ session = 1
  BY DEF Init
<1> QED
  BY <1>1 DEF Delivered, InResponse, InQueries, AtEndOfData, AtSerial, Responding, Idle

-----------------------------------------------------------------------------
(* What is on the way to a client that lacks something.                    *)

Pending ==
  \/ ResetAsked
  \/ Responding
  \/ \E j \in DOMAIN toClient : toClient[j].type = "END_OF_DATA"

\* A client that has no serial of its session yet waits for an End of Data.
Awaiting ==
  /\ link /\ pc = "first" => Pending
  /\ link /\ pc = "data" => ~client.startup /\ (Pending \/ learned \in {0, client.session, Foreign})

LEMMA CacheAwaiting ==
  ASSUME IInv, Awaiting, Server \/ Operator
  PROVE  Awaiting'
<1>0. Typed
  BY DEF IInv
<1>1. UNCHANGED <<link, pc, client, learned>>
  BY DEF Server, CacheAnswer, CacheSend, ServiceTimer, Operator, appendPrefixData,
     processEntryRemoval, deleteExpiredEntries, processSessionID, connection
<1>2. /\ toClient \in Seq(PDUs) /\ DOMAIN toClient = 1 .. Len(toClient) /\ Len(toClient) \in Nat
      /\ toCache \in Seq(Queries) /\ DOMAIN toCache = 1 .. Len(toCache) /\ Len(toCache) \in Nat
  BY <1>0, SessionNumbers
<1>3. ASSUME NEW p \in PDUs, toClient' = Append(toClient, p),
             NEW j \in DOMAIN toClient, toClient[j].type = "END_OF_DATA"
      PROVE  Pending'
  <2>1. j \in DOMAIN toClient' /\ toClient'[j] = toClient[j]
    BY <1>2, <1>3
  <2> QED
    BY <1>3, <2>1 DEF Pending
<1>4. ASSUME Pending PROVE Pending'
  <2>1. CASE CacheAnswer
    <3>1. /\ toCache # <<>> /\ sending = Idle /\ toCache' = Tail(toCache)
          /\ sending' = Answer(Head(toCache)) /\ UNCHANGED toClient
      BY <2>1 DEF CacheAnswer
    <3>2. ~Responding
      BY <3>1 DEF Responding, Idle
    <3>3. ASSUME NEW l \in DOMAIN toCache, toCache[l].type = "RESET_QUERY" PROVE Pending'
      <4>1. CASE l = 1
        <5>1. Head(toCache).type = "RESET_QUERY"
          BY <1>2, <3>1, <3>3, <4>1
        <5> QED
          BY <3>1, <5>1 DEF Answer, Response, Pending, Responding
      <4>2. CASE l # 1
        <5>1. l - 1 \in DOMAIN toCache' /\ toCache'[l - 1] = toCache[l]
          BY <1>2, <3>1, <4>2
        <5> QED
          BY <3>3, <5>1 DEF Pending, ResetAsked
      <4> QED
        BY <4>1, <4>2
    <3>4. ResetAsked => Pending'
      BY <3>3 DEF ResetAsked
    <3> QED
      BY <1>4, <3>1, <3>2, <3>4 DEF Pending
  <2>2. CASE CacheSend
    <3>1. /\ sending # Idle /\ toClient' = Append(toClient, NextPDU) /\ sending' = RestOfResponse
          /\ UNCHANGED toCache
      BY <2>2 DEF CacheSend
    <3>2. NextPDU \in PDUs
      BY <1>0, <3>1, NextPDUTyped
    <3>3. ResetAsked => Pending'
      BY <3>1 DEF Pending, ResetAsked
    <3>4. CASE sending.next = "DATA" /\ sending.left = {}
      <4>1. NextPDU.type = "END_OF_DATA"
        BY <3>4 DEF NextPDU
      <4>2. Len(toClient) + 1 \in DOMAIN toClient' /\ toClient'[Len(toClient) + 1] = NextPDU
        BY <1>2, <3>1, <3>2
      <4> QED
        BY <4>1, <4>2 DEF Pending
    <3>5. CASE sending.next = "CACHE_RESPONSE" \/ (sending.next = "DATA" /\ sending.left # {})
      <4>1. sending'.next = "DATA"
        BY <1>0, <3>1, <3>5 DEF RestOfResponse, Typed, TypeOK
      <4> QED
        BY <4>1 DEF Pending, Responding
    <3> QED
      BY <1>3, <1>4, <3>1, <3>2, <3>3, <3>4, <3>5 DEF Pending, Responding
  <2>3. CASE ServiceTimer \/ processSessionID
    <3>1. /\ UNCHANGED <<toCache, sending>>
          /\ \/ toClient' = toClient
             \/ toClient' = Append(toClient, [type |-> "SERIAL_NOTIFY", session |-> session'])
      BY <2>3 DEF ServiceTimer, Notified, processSessionID
    <3>2. [type |-> "SERIAL_NOTIFY", session |-> session'] \in PDUs
      <4>1. /\ session \in 1 .. MaxSession
            /\ (session' = session \/ (session' = session + 1 /\ session < MaxSession))
        BY <1>0, <2>3 DEF ServiceTimer, processSessionID, Typed, TypeOK, Session
      <4>2. session' \in Session
        BY <4>1, Bounds DEF Session
      <4> QED
        BY <4>2 DEF PDUs
    <3>3. ResetAsked \/ Responding => Pending'
      BY <3>1 DEF Pending, ResetAsked, Responding
    <3>4. CASE toClient' = toClient
      BY <1>4, <3>3, <3>4 DEF Pending
    <3> QED
      BY <1>3, <1>4, <3>1, <3>2, <3>3, <3>4 DEF Pending
  <2>4. CASE \/ \E r \in Roa : appendPrefixData(r)
             \/ \E i \in DOMAIN entries : processEntryRemoval(i) \/ deleteExpiredEntries(i)
    <3>1. UNCHANGED <<toCache, toClient, sending>>
      BY <2>4 DEF appendPrefixData, processEntryRemoval, deleteExpiredEntries, connection
    <3> QED
      BY <1>4, <3>1 DEF Pending, ResetAsked, Responding
  <2> QED
    BY <2>1, <2>2, <2>3, <2>4 DEF Server, Operator
<1> QED
  BY <1>1, <1>4 DEF Awaiting

LEMMA ReceivedPending ==
  ASSUME IInv, Pending, toClient # <<>>, toClient' = Tail(toClient), UNCHANGED sending,
         ResetAsked => ResetAsked', Head(toClient).type # "END_OF_DATA"
  PROVE  Pending'
<1>1. toClient \in Seq(PDUs) /\ DOMAIN toClient = 1 .. Len(toClient) /\ Len(toClient) \in Nat
  BY SessionNumbers DEF IInv
<1>2. ASSUME NEW j \in DOMAIN toClient, toClient[j].type = "END_OF_DATA" PROVE Pending'
  <2>1. j # 1
    BY <1>1, <1>2
  <2>2. j - 1 \in DOMAIN toClient' /\ toClient'[j - 1] = toClient[j]
    BY <1>1, <2>1
  <2> QED
    BY <1>2, <2>2 DEF Pending
<1> QED
  BY <1>2 DEF Pending, Responding

LEMMA ClientAwaiting ==
  ASSUME IInv, Awaiting, Client
  PROVE  Awaiting'
<1>0. Typed /\ UNCHANGED <<sending, link>>
  BY ClientSteps DEF IInv, ClientStep, cache
<1>1. client \in ClientRecords
  BY <1>0 DEF Typed, TypeOK, ClientRecords
<1>2. CASE ReceiveNotify
  <2> DEFINE s == Head(toClient).session
  <2>1. /\ client'.session = checkSessionID(s).session /\ client'.startup = FALSE
        /\ learned' = IF SessionOK(s) /\ learned \notin {0, s} THEN Foreign ELSE learned
        /\ pc' = After("SERIAL_NOTIFY", SessionOK(s))
    BY <1>1, <1>2 DEF ReceiveNotify, checkSessionID, ClientRecords
  <2>2. SessionOK(s) => checkSessionID(s).session = s
    BY <1>0, Checked
  <2> HIDE DEF s
  <2>3. pc' # "first" /\ (pc' = "data" => SessionOK(s))
    BY <1>2, <2>1 DEF After, ReceiveNotify, Receive, Receiving
  <2> QED
    BY <2>1, <2>2, <2>3 DEF Awaiting
<1>3. CASE ReceiveEndOfData
  <2> DEFINE p == Head(toClient)
  <2>1. /\ client'.session = checkSessionID(p.session).session /\ client'.startup = FALSE
        /\ learned' = IF ~SessionOK(p.session) \/ learned = Foreign THEN learned
                      ELSE IF p.serial > 0 THEN p.session ELSE 0
        /\ pc' = After("END_OF_DATA", SessionOK(p.session))
    BY <1>1, <1>3 DEF ReceiveEndOfData, checkSessionID, ClientRecords
  <2>2. SessionOK(p.session) => checkSessionID(p.session).session = p.session
    BY <1>0, Checked
  <2> HIDE DEF p
  <2>3. pc' # "first" /\ (pc' = "data" => SessionOK(p.session))
    BY <1>3, <2>1 DEF After, ReceiveEndOfData, Receive, Receiving
  <2> QED
    BY <2>1, <2>2, <2>3 DEF Awaiting
<1>4. CASE ReceiveResponse
  <2> DEFINE s == Head(toClient).session
  <2>1. /\ client'.startup = FALSE
        /\ client'.session = IF client.startup THEN s ELSE client.session
        /\ UNCHANGED <<toCache, learned>>
        /\ toClient # <<>> /\ toClient' = Tail(toClient) /\ Head(toClient).type = "CACHE_RESPONSE"
    BY <1>1, <1>4 DEF ReceiveResponse, checkSessionID, ClientRecords, Receive
  <2> HIDE DEF s
  <2>2. Pending => Pending'
    BY <1>0, <2>1, ReceivedPending DEF ResetAsked
  <2>3. pc' # "first" /\ (pc' = "data" => pc \in {"first", "data"})
    BY <1>4 DEF After, ReceiveResponse, Receive, Receiving
  <2> QED
    BY <1>0, <2>1, <2>2, <2>3 DEF Awaiting
<1>5. CASE ReceivePrefix
  <2>1. /\ client'.startup = client.startup /\ client'.session = client.session
        /\ UNCHANGED <<toCache, learned>>
        /\ toClient # <<>> /\ toClient' = Tail(toClient) /\ Head(toClient).type = "PREFIX"
    BY <1>1, <1>5 DEF ReceivePrefix, ClientRecords, Receive
  <2>2. Pending => Pending'
    BY <1>0, <2>1, ReceivedPending DEF ResetAsked
  <2>3. pc' # "first" /\ (pc' = "data" => pc = "data")
    BY <1>5 DEF After, ReceivePrefix, Receive, Receiving
  <2> QED
    BY <1>0, <2>1, <2>2, <2>3 DEF Awaiting
<1>6. [type |-> "RESET_QUERY"] \in Queries
  BY DEF Queries
<1>7. CASE ReceiveReset
  <2>1. /\ client'.startup = client.startup /\ UNCHANGED learned
        /\ Query([type |-> "RESET_QUERY"])
    BY <1>1, <1>7 DEF ReceiveReset, ClientRecords
  <2>2. link => Pending'
    BY <1>0, <1>6, <2>1, QueryAsked DEF Pending
  <2>3. pc' # "first" /\ (pc' = "data" => pc = "data")
    BY <1>7 DEF After, ReceiveReset, Receive, Receiving
  <2> QED
    BY <1>0, <2>1, <2>2, <2>3 DEF Awaiting
<1>8. CASE StartQuery \/ RenewQuery
  <2>1. pc' # "data"
    BY <1>8 DEF StartQuery, RenewQuery, SendResetQuery
  <2>2. link /\ pc' = "first" => Query([type |-> "RESET_QUERY"])
    BY <1>8 DEF StartQuery, RenewQuery, SendResetQuery
  <2>3. link /\ pc' = "first" => Pending'
    BY <1>0, <1>6, <2>2, QueryAsked DEF Pending
  <2> QED
    BY <1>0, <2>1, <2>3 DEF Awaiting
<1>9. CASE ReceiveNothing
  BY <1>0, <1>9 DEF ReceiveNothing, Awaiting
<1> QED
  BY <1>2, <1>3, <1>4, <1>5, <1>7, <1>8, <1>9 DEF Client

LEMMA NextAwaiting ==
  ASSUME IInv, Awaiting, [Next]_vars
  PROVE  Awaiting'
<1>1. CASE UNCHANGED vars
  BY <1>1 DEF vars, cache, connection, Awaiting, Pending, ResetAsked, Responding
<1>2. CASE Fault \/ Reconnect(TRUE)
  BY <1>2 DEF Fault, LoseConnection, RestartCache, Reconnect, Awaiting
<1> QED
  BY <1>1, <1>2, CacheAwaiting, ClientAwaiting DEF Next

-----------------------------------------------------------------------------
(* Theorems.                                                               *)

LEMMA Invariant == Spec => [](IInv /\ Awaiting)
<1>1. Init => IInv /\ Awaiting
  BY InitTypes, InitListed, InitSessions, InitDelivered DEF IInv, Awaiting, Init
<1>2. IInv /\ Awaiting /\ [Next]_vars => (IInv /\ Awaiting)'
  <2> SUFFICES ASSUME IInv, Awaiting, [Next]_vars PROVE IInv' /\ Awaiting'
    OBVIOUS
  <2>1. Typed' /\ Listed' /\ Sessions'
    BY NextTypes, NextListed, NextSessions DEF IInv
  <2>2. Delivered'
    BY <2>1, NextDelivered
  <2> QED
    BY <2>1, <2>2, NextAwaiting DEF IInv
<1> QED
  BY <1>1, <1>2, PTL DEF Spec

\* A client that is up to date by session and serial, with nothing under way,
\* holds every ROA of the cache, unless a serial of one session was asked for
\* in another.
THEOREM NothingIsMissing == Spec => []NothingMissing
<1>1. ASSUME IInv, Awaiting, Quiet, Current, learned # Foreign, NEW i \in InForce
      PROVE  have[entries[i].roa] > 0
  <2>0. Typed /\ Listed /\ Sessions /\ AtSerial
    BY <1>1 DEF IInv, Delivered
  <2>1. /\ link /\ sending = Idle /\ toCache = <<>> /\ toClient = <<>>
        /\ pc = "data" /\ client.session = session /\ client.serial = maxSerial
    BY <1>1 DEF Quiet, Current
  <2>2. ~ResetAsked /\ ~Pending
    BY <2>1 DEF Pending, ResetAsked, Responding, Idle
  <2>3. learned \in {0, session}
    BY <1>1, <2>1, <2>2 DEF Awaiting
  <2>4. /\ entries[i].serial \in Nat /\ entries[i].serial > 0
        /\ entries[i].serial <= maxSerial /\ maxSerial \in Nat
    BY <2>0, InForceRoa
  <2>5. learned # 0
    <3>1. learned = 0 => maxSerial = 0
      BY <2>0, <2>1 DEF Sessions, Learned
    <3> QED
      BY <2>4, <3>1
  <2>6. Coming(i)
    BY <2>0, <2>1, <2>3, <2>4, <2>5 DEF AtSerial, Receiving
  <2>7. Holds(<<>>, have, 0, entries[i].roa)
    BY <2>1, <2>2, <2>6 DEF Coming, Will, WillHold, Idle
  <2> QED
    BY <2>7 DEF Holds
<1>2. IInv /\ Awaiting => NothingMissing
  BY <1>1 DEF NothingMissing, Announced, InForce
<1> QED
  BY <1>2, Invariant, PTL

\* When an End of Data brings the client up to date, all ROAs of its serial
\* have been received.
THEOREM EndOfDataIsComplete == Spec => CompleteAtEndOfData
<1>1. ASSUME IInv, ReceiveEndOfData, client'.session = session, client'.serial = maxSerial,
             learned # Foreign, NEW i \in InForce
      PROVE  have[entries[i].roa] > 0
  <2> DEFINE p == Head(toClient)
  <2>0. Typed /\ Listed /\ Sessions /\ AtEndOfData
    BY <1>1 DEF IInv, Delivered
  <2>1. p.type = "END_OF_DATA" /\ toClient # <<>>
    BY <1>1 DEF ReceiveEndOfData, Receive
  <2>2. toClient \in Seq(PDUs) /\ 1 \in DOMAIN toClient /\ p = toClient[1]
    <3>1. toClient \in Seq(PDUs)
      BY <2>0, SessionNumbers
    <3> QED
      BY <2>1, <3>1
  <2>3. /\ client'.session = checkSessionID(p.session).session
        /\ client'.serial = IF SessionOK(p.session) THEN p.serial ELSE client.serial
    BY <1>1, <2>0, Checked DEF ReceiveEndOfData, Typed, TypeOK, checkSessionID
  <2>4. /\ client.session <= p.session /\ p.session <= session
        /\ p.session \in Nat /\ session \in Nat /\ client.session \in Nat
    BY <2>0, <2>1, <2>2, SessionNumbers DEF Sessions, Growing, Grows, WithSession
  <2>5. SessionOK(p.session)
    <3>1. SUFFICES ASSUME ~SessionOK(p.session) PROVE FALSE
      OBVIOUS
    <3>2. client.session # p.session /\ client'.session = client.session
      BY <2>0, <2>3, <3>1, Checked DEF SessionOK
    <3> QED
      BY <1>1, <2>4, <3>2
  <2>6. p.session = session /\ p.serial = maxSerial
    BY <1>1, <2>0, <2>3, <2>5, Checked
  <2>7. entries[i].serial <= maxSerial
    BY <2>0, InForceRoa
  <2>8. Holds(toClient, have, 1, entries[i].roa)
    BY <2>0, <2>1, <2>2, <2>6, <2>7 DEF AtEndOfData
  <2>9. \A r : ~Announces(toClient[1], r)
    BY <2>1, <2>2 DEF Announces
  <2> QED
    BY <2>8, <2>9 DEF Holds
<1>2. IInv /\ [Next]_vars =>
        [ReceiveEndOfData /\ client'.session = session /\ client'.serial = maxSerial /\ learned # Foreign =>
           \A r \in Announced : have[r] > 0]_vars
  BY <1>1 DEF Announced, InForce
<1> QED
  BY <1>2, Invariant, PTL DEF Spec, CompleteAtEndOfData
=============================================================================
