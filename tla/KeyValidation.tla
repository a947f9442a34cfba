--------------------------- MODULE KeyValidation ---------------------------
(***************************************************************************)
(* BGPsec path validation in the SRx server: which stored updates are      *)
(* validated again when a router key is announced or withdrawn.            *)
(*                                                                         *)
(* Composed are the SKI cache (server/ski_cache.c), which knows the        *)
(* updates that need a key, the key storage of the crypto API              *)
(* (KeyStorage), the RPKI queue (server/rpki_queue.c), the handlers of     *)
(* router keys and of End of Data (server/rpki_handler.c), and the part of *)
(* the update cache and of the command handler that deals with paths.      *)
(*                                                                         *)
(* Three threads act: the receiver answers requests, the command handler   *)
(* validates and deletes, the RPKI client's thread handles PDUs.  The      *)
(* server validates between reading the keys and storing the result        *)
(* (BeginValidation, FinishValidation).  A notification is read at once.   *)
(***************************************************************************)
EXTENDS KeyStorage

CONSTANTS
  Update,       \* updates with a BGPsec path
  Client,       \* routers
  Key,          \* router keys: records asn, ski, der
  Path,         \* Path[u]: the AS numbers of the Secure_Path
  Blocks,       \* Blocks[u]: its one or two signature blocks, records algo, ski
  Signed,       \* Signed[u]: the keys the ECDSA block was signed with
  ECDSA,        \* SCA_ECDSA_ALGORITHM, the algorithm of all keys
  CounterMod,   \* _SKI_CACHE_DATA.counter wraps at CounterMod (2^8 in the code)
  MaxCount,     \* bound: MaxCount[k] announcements of k are counted at a time
  MaxRequests,  \* bound: requests of an update in the command queue
  None

ASSUME KeyAssumption ==
  /\ CounterMod \in Nat \ {0}
  /\ MaxRequests \in Nat \ {0}
  /\ None \notin Update
  /\ \A k \in Key : /\ k = [asn |-> k.asn, ski |-> k.ski, der |-> k.der]
                    /\ k.asn \in Nat
                    /\ k.der # NoKey
                    /\ MaxCount[k] \in Nat
  /\ \A u \in Update :
       /\ Path[u] \in Seq(Nat) /\ Path[u] # <<>>
       /\ Blocks[u] \in Seq(Range(Blocks[u]))
       /\ \A b \in DOMAIN Blocks[u] :
            /\ Blocks[u][b].ski \in Seq(Range(Blocks[u][b].ski))
            /\ Len(Blocks[u][b].ski) = Len(Path[u])

VARIABLES
  bucket,     \* the key storage
  inForce,    \* the keys announced and not withdrawn
  counter,    \* _SKI_CACHE_DATA.counter
  uid,        \* uid[n][u]: _SKI_CACHE_UPDATEID.counter, 0: not in the list
  queue,      \* the RPKI queue: the reasons of an update, {}: not in the queue
  draining,   \* whether End of Data is being handled
  stored,     \* the entries of the update cache
  holds,      \* holds[u]: CacheEntry.clients
  result,     \* CacheEntry.srxResult.bgpsecResult
  requests,   \* validation commands of an update in the command queue
  handling,   \* the command handler's update and its new result
  computed,   \* the last result validateSignature returned for an update
  told,       \* told[c][u]: the result client c was told last
  up          \* FALSE after the process dereferenced NULL

cache == <<counter, uid>>
keys == <<bucket, inForce>>
paths == <<stored, holds, result, requests, handling, computed, told>>
vars == <<keys, cache, queue, draining, paths, up>>

\* The SKIs of an update lie one after the other, block by block, from 0 on.
SkiAt(u, offset) ==
  LET n == Len(Path[u]) IN Blocks[u][(offset \div n) + 1].ski[(offset % n) + 1]

NameAt(u, block, segment, offset) ==
  [asn |-> Path[u][segment + 1], ski |-> SkiAt(u, offset), algo |-> Blocks[u][block + 1].algo]

Segments(u) == (0 .. Len(Blocks[u]) - 1) \X (0 .. Len(Path[u]) - 1)

NameOf(k) == [asn |-> k.asn, ski |-> k.ski, algo |-> ECDSA]

\* Names of keys: the places of _SKI_CACHE_DATA that can come into being.
Name ==
  {NameOf(k) : k \in Key}
    \cup UNION {{NameAt(u, s[1], s[2], o) : s \in Segments(u),
                   o \in 0 .. Len(Blocks[u]) * Len(Path[u]) - 1} : u \in Update}

Reason == {"ROA", "KEY", "ASPA"}   \* all three together are RQ_ALL
Result == {"VALID", "INVALID", "UNDEFINED"}

TypeOK ==
  /\ Stored(bucket) \subseteq Key
  /\ inForce \subseteq Key
  /\ counter \in [Name -> 0 .. CounterMod - 1]
  /\ uid \in [Name -> [Update -> Nat]]
  /\ queue \in [Update -> SUBSET Reason]
  /\ draining \in BOOLEAN
  /\ stored \subseteq Update
  /\ holds \in [Update -> SUBSET Client]
  /\ result \in [Update -> Result]
  /\ requests \in [Update -> 0 .. MaxRequests]
  /\ handling \in [update : Update \cup {None}, result : Result]
  /\ computed \in [Update -> Result]
  /\ told \in [Client -> [Update -> Result]]
  /\ up \in BOOLEAN

Idle == [update |-> None, result |-> "UNDEFINED"]

Init ==
  /\ bucket = <<>>
  /\ inForce = {}
  /\ counter = [n \in Name |-> 0]
  /\ uid = [n \in Name |-> [u \in Update |-> 0]]
  /\ queue = [u \in Update |-> {}]
  /\ draining = FALSE
  /\ stored = {}
  /\ holds = [u \in Update |-> {}]
  /\ result = [u \in Update |-> "UNDEFINED"]
  /\ requests = [u \in Update |-> 0]
  /\ handling = Idle
  /\ computed = [u \in Update |-> "UNDEFINED"]
  /\ told = [c \in Client |-> [u \in Update |-> "UNDEFINED"]]
  /\ up = TRUE

-----------------------------------------------------------------------------
(* The SKI cache.                                                          *)

\* How often an update is entered under a name, and how often it is taken out:
\* the two compute the place of the SKI differently.
Entered_bug ==
  [u \in Update |-> [n \in Name |->
    Cardinality({s \in Segments(u) : NameAt(u, s[1], s[2], s[1] * Len(Path[u])) = n})]]

Entered ==
  [u \in Update |-> [n \in Name |->
    Cardinality({s \in Segments(u) : NameAt(u, s[1], s[2], s[2] + s[2] * s[1]) = n})]]

TakenOut ==
  [u \in Update |-> [n \in Name |->
    Cardinality({s \in Segments(u) : NameAt(u, s[1], s[2], s[1] * Len(Path[u]) + s[2]) = n})]]

ski_registerUpdate(u) ==
  uid' = [n \in Name |-> [uid[n] EXCEPT ![u] = @ + Entered[u][n]]]

ski_unregisterUpdate(u) ==
  uid' = [n \in Name |-> [uid[n] EXCEPT ![u] = IF @ > TakenOut[u][n] THEN @ - TakenOut[u][n] ELSE 0]]

\* The updates in the list of a name.
Users(n) == {u \in Update : uid[n][u] > 0}

\* rq_queue: an update is queued once; a second reason makes it RQ_ALL.
Queued_bug(reasons, r) == IF reasons = {} THEN {r} ELSE reasons

Queued(reasons, r) == IF reasons \subseteq {r} THEN {r} ELSE Reason

QueueKey(users) ==
  queue' = [u \in Update |-> IF u \in users THEN Queued(queue[u], "KEY") ELSE queue[u]]

ski_registerKey(n) ==
  /\ counter' = [counter EXCEPT ![n] = (@ + 1) % CounterMod]
  /\ QueueKey(Users(n))

\* Nothing happens unless a key is counted; the data of a name without updates
\* is freed, whatever its counter says.
ski_unregisterKey(n) ==
  IF counter[n] = 0
  THEN UNCHANGED <<counter, queue>>
  ELSE /\ counter' = [counter EXCEPT ![n] = IF Users(n) = {} THEN 0 ELSE @ - 1]
       /\ QueueKey(Users(n))

-----------------------------------------------------------------------------
(* Path validation.                                                        *)

\* The signatures validateSignature checks: those of the ECDSA block.
Signatures ==
  [u \in Update |->
    {[asn |-> Path[u][i], ski |-> Blocks[u][b].ski[i], der |-> Signed[u][i]] :
      i \in DOMAIN Path[u], b \in {c \in DOMAIN Blocks[u] : Blocks[u][c].algo = ECDSA}}]

validateSignature(u) == IF Verify(bucket, Signatures[u]) THEN "VALID" ELSE "INVALID"

\* broadcastResult reaches the routers that hold the update.
Tell(u, r) == [c \in Client |-> IF c \in holds[u] THEN [told[c] EXCEPT ![u] = r] ELSE told[c]]

\* processValidationRequest of a new update: it is stored, registered and sent
\* for validation.  The router has its own default result until then.
RequestNew(c, u) ==
  /\ up
  /\ u \notin stored
  /\ stored' = stored \cup {u}
  /\ holds' = [holds EXCEPT ![u] = {c}]
  /\ ski_registerUpdate(u)
  /\ requests' = [requests EXCEPT ![u] = @ + 1]
  /\ UNCHANGED <<keys, counter, queue, draining, result, handling, computed, told, up>>

\* ... of a stored one: the router is told the stored result.
RequestKnown(c, u) ==
  /\ up
  /\ u \in stored
  /\ c \notin holds[u]
  /\ requests[u] < MaxRequests
  /\ holds' = [holds EXCEPT ![u] = @ \cup {c}]
  /\ told' = [told EXCEPT ![c][u] = result[u]]
  /\ requests' = [requests EXCEPT ![u] = @ + 1]
  /\ UNCHANGED <<keys, cache, queue, draining, stored, result, handling, computed, up>>

\* _processUpdateValidation: only an update without a result is validated.
SkipValidation_bug(u) ==
  /\ up
  /\ handling = Idle
  /\ result[u] # "UNDEFINED"
  /\ requests' = [requests EXCEPT ![u] = @ - 1]
  /\ UNCHANGED <<keys, cache, queue, draining, stored, holds, result, handling, computed, told, up>>

SkipValidation(u) ==
  /\ up
  /\ handling = Idle
  /\ requests[u] > 0
  /\ result[u] # "UNDEFINED"
  /\ requests' = [requests EXCEPT ![u] = @ - 1]
  /\ UNCHANGED <<keys, cache, queue, draining, stored, holds, result, handling, computed, told, up>>

BeginValidation(u) ==
  /\ up
  /\ handling = Idle
  /\ requests[u] > 0
  /\ result[u] = "UNDEFINED"
  /\ requests' = [requests EXCEPT ![u] = @ - 1]
  /\ handling' = [update |-> u, result |-> validateSignature(u)]
  /\ computed' = [computed EXCEPT ![u] = validateSignature(u)]
  /\ UNCHANGED <<keys, cache, queue, draining, stored, holds, result, told, up>>

\* modifyUpdateResult stores the result and tells it.
FinishValidation_bug ==
  LET u == handling.update IN
  /\ up
  /\ u # None
  /\ told' = Tell(u, handling.result)
  /\ handling' = Idle
  /\ UNCHANGED <<keys, cache, queue, draining, stored, holds, result, requests, computed, up>>

FinishValidation ==
  LET u == handling.update IN
  /\ up
  /\ u # None
  /\ result' = [result EXCEPT ![u] = handling.result]
  /\ told' = Tell(u, handling.result)
  /\ handling' = Idle
  /\ UNCHANGED <<keys, cache, queue, draining, stored, holds, requests, computed, up>>

\* _processDeleteUpdate: the router's reference is removed, and the update is
\* unregistered although other routers may hold it.
DeleteUpdate(c, u) ==
  /\ up
  /\ handling = Idle
  /\ c \in holds[u]
  /\ holds' = [holds EXCEPT ![u] = @ \ {c}]
  /\ ski_unregisterUpdate(u)
  /\ UNCHANGED <<keys, counter, queue, draining, stored, result, requests, handling>>
  /\ UNCHANGED <<computed, told, up>>

-----------------------------------------------------------------------------
(* The thread of the RPKI client.                                          *)

\* handleRouterKey
AnnounceKey(k) ==
  /\ up
  /\ ~draining
  /\ counter[NameOf(k)] < MaxCount[k]
  /\ inForce' = inForce \cup {k}
  /\ IF ReadsNull(bucket, k)
     THEN up' = FALSE /\ UNCHANGED <<bucket, counter, queue>>
     ELSE bucket' = StoreKey(bucket, k) /\ ski_registerKey(NameOf(k)) /\ UNCHANGED up
  /\ UNCHANGED <<uid, draining, paths>>

WithdrawKey(k) ==
  /\ up
  /\ ~draining
  /\ k \in inForce
  /\ inForce' = inForce \ {k}
  /\ IF ReadsNull(bucket, k)
     THEN up' = FALSE /\ UNCHANGED <<bucket, counter, queue>>
     ELSE bucket' = DelKey(bucket, k) /\ ski_unregisterKey(NameOf(k)) /\ UNCHANGED up
  /\ UNCHANGED <<uid, draining, paths>>

\* The prefix cache queues an update whose origin validation changed.
QueueRoa(u) ==
  /\ up
  /\ ~draining
  /\ u \in stored
  /\ queue' = [queue EXCEPT ![u] = Queued(@, "ROA")]
  /\ UNCHANGED <<keys, cache, draining, paths, up>>

\* handleEndOfData empties the queue, one update after the other.
EndOfData ==
  /\ up
  /\ ~draining
  /\ \E u \in Update : queue[u] # {}
  /\ draining' = TRUE
  /\ UNCHANGED <<keys, cache, queue, paths, up>>

\* A path validated again is told but not stored in the update cache.
Revalidate(u) ==
  /\ up
  /\ draining
  /\ queue[u] # {}
  /\ queue' = [queue EXCEPT ![u] = {}]
  /\ draining' = (\E v \in Update \ {u} : queue[v] # {})
  /\ IF "KEY" \in queue[u]
     THEN /\ computed' = [computed EXCEPT ![u] = validateSignature(u)]
          /\ told' = Tell(u, validateSignature(u))
     ELSE UNCHANGED <<computed, told>>
  /\ UNCHANGED <<keys, cache, stored, holds, result, requests, handling, up>>

Next ==
  \/ \E c \in Client, u \in Update :
       RequestNew(c, u) \/ RequestKnown(c, u) \/ DeleteUpdate(c, u)
  \/ \E u \in Update :
       SkipValidation(u) \/ BeginValidation(u) \/ QueueRoa(u) \/ Revalidate(u)
  \/ FinishValidation
  \/ \E k \in Key : AnnounceKey(k) \/ WithdrawKey(k)
  \/ EndOfData

Spec == Init /\ [][Next]_vars

-----------------------------------------------------------------------------
(* Properties.                                                             *)

\* Where the code keeps what the properties say: with one router key per AS
\* number (a second SKI or key of an AS makes the storage lose keys), with the
\* ECDSA block in front (registering and unregistering compute the places of
\* the SKIs of a second block differently), and with no key announced more
\* often than its counter counts.
OneKeyPerAS == \A k, l \in Key : k.asn = l.asn => k = l

ECDSAFirst ==
  \A u \in Update : \A b \in DOMAIN Blocks[u] : Blocks[u][b].algo = ECDSA => b = 1

NoCounterWrap == \A k \in Key : MaxCount[k] < CounterMod

\* The names of the keys an update's ECDSA signatures were made with.
Needs == [u \in Update |-> {[asn |-> s.asn, ski |-> s.ski, algo |-> ECDSA] : s \in Signatures[u]}]

IsRegistered(u) == \E n \in Needs[u] : uid[n][u] > 0

\* An update is registered under all keys its validation needs, or under none:
\* registering and unregistering find the same places.
RegisteredUnderAll == \A u \in Update : IsRegistered(u) => \A n \in Needs[u] : uid[n][u] > 0

\* The storage holds exactly the keys in force.
StoresKeysInForce == up => Stored(bucket) = inForce

\* No change of keys goes unnoticed: a registered update whose validation would
\* give another result than it gave last is queued to be validated again.
ChangeNotMissed ==
  \A u \in Update :
    up /\ IsRegistered(u) /\ computed[u] # "UNDEFINED" =>
      "KEY" \in queue[u] \/ validateSignature(u) = computed[u]

\* What a router was told of a registered update is stale only by way of the
\* result stored in the update cache, which a key change does not refresh.
ToldCurrentOrStored ==
  \A u \in Update : \A c \in holds[u] :
    up /\ IsRegistered(u) /\ queue[u] = {} =>
      told[c][u] \in {validateSignature(u), result[u]}
=============================================================================
