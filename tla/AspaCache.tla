----------------------------- MODULE AspaCache -----------------------------
(***************************************************************************)
(* ASPA validation in the SRx server: the objects a validation cache sends *)
(* (server/aspa_trie.c), the results kept per AS path                      *)
(* (server/aspath_cache.c) and per update (server/update_cache.c), and     *)
(* what a router is told.                                                  *)
(*                                                                         *)
(* Three threads act on them without a common lock: the receiver answers   *)
(* requests (processValidationRequest), the command handler validates      *)
(* (_processUpdateValidation), the thread of the RPKI client stores        *)
(* objects and validates all paths again at an End of Data.  They step     *)
(* between reading a result and writing it.  The walk along a path is one  *)
(* step, a notification is read at once, and one router makes all          *)
(* requests.                                                               *)
(***************************************************************************)
EXTENDS AspaPath, FiniteSets

CONSTANTS
  Update,
  PathOf,      \* PathOf[u]: the AS path of the update
  TypeOf,      \* TypeOf[p]: AS_TYPE of the path
  Stream,      \* directions a router reports
  Object,      \* ASPA objects: records customer, providers, afi
  Default,     \* ASPA results a router has for an update of its own
  AFI,         \* AFI_IP, the address family of the paths
  MaxTime,     \* bound: seconds
  MaxChanges,  \* bound: ASPA PDUs
  MaxRequests, \* bound: requests
  None

Path == {PathOf[u] : u \in Update}
ToldResult == PathResult \cup {"DONOTUSE"}   \* a router may have no result to give
Asn == {o.customer : o \in Object} \cup UNION {Range(p) : p \in Path}

Entry == [result : PathResult, default : ToldResult]
CachedPath == [result : ToldResult, direction : Direction, modified : 0 .. MaxTime]

ASSUME AspaAssumption ==
  /\ MaxTime \in Nat \ {0} /\ MaxChanges \in Nat /\ MaxRequests \in Nat
  /\ \A p \in Path : p \in Seq(Range(p)) /\ p # <<>>
  /\ Default \subseteq ToldResult
  /\ Stream \subseteq Direction
  /\ Object \cap {NoObject, Freed} = {}
  /\ None \notin Update /\ None \notin CachedPath

VARIABLES
  db,       \* the trie: the object of a customer
  time,     \* time(NULL)
  changes, asked,
  cached,   \* the AS path cache
  order,    \* the update cache in the order of its hash table
  entry,    \* CacheEntry: srxResult.aspaResult, defaultResult.result.aspaResult
  receiver, \* the request in processValidationRequest
  commands, \* the command queue
  handler,  \* the command in _processUpdateValidation
  rpki,     \* the End of Data in handleEndOfData
  queue,    \* the RPKI queue
  told,     \* told[u]: the last ASPA result the router was sent
  \* history
  due,      \* paths the last End of Data must have brought up to date
  moved,    \* paths whose result a command changed to another one
  mixed     \* updates an End of Data and a request or command dealt with at a time

objects == <<db, changes>>
store == <<cached, order, entry>>
history == <<due, moved>>
vars == <<objects, time, asked, store, receiver, commands, handler, rpki, queue, told, history, mixed>>

NoRequest == [at |-> "idle", update |-> None]
NoCommand == [at |-> "idle", update |-> None]
NoData == [at |-> "idle", update |-> None]

TypeOK ==
  /\ db \in [Asn -> Object \cup {NoObject, Freed}]
  /\ \A a \in Asn : db[a] \in Object => db[a].customer = a
  /\ time \in 0 .. MaxTime /\ changes \in 0 .. MaxChanges /\ asked \in 0 .. MaxRequests
  /\ cached \in [Path -> CachedPath \cup {None}]
  /\ order \in Seq(Update) /\ IsInjective(order)
  /\ entry \in [Update -> Entry \cup {None}]
  /\ \A u \in Update : IF u \in Range(order) THEN entry[u] \in Entry /\ cached[PathOf[u]] # None
                       ELSE entry[u] = None
  /\ receiver.at \in {"idle", "store", "copy", "answer"}
  /\ commands \in Seq(Range(order))
  /\ handler.at \in {"idle", "copy", "path", "update"}
  /\ rpki.at \in {"idle", "visit", "path", "update", "drain", "tell"}
  /\ queue \in Seq(Range(order)) /\ IsInjective(queue)
  /\ told \in [Update -> ToldResult \cup {None}]

\* The objects of a synchronisation before the first request.
Init ==
  /\ db \in {f \in [Asn -> Object \cup {NoObject}] :
               \A a \in Asn : f[a] = NoObject \/ f[a].customer = a}
  /\ time = 1
  /\ changes = 0 /\ asked = 0
  /\ cached = [p \in Path |-> None]
  /\ order = <<>>
  /\ entry = [u \in Update |-> None]
  /\ receiver = NoRequest /\ handler = NoCommand /\ rpki = NoData
  /\ commands = <<>> /\ queue = <<>>
  /\ told = [u \in Update |-> None]
  /\ due = {} /\ moved = {} /\ mixed = {}

-----------------------------------------------------------------------------
(* ASPA PDUs, in the thread of the RPKI client.                            *)

\* An object replaces the one of its customer.  A freed node of the customer is
\* still found: the object is written to it, and what it holds stays unknown.
Announce(o) ==
  /\ rpki.at = "idle" /\ changes < MaxChanges
  /\ \E new \in {o} \cup IF db[o.customer] = Freed THEN {Freed} ELSE {} :
       db' = [db EXCEPT ![o.customer] = new]
  /\ changes' = changes + 1
  /\ due' = {}
  /\ UNCHANGED <<time, asked, store, receiver, commands, handler, rpki, queue, told, moved>>

\* Only a withdrawal that matches the object to the last provider is executed.
Withdraw(o) ==
  /\ rpki.at = "idle" /\ changes < MaxChanges
  /\ db[o.customer] = o
  /\ db' = [a \in Asn |-> IF BeginsWith(a, o.customer) /\ db[a] # NoObject THEN Freed ELSE db[a]]
  /\ changes' = changes + 1
  /\ due' = {}
  /\ UNCHANGED <<time, asked, store, receiver, commands, handler, rpki, queue, told, moved>>

Tick ==
  /\ time < MaxTime
  /\ time' = time + 1
  /\ UNCHANGED <<objects, asked, store, receiver, commands, handler, rpki, queue, told, history>>

Validated(p, c) == validateASPA(db, p, TypeOf[p], c.direction, AFI)

-----------------------------------------------------------------------------
(* Requests, in the thread of the receiver.                                *)

\* getUpdateResult, then the AS path cache.  The router's own result is taken
\* over for a new path alone; the first request decides on the direction.
Request(u, default, direction, answered) ==
  LET p == PathOf[u]
      known == u \in Range(order)
      Received(result, d, copies) ==
        [at |-> "store", update |-> u, answered |-> answered,
         result |-> result, default |-> d, copies |-> copies]
  IN /\ receiver.at = "idle" /\ asked < MaxRequests
     /\ asked' = asked + 1
     /\ IF known
        THEN /\ receiver' = [at |-> "answer", update |-> u, answered |-> answered,
                             result |-> entry[u].result]
             /\ UNCHANGED cached
        ELSE IF cached[p] # None
        THEN /\ receiver' = Received(cached[p].result, "DONOTUSE", cached[p].result # "UNDEFINED")
             /\ UNCHANGED cached
        ELSE /\ receiver' = Received(default, default, FALSE)
             /\ cached' = [cached EXCEPT ![p] =
                             [result |-> default, direction |-> direction, modified |-> 0]]
     /\ UNCHANGED <<objects, time, order, entry, commands, handler, rpki, queue, told, history>>

storeUpdate ==
  /\ receiver.at = "store"
  /\ order' = Append(order, receiver.update)
  /\ entry' = [entry EXCEPT ![receiver.update] =
                 [result |-> "UNDEFINED", default |-> receiver.default]]
  /\ receiver' = [receiver EXCEPT !.at = IF receiver.copies THEN "copy" ELSE "answer"]
  /\ UNCHANGED <<objects, time, asked, cached, commands, handler, rpki, queue, told, history>>

\* modifyUpdateCacheResultWithAspaVal
SetResult_bug(u, r) == entry' = [entry EXCEPT ![u].result = r]

SetResult(u, r) == entry' = IF r = "DONOTUSE" THEN entry ELSE [entry EXCEPT ![u].result = r]

CopyPathResult ==
  /\ receiver.at = "copy"
  /\ SetResult(receiver.update, receiver.result)
  /\ receiver' = [receiver EXCEPT !.at = "answer"]
  /\ UNCHANGED <<objects, time, asked, cached, order, commands, handler, rpki, queue, told, history>>

\* The initial notification, and the command when there was one to send.
Answer ==
  /\ receiver.at = "answer"
  /\ IF receiver.answered
     THEN /\ told' = [told EXCEPT ![receiver.update] = receiver.result]
          /\ commands' = Append(commands, receiver.update)
     ELSE UNCHANGED <<told, commands>>
  /\ receiver' = NoRequest
  /\ UNCHANGED <<objects, time, asked, store, handler, rpki, queue, history>>

-----------------------------------------------------------------------------
(* Commands, in the thread of the command handler.                         *)

\* The update's result is read: an undefined one is validated, another one is
\* sent again, and an update its router refused is left alone.
BeginCommand ==
  /\ handler.at = "idle" /\ commands # <<>>
  /\ commands' = Tail(commands)
  /\ LET u == Head(commands) IN
       handler' = IF entry[u].default = "INVALID" THEN NoCommand
                  ELSE IF entry[u].result = "UNDEFINED" THEN [at |-> "copy", update |-> u]
                  ELSE [at |-> "update", update |-> u, result |-> entry[u].result]
  /\ UNCHANGED <<objects, time, asked, store, receiver, rpki, queue, told, history>>

\* The result that is stored: the one the path had before, if it had one.
Modified(old, new) == IF old = "UNDEFINED" THEN new ELSE old

ValidateCommand ==
  /\ handler.at = "copy"
  /\ LET p == PathOf[handler.update] IN
       \E r \in Validated(p, cached[p]) :
         handler' = [at |-> IF r = cached[p].result THEN "update" ELSE "path",
                     update |-> handler.update, new |-> r,
                     result |-> Modified(cached[p].result, r)]
  /\ UNCHANGED <<objects, time, asked, store, receiver, commands, rpki, queue, told, history>>

\* modifyAspaValidationResultToAspathCache
ModifyPath(p, r) == cached' = [cached EXCEPT ![p].result = r, ![p].modified = time]

CommandModifiesPath ==
  /\ handler.at = "path"
  /\ LET p == PathOf[handler.update] IN
       /\ ModifyPath(p, handler.new)
       /\ due' = due \ {p}
       /\ moved' = IF cached[p].result \in {"UNDEFINED", handler.new} THEN moved ELSE moved \cup {p}
  /\ handler' = [handler EXCEPT !.at = "update"]
  /\ UNCHANGED <<objects, time, asked, order, entry, receiver, commands, rpki, queue, told>>

\* modifyUpdateResult stores a result and broadcasts it, changed or not.
FinishCommand ==
  /\ handler.at = "update"
  /\ SetResult(handler.update, handler.result)
  /\ told' = IF handler.result = "DONOTUSE" THEN told ELSE [told EXCEPT ![handler.update] = handler.result]
  /\ handler' = NoCommand
  /\ UNCHANGED <<objects, time, asked, cached, order, receiver, commands, rpki, queue, history>>

-----------------------------------------------------------------------------
(* End of Data, in the thread of the RPKI client.                          *)

\* HASH_ITER takes the successor of an element before it visits the element.
Visit(i, eod) ==
  IF i \in DOMAIN order
  THEN [at |-> "visit", eod |-> eod, update |-> order[i],
        next |-> IF i < Len(order) THEN i + 1 ELSE 0]
  ELSE [at |-> "drain", update |-> None]

Newer_bug(eod, modified) == modified > eod

Newer(eod, modified) == eod > modified

ReceiveEndOfData ==
  /\ rpki.at = "idle"
  /\ rpki' = Visit(1, time)
  /\ due' = {p \in Path : /\ \E u \in Range(order) : PathOf[u] = p /\ entry[u].default # "INVALID"
                          /\ cached[p].modified < time}
  /\ UNCHANGED <<objects, time, asked, store, receiver, commands, handler, queue, told, moved>>

\* process_ASPA_EndOfData_main: a path not modified since the End of Data
\* arrived is validated, else the update catches up with its path.
Behind_bug(u, p) == FALSE

Behind(u, p) == entry[u].result # cached[p].result

Continue == Visit(rpki.next, rpki.eod)

VisitUpdate ==
  /\ rpki.at = "visit"
  /\ LET u == rpki.update
         p == PathOf[u]
         Going(at, new) == [at |-> at, eod |-> rpki.eod, update |-> u, next |-> rpki.next,
                            new |-> new, old |-> cached[p].result]
     IN IF entry[u].default = "INVALID" THEN rpki' = Continue
        ELSE IF Newer(rpki.eod, cached[p].modified)
        THEN \E r \in Validated(p, cached[p]) :
               rpki' = Going("path", r)
        ELSE rpki' = IF Behind(u, p) THEN Going("update", cached[p].result) ELSE Continue
  /\ UNCHANGED <<objects, time, asked, store, receiver, commands, handler, queue, told, history>>

EndOfDataModifiesPath ==
  /\ rpki.at = "path"
  /\ ModifyPath(PathOf[rpki.update], rpki.new)
  /\ rpki' = IF rpki.new = rpki.old THEN Continue ELSE [rpki EXCEPT !.at = "update"]
  /\ UNCHANGED <<objects, time, asked, order, entry, receiver, commands, handler, queue, told, history>>

\* rq_queue: an update is queued once.
Queued_bug(u) == IF queue # <<>> THEN queue ELSE <<u>>

Queued(u) == IF u \in Range(queue) THEN queue ELSE Append(queue, u)

EndOfDataModifiesUpdate ==
  /\ rpki.at = "update"
  /\ SetResult(rpki.update, rpki.new)
  /\ queue' = Queued(rpki.update)
  /\ rpki' = Continue
  /\ UNCHANGED <<objects, time, asked, cached, order, receiver, commands, handler, told, history>>

\* The queue is emptied: a result is read, then broadcast.
Dequeue ==
  /\ rpki.at = "drain"
  /\ IF queue = <<>> THEN rpki' = NoData /\ UNCHANGED queue
     ELSE /\ rpki' = [at |-> "tell", update |-> Head(queue), result |-> entry[Head(queue)].result]
          /\ queue' = Tail(queue)
  /\ UNCHANGED <<objects, time, asked, store, receiver, commands, handler, told, history>>

TellChange ==
  /\ rpki.at = "tell"
  /\ told' = [told EXCEPT ![rpki.update] = rpki.result]
  /\ rpki' = [at |-> "drain", update |-> None]
  /\ UNCHANGED <<objects, time, asked, store, receiver, commands, handler, queue, history>>

-----------------------------------------------------------------------------
Receiver ==
  \/ \E u \in Update, d \in Default, s \in Stream, a \in BOOLEAN : Request(u, d, s, a)
  \/ storeUpdate \/ CopyPathResult \/ Answer

Handler == BeginCommand \/ ValidateCommand \/ CommandModifiesPath \/ FinishCommand

RPKI ==
  \/ \E o \in Object : Announce(o) \/ Withdraw(o)
  \/ ReceiveEndOfData \/ VisitUpdate \/ EndOfDataModifiesPath \/ EndOfDataModifiesUpdate
  \/ Dequeue \/ TellChange

\* The updates in the hands of another thread during an End of Data.
Mixing == IF rpki'.at = "idle" THEN {} ELSE {receiver'.update, handler'.update} \ {None}

Next == (Receiver \/ Handler \/ RPKI \/ Tick) /\ mixed' = mixed \cup Mixing

Spec == Init /\ [][Next]_vars

-----------------------------------------------------------------------------
Quiet == receiver.at = "idle" /\ handler.at = "idle" /\ rpki.at = "idle" /\ commands = <<>>

\* Updates the server validates, as far as no two threads had them at a time.
Settled == {u \in Range(order) : entry[u].default # "INVALID" /\ u \notin mixed}

\* The walk of validateASPA, which looks hops up in one direction until the
\* first invalid one and in the other from there on (command_handler.c:420-472),
\* refuses exactly the paths with a valley and accepts exactly those attested
\* hop by hop.
HopsDecide ==
  order = <<>> => \A p \in Path, s \in Direction : Decides(db, p, s, AFI)

\* After an End of Data the AS path cache has results of the current objects:
\* for each path of a stored update that was not modified in the second of the
\* End of Data or later, by a command (process_ASPA_EndOfData_main).
PathsCurrent ==
  rpki.at = "idle" => \A p \in due : cached[p].result \in Validated(p, cached[p])

\* Updates of one path have the result of the path.  It is changed where one
\* update is dealt with, and an End of Data validates it for the first update
\* only (aspa_trie.c:497-519); a command that changes it makes the exception.
UpdatesFollowPath ==
  Quiet => \A u \in Settled :
             \/ entry[u].result \in {"UNDEFINED", cached[PathOf[u]].result}
             \/ PathOf[u] \in moved

\* The router was last sent the result that is stored: changes of an End of
\* Data go through the RPKI queue, results of commands do not.  DONOTUSE, sent
\* while a router's own default stands for the result, tells nothing.
ToldStored ==
  Quiet => \A u \in Settled : told[u] \in {None, "DONOTUSE", entry[u].result}
=============================================================================
