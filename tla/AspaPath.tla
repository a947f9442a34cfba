------------------------------ MODULE AspaPath ------------------------------
(***************************************************************************)
(* Validation of an AS path with ASPA objects: the look-up of a hop in the *)
(* trie of objects (server/aspa_trie.c) and the walk along the path        *)
(* (validateASPA of server/command_handler.c).                             *)
(*                                                                         *)
(* The trie has a node per digit of a customer's AS number.  A withdrawal  *)
(* frees the customer's node, and the nodes below it, but leaves the       *)
(* pointer to it in place; looking up a number that ends inside of the     *)
(* trie returns a pointer that was never set.  What either finds is any    *)
(* result.                                                                 *)
(***************************************************************************)
EXTENDS Naturals, Sequences, SequencesExt

CONSTANTS NoObject, Freed

HopResult == {"VALID", "INVALID", "UNKNOWN", "UNDEFINED"}
PathResult == HopResult \cup {"UNVERIFIABLE"}
Type == {"AS_SEQUENCE", "AS_SET", "OTHER"}
Direction == {"UNKNOWNSTREAM", "UPSTREAM", "DOWNSTREAM"}

\* The number d begins with the digits of the number c.
BeginsWith(d, c) == \E k \in 0 .. 9 : d \div 10 ^ k = c

\* Whether the node of a customer is there only for the ones below it.
InnerNode(db, c) ==
  db[c] = NoObject /\ \E d \in DOMAIN db \ {c} : db[d] # NoObject /\ BeginsWith(d, c)

\* The results ASPA_DB_lookup can return.
ASPA_DB_lookup(db, customer, provider, afi) ==
  IF db[customer] = Freed \/ InnerNode(db, customer) THEN HopResult
  ELSE IF db[customer] = NoObject THEN {"UNKNOWN"}
  ELSE IF provider \in db[customer].providers /\ afi = db[customer].afi THEN {"VALID"}
  ELSE {"INVALID"}

\* swapFlag at a hop: an earlier one was invalid.
Swapped_bug(hop, i) == \E j \in 1 .. i : hop[j] = "INVALID"

Swapped(hop, i) == \E j \in 1 .. i - 1 : hop[j] = "INVALID"

\* The hop results a walk from the origin on can see.
Walks(db, path, direction, afi) ==
  LET l == Reverse(path)
      up(i) == ASPA_DB_lookup(db, l[i], l[i + 1], afi)
      down(i) == ASPA_DB_lookup(db, l[i + 1], l[i], afi)
  IN {hop \in [1 .. Len(l) - 1 -> HopResult] :
        \A i \in DOMAIN hop :
          hop[i] \in IF direction = "DOWNSTREAM" /\ Swapped(hop, i) THEN down(i) ELSE up(i)}

Refuted(hop, direction) ==
  \E i \in DOMAIN hop :
    \/ direction # "DOWNSTREAM" /\ hop[i] = "INVALID"
    \/ direction = "DOWNSTREAM" /\ hop[i] = "UNDEFINED"
    \/ direction = "DOWNSTREAM" /\ hop[i] = "INVALID" /\ Swapped(hop, i)

\* What the bits of all hops say.
Combined(bits) ==
  IF bits \subseteq {"VALID"} THEN "VALID"
  ELSE IF "UNKNOWN" \in bits /\ "UNVERIFIABLE" \notin bits THEN "UNKNOWN"
  ELSE IF "UNVERIFIABLE" \in bits /\ "UNKNOWN" \notin bits THEN "UNVERIFIABLE"
  ELSE "UNDEFINED"

\* The results validateASPA can return for a path, its last AS the origin.
validateASPA(db, path, type, direction, afi) ==
  IF type = "AS_SET" THEN {"UNVERIFIABLE"}
  ELSE {IF Refuted(hop, direction) THEN "INVALID"
        ELSE Combined(Range(hop) \cup IF type = "AS_SEQUENCE" THEN {} ELSE {"UNVERIFIABLE"}) :
          hop \in Walks(db, path, direction, afi)}

-----------------------------------------------------------------------------
(* What a result means, for objects that are all sound.                    *)

\* No customer on the path has attested against the hop from i to its neighbour.
NotDenied(db, c, p, afi) == ASPA_DB_lookup(db, c, p, afi) # {"INVALID"}

\* A path from a customer is free of valleys if it only goes up, one from a
\* provider if it goes up to some hop, crosses it, and goes down from there on.
ValleyFree(db, path, direction, afi) ==
  LET l == Reverse(path)
      hops == 1 .. Len(l) - 1
      top == IF direction = "DOWNSTREAM" THEN 1 .. Len(l) ELSE {Len(l)}
  IN \E k \in top :
       /\ \A i \in hops : i < k => NotDenied(db, l[i], l[i + 1], afi)
       /\ \A i \in hops : i > k => NotDenied(db, l[i + 1], l[i], afi)

\* Every hop up is attested by its customer.
Attested(db, path, afi) ==
  LET l == Reverse(path)
  IN \A i \in 1 .. Len(l) - 1 : ASPA_DB_lookup(db, l[i], l[i + 1], afi) = {"VALID"}

SoundObjects(db) == \A c \in DOMAIN db : db[c] # Freed /\ ~InnerNode(db, c)

\* The walk of validateASPA decides as the objects say.
Decides(db, path, direction, afi) ==
  LET results == validateASPA(db, path, "AS_SEQUENCE", direction, afi)
  IN SoundObjects(db) =>
       /\ results = {"INVALID"} <=> ~ValleyFree(db, path, direction, afi)
       /\ results = {"VALID"} <=> Attested(db, path, afi)
=============================================================================
