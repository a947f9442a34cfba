----------------------- MODULE ClientReferencesProofs -----------------------
(***************************************************************************)
(* Proofs about the references from updates to clients: their counts and   *)
(* the marks of the garbage collector.  They hold as long as no array of   *)
(* clients has to grow (Roomy); MCClientRegistryGrowth shows a violation   *)
(* otherwise.                                                              *)
(***************************************************************************)
EXTENDS ClientRegistryProofs

\* Every update has room for all clients, and counts of updates do not wrap.
Roomy == MinClients >= NumClients /\ Cardinality(Update) < CountMod

\* The clients in an array of them.
Holders(a) == {a[k] : k \in DOMAIN a} \ {0}

\* They stand at its front, each once.
Compact(a) ==
  \A k, l \in DOMAIN a : k < l /\ a[l] # 0 => a[k] \notin {0, a[l]}

\* The updates with client i, where cl gives the arrays.
Refs(cl, i) == {u \in Update : i \in Holders(cl[u])}

\* What references, entries, marks and counts have to do with each other:
\* stored updates, and only they, have an array of clients ...
StoredHaveClients(cl, it) ==
  \A u \in Update : IF it[u] = 0 THEN cl[u] = <<>>
                    ELSE Len(cl[u]) = MinClients /\ Compact(cl[u])

\* ... they are marked without a client ...
Marked(cl, it, gc) ==
  \A u \in Update : u \in gc <=> it[u] # 0 /\ Holders(cl[u]) = {}

\* ... and counted for each client.
Counted(cl, m) ==
  \A i \in ClientID : m[i].updateCount = Cardinality(Refs(cl, i))

\* A DELETE waits for the command handler only if its client has an ID.
DeletersHaveID ==
  \A k \in 1 .. Len(cmdQueue) :
    cmdQueue[k].type = "DELETE" => thread[cmdQueue[k].conn].routerID # 0

\* The inductive invariant about references, relative to IInv.
ReferencesSound ==
  /\ StoredHaveClients(clients, item)
  /\ Marked(clients, item, gcFlag)
  /\ Counted(clients, proxyMap)

RInv == ReferencesSound /\ DeletersHaveID

-----------------------------------------------------------------------------
(* Lemmas about arrays of clients.                                         *)

ClientArray == Seq(ClientID \cup {0})

\* A client finds a slot in a compact array with room for all clients: its
\* own or a free one.
LEMMA SlotFound ==
  ASSUME NEW a \in ClientArray, Compact(a), Len(a) >= NumClients, NEW i \in ClientID
  PROVE  Slots(a, i) # {}
<1> SUFFICES ASSUME Slots(a, i) = {} PROVE FALSE
  OBVIOUS
<1> DEFINE S == 1 .. Len(a)
           T == ClientID \ {i}
<1>1. Len(a) \in Nat /\ DOMAIN a = S /\ a \in [S -> ClientID \cup {0}]
  BY LenProperties DEF ClientArray
<1>2. a \in [S -> T]
  BY <1>1 DEF Slots
<1>3. IsFiniteSet(S) /\ Cardinality(S) = Len(a)
  <2>1. IsFiniteSet(1 .. Len(a)) /\ Cardinality(1 .. Len(a)) = IF 1 > Len(a) THEN 0 ELSE Len(a) - 1 + 1
    BY <1>1, FS_Interval
  <2> QED
    BY <1>1, <2>1
<1>4. IsFiniteSet(T) /\ Cardinality(T) = NumClients - 1
  <2>1. IsFiniteSet(ClientID) /\ Cardinality(ClientID) = NumClients
    <3>1. IsFiniteSet(1 .. NumClients)
          /\ Cardinality(1 .. NumClients) = IF 1 > NumClients THEN 0 ELSE NumClients - 1 + 1
      BY ClientAssumption, FS_Interval
    <3> QED
      BY <3>1, ClientAssumption DEF ClientID
  <2> QED
    BY <2>1, FS_RemoveElement
<1> HIDE DEF S, T
<1>5. PICK x, y \in S : x # y /\ a[x] = a[y]
  <2>1. Cardinality(T) < Cardinality(S)
    BY <1>1, <1>3, <1>4, ClientAssumption
  <2>2. \A f \in [S -> T] : \E x, y \in S : x # y /\ f[x] = f[y]
    BY <1>3, <1>4, <2>1, FS_PigeonHole
  <2> QED
    BY <1>2, <2>2
<1>6. a[x] # 0 /\ x \in Nat /\ y \in Nat
  BY <1>1, <1>2 DEF S, T, ClientID
<1>7. CASE x < y
  BY <1>1, <1>5, <1>6, <1>7 DEF Compact
<1>8. CASE y < x
  BY <1>1, <1>5, <1>6, <1>8 DEF Compact
<1> QED
  BY <1>5, <1>6, <1>7, <1>8

\* A client is entered once, in the first free slot.
LEMMA Adding ==
  ASSUME NEW a \in ClientArray, Compact(a), NEW i \in ClientID, Slots(a, i) # {}
  PROVE  /\ Referring(a, i) \in ClientArray
         /\ Len(Referring(a, i)) = Len(a)
         /\ Compact(Referring(a, i))
         /\ Holders(Referring(a, i)) = Holders(a) \cup {i}
         /\ a[Min(Slots(a, i))] = 0 <=> i \notin Holders(a)
<1> DEFINE m == Min(Slots(a, i))
           b == Referring(a, i)
<1>1. Len(a) \in Nat /\ DOMAIN a = 1 .. Len(a) /\ i # 0
  BY LenProperties DEF ClientArray, ClientID
<1>2. m \in Slots(a, i) /\ \A k \in Slots(a, i) : m <= k
  <2>1. Slots(a, i) \in SUBSET Nat
    BY <1>1 DEF Slots
  <2> QED
    BY <2>1, MinOf
<1>4. b = [a EXCEPT ![m] = i]
  BY DEF Referring
<1> HIDE DEF m, b
<1>3. m \in 1 .. Len(a) /\ a[m] \in {0, i}
      /\ \A k \in 1 .. Len(a) : k < m => a[k] \notin {0, i}
  <2>1. \A k \in 1 .. Len(a) : a[k] \in {0, i} => m <= k
    BY <1>1, <1>2 DEF Slots
  <2>2. m \in 1 .. Len(a) /\ a[m] \in {0, i}
    BY <1>1, <1>2 DEF Slots
  <2> QED
    BY <1>1, <2>1, <2>2
<1>5. b \in ClientArray /\ Len(b) = Len(a)
      /\ \A k \in 1 .. Len(a) : b[k] = IF k = m THEN i ELSE a[k]
  BY <1>3, <1>4, ExceptSeq DEF ClientArray
<1>6. DOMAIN b = 1 .. Len(a)
  BY <1>5, LenProperties DEF ClientArray
<1>7. CASE a[m] = i
  <2>1. \A k \in 1 .. Len(a) : b[k] = a[k]
    BY <1>5, <1>7
  <2>2. i \in Holders(a)
    BY <1>1, <1>3, <1>7 DEF Holders
  <2> QED
    BY <1>1, <1>5, <1>6, <1>7, <2>1, <2>2 DEF Compact, Holders, b, m
<1>8. CASE a[m] = 0
  <2>1. \A k \in 1 .. Len(a) : m < k => a[k] = 0
    BY <1>1, <1>3, <1>8 DEF Compact
  <2>2. i \notin Holders(a)
    BY <1>1, <1>3, <1>8, <2>1 DEF Holders
  <2>3. Holders(b) = Holders(a) \cup {i}
    BY <1>1, <1>3, <1>5, <1>6, <1>8 DEF Holders
  <2>4. Compact(b)
    <3> SUFFICES ASSUME NEW k \in 1 .. Len(a), NEW l \in 1 .. Len(a), k < l, b[l] # 0
                 PROVE  b[k] \notin {0, b[l]}
      BY <1>6 DEF Compact
    <3>1. l <= m
      BY <1>3, <1>5, <2>1
    <3>2. CASE l = m
      BY <1>3, <1>5, <3>2
    <3>3. CASE l < m
      BY <1>1, <1>3, <1>5, <3>3 DEF Compact
    <3> QED
      BY <1>3, <3>1, <3>2, <3>3
  <2> QED
    BY <1>5, <1>8, <2>2, <2>3, <2>4 DEF b, m
<1> QED
  BY <1>3, <1>7, <1>8

\* A client is removed with its only reference, and no hole is left.
LEMMA Removing ==
  ASSUME NEW a \in ClientArray, Compact(a), NEW i \in Holders(a)
  PROVE  /\ Without(a, i) \in ClientArray
         /\ Len(Without(a, i)) = Len(a)
         /\ Compact(Without(a, i))
         /\ Holders(Without(a, i)) = Holders(a) \ {i}
<1> DEFINE b == Without(a, i)
           n == Len(a)
<1>1. n \in Nat /\ DOMAIN a = 1 .. n /\ i # 0
  BY LenProperties DEF ClientArray, Holders
<1>2. PICK k0 \in 1 .. n : a[k0] = i
  BY <1>1 DEF Holders
<1>3. /\ b \in ClientArray /\ Len(b) = n
      /\ \E m \in 1 .. n :
           /\ a[m] = i
           /\ \A j \in 1 .. n : b[j] = IF j < m THEN a[j] ELSE IF j < n THEN a[j + 1] ELSE 0
  <2>1. a \in Seq(ClientID \cup {0}) /\ k0 \in DOMAIN a /\ a[k0] = i
    BY <1>1, <1>2 DEF ClientArray
  <2> HIDE DEF b, n
  <2>2. Without(a, i) \in Seq(ClientID \cup {0}) /\ Len(Without(a, i)) = Len(a)
    BY <2>1, WithoutType
  <2>3. \E m \in 1 .. Len(a) :
           /\ a[m] = i /\ m <= k0
           /\ \A j \in 1 .. Len(a) :
                Without(a, i)[j] = IF j < m THEN a[j]
                                   ELSE IF j < Len(a) THEN a[j + 1] ELSE 0
    BY <2>1, WithoutType
  <2> QED
    BY <2>2, <2>3 DEF b, n, ClientArray
<1>4. PICK m \in 1 .. n :
        /\ a[m] = i
        /\ \A j \in 1 .. n : b[j] = IF j < m THEN a[j] ELSE IF j < n THEN a[j + 1] ELSE 0
  BY <1>3
<1>5. DOMAIN b = 1 .. n
  BY <1>3, LenProperties DEF ClientArray
<1> HIDE DEF b
<1>6. \A j \in 1 .. n : j # m => a[j] # i
  BY <1>1, <1>4 DEF Compact
<1>7. Compact(b)
  <2> SUFFICES ASSUME NEW k \in 1 .. n, NEW l \in 1 .. n, k < l, b[l] # 0
               PROVE  b[k] \notin {0, b[l]}
    BY <1>5 DEF Compact
  <2> DEFINE old(j) == IF j < m THEN j ELSE j + 1
  <2>1. /\ old(k) \in 1 .. n /\ old(l) \in 1 .. n /\ old(k) < old(l)
        /\ b[k] = a[old(k)] /\ b[l] = a[old(l)]
    BY <1>1, <1>4
  <2> QED
    BY <1>1, <2>1 DEF Compact
<1>8. Holders(b) = Holders(a) \ {i}
  <2>1. ASSUME NEW e \in Holders(b) PROVE e \in Holders(a) \ {i}
    <3>1. PICK j \in 1 .. n : b[j] = e
      BY <1>5 DEF Holders
    <3>2. e # 0
      BY DEF Holders
    <3>3. PICK k \in 1 .. n : k # m /\ a[k] = e
      BY <1>1, <1>4, <3>1, <3>2
    <3> QED
      BY <1>1, <1>6, <3>2, <3>3 DEF Holders
  <2>2. ASSUME NEW e \in Holders(a) \ {i} PROVE e \in Holders(b)
    <3>1. PICK k \in 1 .. n : a[k] = e
      BY <1>1 DEF Holders
    <3>2. e # 0 /\ k # m
      BY <1>4, <3>1 DEF Holders
    <3>3. PICK j \in 1 .. n : b[j] = e
      <4>1. CASE k < m
        BY <1>4, <3>1, <4>1
      <4>2. CASE k > m
        <5>1. k - 1 \in 1 .. n /\ ~ (k - 1 < m) /\ k - 1 < n /\ (k - 1) + 1 = k
          BY <1>1, <4>2
        <5> QED
          BY <1>4, <3>1, <5>1
      <4> QED
        BY <1>1, <3>2, <4>1, <4>2
    <3> QED
      BY <1>5, <3>2, <3>3 DEF Holders
  <2> QED
    BY <2>1, <2>2
<1> QED
  BY <1>3, <1>7, <1>8 DEF b

\* An update without room for a client is not stored.
LEMMA ArrayOf ==
  ASSUME TypeOK, RInv, Roomy, NEW u \in Update
  PROVE  /\ clients[u] \in ClientArray
         /\ Compact(clients[u])
         /\ item[u] = 0 => Holders(clients[u]) = {}
         /\ item[u] # 0 => Len(clients[u]) = MinClients /\ Len(clients[u]) >= NumClients
<1>1. clients[u] \in ClientArray
  BY DEF TypeOK, ClientArray
<1>2. clients[u] = <<>> => Compact(clients[u]) /\ Holders(clients[u]) = {}
  BY DEF Compact, Holders
<1> QED
  BY <1>1, <1>2 DEF RInv, ReferencesSound, StoredHaveClients, Roomy

\* A client has fewer references than updateCount can count.
LEMMA RefsFinite ==
  ASSUME Roomy, NEW cl, NEW i
  PROVE  /\ Refs(cl, i) \subseteq Update /\ IsFiniteSet(Refs(cl, i))
         /\ Cardinality(Refs(cl, i)) \in Nat /\ Cardinality(Refs(cl, i)) < CountMod
<1>1. Refs(cl, i) \in SUBSET Update
  BY DEF Refs
<1>2. IsFiniteSet(Update) /\ Cardinality(Update) \in Nat
  BY ProxyAssumption, FS_CardinalityType
<1>3. IsFiniteSet(Refs(cl, i)) /\ Cardinality(Refs(cl, i)) <= Cardinality(Update)
  BY <1>1, <1>2, FS_Subset
<1>4. Cardinality(Refs(cl, i)) \in Nat
  BY <1>3, FS_CardinalityType
<1> QED
  BY <1>1, <1>2, <1>3, <1>4, ClientAssumption DEF Roomy

\* Counting up and down without leaving the range.
LEMMA CountUpDown ==
  ASSUME NEW n \in Nat
  PROVE  /\ n + 1 < CountMod => (n + 1) % CountMod = n + 1
         /\ n > 0 /\ n < CountMod => (n + CountMod - 1) % CountMod = n - 1
<1>1. CountMod \in Nat \ {0}
  BY ClientAssumption
<1>2. \A k \in 0 .. CountMod - 1 : k % CountMod = k /\ (k + CountMod) % CountMod = k
  BY <1>1
<1>3. n + CountMod - 1 = (n - 1) + CountMod
  BY <1>1
<1> QED
  BY <1>1, <1>2, <1>3

\* Refs is what the module calls References.
LEMMA ReferencesAre ==
  ASSUME TypeOK, NEW i \in ClientID
  PROVE  References(i) = Refs(clients, i)
  BY 0 \notin ClientID DEF References, Refs, Holders, ClientID

-----------------------------------------------------------------------------
(* What the operations on the registry do to the references.               *)

\* A request gives its client a reference, once.
LEMMA RegisterKeeps ==
  ASSUME TypeOK, RInv, Roomy, NEW u \in Update, NEW i \in ClientID \cup {0}, Register(u, i)
  PROVE  ReferencesSound'
<1> DEFINE old == IF item[u] = 0 THEN [k \in 1 .. MinClients |-> 0] ELSE clients[u]
           arr == IF i = 0 THEN old ELSE Referring(old, i)
           m   == Min(Slots(old, i))
<1>1. /\ old \in ClientArray /\ Compact(old) /\ Len(old) = MinClients
      /\ Holders(old) = Holders(clients[u])
  <2>1. CASE item[u] = 0
    <3> DEFINE z == [k \in 1 .. MinClients |-> 0]
    <3>1. /\ z \in ClientArray /\ Len(z) = MinClients /\ DOMAIN z = 1 .. MinClients
          /\ \A k \in 1 .. MinClients : z[k] = 0
      BY ClientAssumption DEF ClientArray
    <3>2. old = z
      BY <2>1
    <3> HIDE DEF z, old
    <3>3. Compact(z) /\ Holders(z) = {}
      BY <3>1 DEF Compact, Holders
    <3> QED
      BY <2>1, <3>1, <3>2, <3>3, ArrayOf
  <2>2. CASE item[u] # 0
    BY <2>2, ArrayOf
  <2> QED
    BY <2>1, <2>2
<1>2. /\ item' = [item EXCEPT ![u] = Position(u)]
      /\ clients' = [clients EXCEPT ![u] = arr]
      /\ i = 0 => /\ proxyMap' = proxyMap
                  /\ gcFlag' = IF item[u] = 0 THEN gcFlag \cup {u} ELSE gcFlag
      /\ i # 0 /\ Slots(old, i) # {} =>
           /\ gcFlag' = gcFlag \ {u}
           /\ proxyMap' = IF old[m] = 0
                          THEN [proxyMap EXCEPT ![i].updateCount = (@ + 1) % CountMod]
                          ELSE proxyMap
  BY DEF Register
<1> HIDE DEF old
<1>3. i # 0 => Slots(old, i) # {}
  BY <1>1, SlotFound DEF Roomy
<1>4. i # 0 => /\ arr \in ClientArray /\ Len(arr) = MinClients /\ Compact(arr)
               /\ Holders(arr) = Holders(old) \cup {i}
               /\ old[m] = 0 <=> i \notin Holders(old)
  <2> SUFFICES ASSUME i \in ClientID
               PROVE  /\ Referring(old, i) \in ClientArray /\ Len(Referring(old, i)) = MinClients
                      /\ Compact(Referring(old, i))
                      /\ Holders(Referring(old, i)) = Holders(old) \cup {i}
                      /\ old[m] = 0 <=> i \notin Holders(old)
    BY 0 \notin ClientID DEF ClientID
  <2> QED
    BY <1>1, <1>3, Adding, 0 \notin ClientID DEF ClientID
<1>5. i = 0 => arr = old
  OBVIOUS
<1> HIDE DEF arr, m
<1>6. Position(u) # 0 /\ \A v \in Update : item'[v] = IF v = u THEN Position(u) ELSE item[v]
  <2>1. Stored \in SUBSET Update
    BY DEF Stored
  <2>2. Cardinality(Stored) \in Nat
    BY <2>1, ProxyAssumption, FS_Subset, FS_CardinalityType
  <2>3. Position(u) # 0
    BY <2>2 DEF Position
  <2> QED
    BY <1>2, <2>3 DEF TypeOK
<1>7. /\ \A v \in Update : v # u => clients'[v] = clients[v] /\ item'[v] = item[v]
      /\ clients'[u] = arr /\ item'[u] # 0
  BY <1>2, <1>6 DEF TypeOK
<1>8. StoredHaveClients(clients', item')
  BY <1>1, <1>4, <1>5, <1>7 DEF StoredHaveClients, RInv, ReferencesSound
<1>9. Marked(clients', item', gcFlag')
  <2>1. \A v \in Update : v # u => (v \in gcFlag' <=> v \in gcFlag)
    BY <1>2, <1>3
  <2>2. u \in gcFlag' <=> Holders(arr) = {}
    <3>1. CASE i = 0
      BY <1>1, <1>2, <1>5, <3>1, ArrayOf DEF Marked, RInv, ReferencesSound
    <3>2. CASE i # 0
      BY <1>2, <1>3, <1>4, <3>2
    <3> QED
      BY <3>1, <3>2
  <2> QED
    BY <1>7, <2>1, <2>2 DEF Marked, RInv, ReferencesSound
<1>10. Counted(clients', proxyMap')
  <2> SUFFICES ASSUME NEW j \in ClientID
               PROVE  proxyMap'[j].updateCount = Cardinality(Refs(clients', j))
    BY DEF Counted
  <2>0. proxyMap[j].updateCount = Cardinality(Refs(clients, j)) /\ proxyMap \in [ClientID -> Mapping]
    BY DEF RInv, ReferencesSound, Counted, TypeOK
  <2>1. CASE j # i \/ i \in Holders(old)
    <3>1. Refs(clients', j) = Refs(clients, j)
      BY <1>1, <1>4, <1>5, <1>7, <2>1 DEF Refs
    <3>2. proxyMap'[j].updateCount = proxyMap[j].updateCount
      BY <1>2, <1>3, <1>4, <2>0, <2>1 DEF Mapping
    <3> QED
      BY <2>0, <3>1, <3>2
  <2>2. CASE j = i /\ i \notin Holders(old)
    <3>0. i \in ClientID /\ i # 0
      BY <2>2, 0 \notin ClientID DEF ClientID
    <3>1. Refs(clients', i) = Refs(clients, i) \cup {u} /\ u \notin Refs(clients, i)
      BY <1>1, <1>4, <1>7, <2>2, <3>0 DEF Refs
    <3>2. Cardinality(Refs(clients', i)) = Cardinality(Refs(clients, i)) + 1
      BY <3>1, RefsFinite, FS_AddElement
    <3>3. proxyMap'[i].updateCount = (proxyMap[i].updateCount + 1) % CountMod
      BY <1>2, <1>3, <1>4, <2>0, <2>2, <3>0 DEF Mapping
    <3> DEFINE n == Cardinality(Refs(clients, i))
    <3>4. n \in Nat /\ n + 1 < CountMod
      BY <3>2, RefsFinite
    <3> HIDE DEF n
    <3>5. (n + 1) % CountMod = n + 1
      BY <3>4, CountUpDown
    <3> QED
      BY <2>0, <2>2, <3>2, <3>3, <3>5 DEF n
  <2> QED
    BY <2>1, <2>2
<1> QED
  BY <1>8, <1>9, <1>10 DEF ReferencesSound

\* The updates U lose client i, if they have it.
LoseClient(U, i) ==
  /\ clients' = [u \in Update |-> IF u \in U THEN Without(clients[u], i) ELSE clients[u]]
  /\ gcFlag' = gcFlag \cup Orphaned(U, i)

\* Afterwards the other references are as before, without holes, and the
\* updates without a client are marked.
LEMMA LoseClientKeeps ==
  ASSUME TypeOK, RInv, Roomy, NEW i \in ClientID,
         NEW U \in SUBSET Refs(clients, i), LoseClient(U, i), UNCHANGED item
  PROVE  /\ StoredHaveClients(clients', item')
         /\ Marked(clients', item', gcFlag')
         /\ Refs(clients', i) = Refs(clients, i) \ U
         /\ \A j \in ClientID \ {i} : Refs(clients', j) = Refs(clients, j)
<1>1. \A u \in U : i \in Holders(clients[u]) /\ u \in Update
  BY DEF Refs
<1>2. ASSUME NEW u \in U
      PROVE  /\ Len(clients'[u]) = Len(clients[u])
             /\ Compact(clients'[u])
             /\ Holders(clients'[u]) = Holders(clients[u]) \ {i}
             /\ item[u] # 0
  <2>1. clients'[u] = Without(clients[u], i)
    BY <1>1 DEF LoseClient
  <2>2. clients[u] \in ClientArray /\ Compact(clients[u]) /\ item[u] # 0
    BY <1>1, ArrayOf
  <2> QED
    BY <1>1, <2>1, <2>2, Removing
<1>3. \A u \in Update \ U : clients'[u] = clients[u]
  BY DEF LoseClient
<1>4. \A u \in U : u \in Orphaned(U, i) <=> Holders(clients[u]) \ {i} = {}
  BY <1>1 DEF Orphaned, Holders
<1>5. Orphaned(U, i) \subseteq U
  BY DEF Orphaned
<1>6. StoredHaveClients(clients', item')
  BY <1>1, <1>2, <1>3 DEF StoredHaveClients, RInv, ReferencesSound
<1>7. Marked(clients', item', gcFlag')
  <2>1. \A u \in Update : u \in gcFlag <=> item[u] # 0 /\ Holders(clients[u]) = {}
    BY DEF Marked, RInv, ReferencesSound
  <2>2. \A u \in U : u \in gcFlag' <=> Holders(clients'[u]) = {}
    BY <1>1, <1>2, <1>4, <2>1 DEF LoseClient
  <2>3. \A u \in Update \ U : u \in gcFlag' <=> u \in gcFlag
    BY <1>5 DEF LoseClient
  <2> QED
    BY <1>2, <1>3, <2>1, <2>2, <2>3 DEF Marked
<1>8. Refs(clients', i) = Refs(clients, i) \ U
  BY <1>1, <1>2, <1>3 DEF Refs
<1>9. \A j \in ClientID \ {i} : Refs(clients', j) = Refs(clients, j)
  BY <1>1, <1>2, <1>3 DEF Refs
<1> QED
  BY <1>6, <1>7, <1>8, <1>9

\* unregisterClientID finds all references before updateCount is used up.
LEMMA UnregisteredAll ==
  ASSUME TypeOK, RInv, Roomy, NEW i \in ClientID
  PROVE  Unregistered(i) = Refs(clients, i)
<1>1. References(i) = Refs(clients, i) /\ proxyMap[i].updateCount = Cardinality(Refs(clients, i))
  BY ReferencesAre DEF RInv, ReferencesSound, Counted
<1>2. IsFiniteSet(Refs(clients, i)) /\ Cardinality(Refs(clients, i)) \in Nat
  BY RefsFinite
<1>3. ASSUME NEW u \in Refs(clients, i)
      PROVE  Cardinality({v \in Refs(clients, i) : item[v] < item[u]}) < Cardinality(Refs(clients, i))
  <2> DEFINE R == Refs(clients, i)
             B == {v \in R : item[v] < item[u]}
  <2>1. item[u] \in Int
    BY DEF Refs, TypeOK
  <2>2. B \in SUBSET (R \ {u})
    BY <2>1
  <2>3. IsFiniteSet(R \ {u}) /\ Cardinality(R \ {u}) = Cardinality(R) - 1
    BY <1>2, FS_RemoveElement
  <2> HIDE DEF R, B
  <2>4. IsFiniteSet(B) /\ Cardinality(B) <= Cardinality(R \ {u})
    BY <2>2, <2>3, FS_Subset
  <2>5. Cardinality(B) \in Nat
    BY <2>4, FS_CardinalityType
  <2>6. Cardinality(R) \in Nat
    BY <1>2 DEF R
  <2>7. Cardinality(B) < Cardinality(R)
    BY <2>3, <2>4, <2>5, <2>6
  <2> QED
    BY <2>7 DEF B, R
<1> QED
  BY <1>1, <1>3 DEF Unregistered

\* The end of a session leaves no reference to its client.
LEMMA DeactivateKeeps ==
  ASSUME TypeOK, RInv, Roomy, NEW i \in ClientID \cup {0}, NEW b, Deactivate(i, b),
         UNCHANGED item
  PROVE  ReferencesSound'
<1>1. CASE i = 0
  BY <1>1 DEF Deactivate, RInv, ReferencesSound
<1>2. CASE i # 0
  <2>1. i \in ClientID /\ LoseClient(Refs(clients, i), i)
    BY <1>2, UnregisteredAll DEF Deactivate, LoseClient
  <2>2. /\ StoredHaveClients(clients', item') /\ Marked(clients', item', gcFlag')
        /\ Refs(clients', i) = {}
        /\ \A j \in ClientID \ {i} : Refs(clients', j) = Refs(clients, j)
    BY <2>1, LoseClientKeeps
  <2>3. /\ proxyMap' = [proxyMap EXCEPT ![i] = Released(proxyMap[i], b)]
        /\ proxyMap \in [ClientID -> Mapping] /\ proxyMap[i] \in Mapping
    BY <1>2, <2>1 DEF Deactivate, TypeOK
  <2>4. Released(proxyMap[i], b).updateCount = 0
    BY <2>3 DEF Released, Mapping
  <2>5. Counted(clients', proxyMap')
    BY <2>1, <2>2, <2>3, <2>4, FS_EmptySet DEF Counted, RInv, ReferencesSound
  <2> QED
    BY <2>2, <2>5 DEF ReferencesSound
<1> QED
  BY <1>1, <1>2

\* Packets of the proxies, replies to them and the steps of the handshake
\* leave counts and references alone.
LEMMA OthersKeep ==
  ASSUME RInv, UNCHANGED <<item, clients, gcFlag>>,
         \A i \in ClientID : proxyMap'[i].updateCount = proxyMap[i].updateCount
  PROVE  ReferencesSound'
BY DEF RInv, ReferencesSound, Counted

\* A DELETE is queued for a client that has its ID and keeps it.
LEMMA DeletersKeepID ==
  ASSUME IInv, RInv,
         \A c \in Conn : thread[c].routerID # 0 => thread'[c].routerID # 0,
         \/ UNCHANGED cmdQueue
         \/ cmdQueue # <<>> /\ cmdQueue' = Tail(cmdQueue)
         \/ \E pkt \in Packet :
              /\ cmdQueue' = Append(cmdQueue, pkt)
              /\ pkt.type = "DELETE" => thread[pkt.conn].initialized
  PROVE  DeletersHaveID'
<1>1. /\ cmdQueue \in Seq(Packet) /\ Len(cmdQueue) \in Nat
      /\ \A k \in 1 .. Len(cmdQueue) : cmdQueue[k] \in Packet /\ cmdQueue[k].conn \in Conn
  BY PacketFields, LenProperties, ElementOfSeq DEF IInv, TypeOK
<1>2. \A k \in 1 .. Len(cmdQueue) :
        cmdQueue[k].type = "DELETE" => thread'[cmdQueue[k].conn].routerID # 0
  BY <1>1 DEF RInv, DeletersHaveID
<1>3. CASE UNCHANGED cmdQueue
  BY <1>2, <1>3 DEF DeletersHaveID
<1>4. CASE cmdQueue # <<>> /\ cmdQueue' = Tail(cmdQueue)
  <2>1. /\ Len(cmdQueue') = Len(cmdQueue) - 1
        /\ \A k \in 1 .. Len(cmdQueue') : cmdQueue'[k] = cmdQueue[k + 1]
    BY <1>1, <1>4, HeadTailProperties
  <2>2. \A k \in 1 .. Len(cmdQueue') : k + 1 \in 1 .. Len(cmdQueue)
    BY <1>1, <2>1
  <2> QED
    BY <1>2, <2>1, <2>2 DEF DeletersHaveID
<1>5. ASSUME NEW pkt \in Packet, cmdQueue' = Append(cmdQueue, pkt),
             pkt.type = "DELETE" => thread[pkt.conn].initialized
      PROVE  DeletersHaveID'
  <2>1. /\ Len(cmdQueue') = Len(cmdQueue) + 1
        /\ \A k \in 1 .. Len(cmdQueue) : cmdQueue'[k] = cmdQueue[k]
        /\ cmdQueue'[Len(cmdQueue) + 1] = pkt
    BY <1>1, <1>5, AppendProperties
  <2>2. \A k \in 1 .. Len(cmdQueue') : k \in 1 .. Len(cmdQueue) \/ k = Len(cmdQueue) + 1
    BY <1>1, <2>1
  <2>3. pkt.type = "DELETE" => thread'[pkt.conn].routerID # 0
    BY <1>5, PacketFields DEF IInv, HandshakeDone
  <2> QED
    BY <1>2, <2>1, <2>2, <2>3 DEF DeletersHaveID
<1> QED
  BY <1>3, <1>4, <1>5

\* A deletion takes its client's reference back.
LEMMA ProcessDeleteKeeps ==
  ASSUME IInv, RInv, Roomy, ProcessDelete
  PROVE  ReferencesSound'
<1> DEFINE pkt == Head(cmdQueue)
           i   == thread[pkt.conn].routerID
           u   == pkt.arg
<1>0. TypeOK
  BY DEF IInv
<1>1. /\ cmdQueue \in Seq(Packet) /\ cmdQueue # <<>> /\ pkt.type = "DELETE"
      /\ pkt \in Packet /\ 1 \in 1 .. Len(cmdQueue) /\ pkt = cmdQueue[1]
  BY HeadTailProperties, EmptySeq, ElementOfSeq
     DEF ProcessDelete, Command, IInv, TypeOK
<1>2. pkt.conn \in Conn /\ u \in Update
  BY <1>1, PacketFields
<1>3. i \in ClientID
  <2>1. i # 0
    BY <1>1 DEF RInv, DeletersHaveID
  <2> QED
    BY <1>0, <1>2, <2>1 DEF TypeOK, Thread
<1>4. \/ u \notin Refs(clients, i) /\ UNCHANGED <<clients, gcFlag, proxyMap>>
      \/ /\ u \in Refs(clients, i)
         /\ clients' = [clients EXCEPT ![u] = Without(@, i)]
         /\ gcFlag' = gcFlag \cup Orphaned({u}, i)
         /\ proxyMap' = [proxyMap EXCEPT ![i].updateCount = (@ + CountMod - 1) % CountMod]
  <2>1. References(i) = Refs(clients, i)
    BY <1>0, <1>3, ReferencesAre
  <2> QED
    BY <2>1 DEF ProcessDelete
<1>5. UNCHANGED item
  BY DEF ProcessDelete
<1> HIDE DEF pkt, i, u
<1>6. CASE UNCHANGED <<clients, gcFlag, proxyMap>>
  BY <1>5, <1>6, OthersKeep
<1>7. CASE /\ u \in Refs(clients, i)
           /\ clients' = [clients EXCEPT ![u] = Without(@, i)]
           /\ gcFlag' = gcFlag \cup Orphaned({u}, i)
           /\ proxyMap' = [proxyMap EXCEPT ![i].updateCount = (@ + CountMod - 1) % CountMod]
  <2> DEFINE R == Refs(clients, i)
             n == Cardinality(R)
  <2>1. LoseClient({u}, i)
    BY <1>0, <1>2, <1>7 DEF LoseClient, TypeOK
  <2>2. /\ StoredHaveClients(clients', item') /\ Marked(clients', item', gcFlag')
        /\ Refs(clients', i) = R \ {u}
        /\ \A j \in ClientID \ {i} : Refs(clients', j) = Refs(clients, j)
    BY <1>0, <1>3, <1>5, <1>7, <2>1, LoseClientKeeps
  <2>3. n \in Nat /\ n < CountMod /\ IsFiniteSet(R)
    BY RefsFinite
  <2>4. Cardinality(R \ {u}) = n - 1 /\ Cardinality(R \ {u}) \in Nat
    BY <1>7, <2>3, FS_RemoveElement, FS_CardinalityType
  <2>5. proxyMap[i].updateCount = n
    BY <1>3 DEF RInv, ReferencesSound, Counted
  <2>6. /\ proxyMap'[i].updateCount = (n + CountMod - 1) % CountMod
        /\ \A j \in ClientID \ {i} : proxyMap'[j] = proxyMap[j]
    <3>1. proxyMap \in [ClientID -> Mapping]
      BY <1>0 DEF TypeOK
    <3> HIDE DEF n
    <3> QED
      BY <1>3, <1>7, <2>5, <3>1 DEF Mapping
  <2> HIDE DEF n, R
  <2>7. (n + CountMod - 1) % CountMod = n - 1
    <3>1. n > 0
      BY <2>3, <2>4
    <3> QED
      BY <2>3, <3>1, CountUpDown
  <2>8. Counted(clients', proxyMap')
    BY <2>2, <2>4, <2>6, <2>7 DEF Counted, RInv, ReferencesSound
  <2> QED
    BY <2>2, <2>8 DEF ReferencesSound
<1> QED
  BY <1>4, <1>6, <1>7

-----------------------------------------------------------------------------
(* The theorems.                                                           *)

LEMMA InitRInv == ASSUME Init PROVE RInv
<1>1. cmdQueue = <<>>
  BY DEF Init
<1>2. \A u \in Update : item[u] = 0 /\ clients[u] = <<>> /\ Holders(clients[u]) = {}
  BY DEF Init, Holders
<1>3. \A i \in ClientID : Refs(clients, i) = {} /\ proxyMap[i].updateCount = 0
  BY <1>2 DEF Init, Refs
<1>4. gcFlag = {}
  BY DEF Init
<1>5. DeletersHaveID
  BY <1>1 DEF DeletersHaveID
<1>6. StoredHaveClients(clients, item) /\ Marked(clients, item, gcFlag)
  BY <1>2, <1>4 DEF StoredHaveClients, Marked
<1>7. Counted(clients, proxyMap)
  BY <1>3, FS_EmptySet DEF Counted
<1> QED
  BY <1>5, <1>6, <1>7 DEF RInv, ReferencesSound

LEMMA NextReferences ==
  ASSUME IInv, RInv, Roomy, [Next]_vars
  PROVE  ReferencesSound'
<1>0. TypeOK
  BY DEF IInv
<1>1. CASE UNCHANGED registry
  BY <1>1, OthersKeep DEF registry
<1>2. ASSUME NEW c \in Conn, Disconnect(c) PROVE ReferencesSound'
  <2>1. thread[c].routerID \in ClientID \cup {0}
    BY <1>0 DEF TypeOK, Thread
  <2> QED
    BY <1>0, <1>2, <2>1, DeactivateKeeps DEF Disconnect
<1>3. CASE HandleVerify
  <2> DEFINE pkt == Head(rcvQueue)
             i   == IF pkt.type = "VERIFY" THEN thread[pkt.conn].routerID ELSE 0
  <2>1. pkt \in Packet /\ pkt.type \in {"VERIFY", "STORE"}
    BY <1>3, AfterTail DEF HandleVerify, Received, IInv, TypeOK, HelloAhead
  <2>2. pkt.arg \in Update /\ pkt.conn \in Conn
    BY <2>1, PacketFields
  <2>3. i \in ClientID \cup {0}
    BY <1>0, <2>2 DEF TypeOK, Thread
  <2>4. Register(pkt.arg, i) \/ UNCHANGED registry
    BY <1>3 DEF HandleVerify
  <2> HIDE DEF i
  <2> QED
    BY <1>0, <1>1, <2>2, <2>3, <2>4, RegisterKeeps
<1>4. CASE AcceptHello
  <2> DEFINE c == Head(cmdQueue).conn
             p == Head(cmdQueue).arg
             j == WantedID(p)
  <2>1. /\ proxyMap' = [proxyMap EXCEPT ![j] =
             [@ EXCEPT !.proxyID = p, !.socket = c, !.isActive = TRUE, !.crashed = FALSE]]
        /\ UNCHANGED <<item, clients, gcFlag>>
    BY <1>4 DEF AcceptHello, addMapping
  <2> HIDE DEF c, p, j
  <2>2. \A k \in ClientID : proxyMap'[k].updateCount = proxyMap[k].updateCount
    BY <1>0, <2>1 DEF TypeOK, Mapping
  <2> QED
    BY <2>1, <2>2, OthersKeep
<1>5. CASE ProcessGoodbye
  <2> DEFINE i == thread[Head(cmdQueue).conn].routerID
  <2>1. Head(cmdQueue).conn \in Conn
    BY <1>5, AfterTail, PacketFields DEF ProcessGoodbye, Command, IInv, TypeOK, HelloAhead
  <2>2. i \in ClientID \cup {0} /\ Deactivate(i, FALSE) /\ UNCHANGED item
    BY <1>0, <1>5, <2>1 DEF ProcessGoodbye, TypeOK, Thread
  <2> QED
    BY <1>0, <2>2, DeactivateKeeps
<1>6. CASE ProcessDelete
  BY <1>6, ProcessDeleteKeeps
<1> QED
  BY <1>1, <1>2, <1>3, <1>4, <1>5, <1>6 DEF Next, vars, Connect, SendGoodbye, SendHello,
     SendVerify, SendStore, SendDelete, Send, HandleHello, HandleGoodbye, HandleDelete,
     CompleteHello, RejectHello

LEMMA NextDeleters ==
  ASSUME IInv, RInv, [Next]_vars
  PROVE  DeletersHaveID'
<1>0. thread \in [Conn -> Thread]
  BY DEF IInv, TypeOK
<1>1. \/ UNCHANGED cmdQueue
      \/ cmdQueue # <<>> /\ cmdQueue' = Tail(cmdQueue)
      \/ \E pkt \in Packet :
           /\ cmdQueue' = Append(cmdQueue, pkt)
           /\ pkt.type = "DELETE" => thread[pkt.conn].initialized
  <2>1. rcvQueue # <<>> => Head(rcvQueue) \in Packet
    BY AfterTail DEF IInv, TypeOK, HelloAhead
  <2>2. CASE HandleHello \/ HandleGoodbye \/ HandleDelete
    BY <2>1, <2>2 DEF HandleHello, HandleGoodbye, HandleDelete, Received, ToCommands
  <2>3. CASE AcceptHello \/ RejectHello \/ ProcessGoodbye \/ ProcessDelete
    BY <2>3 DEF AcceptHello, RejectHello, ProcessGoodbye, ProcessDelete, Command
  <2> QED
    BY <2>2, <2>3 DEF Next, vars, Connect, SendGoodbye, SendHello, SendVerify, SendStore,
       SendDelete, Send, Disconnect, HandleVerify, CompleteHello
<1>2. \A c \in Conn : thread[c].routerID # 0 => thread'[c].routerID # 0
  <2>1. CASE UNCHANGED thread
    BY <2>1
  <2>2. ASSUME NEW c \in Conn, Connect(c) \/ Disconnect(c)
        PROVE  \A d \in Conn : thread'[d].routerID = thread[d].routerID
    BY <1>0, <2>2 DEF Connect, Disconnect, Thread
  <2>3. CASE HandleGoodbye
    <3> DEFINE b == thread[Head(rcvQueue).conn].goodByeReceived
                      \/ (thread[Head(rcvQueue).conn].active
                            /\ thread[Head(rcvQueue).conn].initialized)
    <3>1. thread' = [thread EXCEPT ![Head(rcvQueue).conn].goodByeReceived = b]
      BY <2>3 DEF HandleGoodbye
    <3> HIDE DEF b
    <3> QED
      BY <1>0, <3>1 DEF Thread
  <2>4. CASE AcceptHello
    <3> DEFINE c == Head(cmdQueue).conn
               p == Head(cmdQueue).arg
               i == WantedID(p)
    <3>1. i # 0 /\ thread' = [thread EXCEPT ![c].proxyID = p, ![c].routerID = i]
      BY <2>4 DEF AcceptHello, Mappable
    <3> HIDE DEF c, p, i
    <3> QED
      BY <1>0, <3>1 DEF Thread
  <2>5. CASE CompleteHello
    BY <1>0, <2>5 DEF CompleteHello, Thread
  <2>6. CASE RejectHello
    BY <1>0, <2>6 DEF RejectHello, Thread
  <2>7. CASE ProcessGoodbye
    BY <1>0, <2>7 DEF ProcessGoodbye, Thread
  <2> QED
    BY <2>1, <2>2, <2>3, <2>4, <2>5, <2>6, <2>7 DEF Next, vars, SendGoodbye, SendHello,
       SendVerify, SendStore, SendDelete, Send, HandleHello, HandleDelete, HandleVerify,
       ProcessDelete
<1> QED
  BY <1>1, <1>2, DeletersKeepID

\* References, marks and counts agree, and deleters have a client ID.
THEOREM ReferencesInvariant == ASSUME Roomy PROVE Spec => [](IInv /\ RInv)
<1>1. Init => RInv
  BY InitRInv
<1>2. IInv /\ RInv /\ [Next]_vars => RInv'
  BY NextReferences, NextDeleters DEF RInv
<1> QED
  BY <1>1, <1>2, InitIInv, NextIInv, PTL DEF Spec

\* updateCount is the number of the client's references, so that the end of
\* a session finds every one, as long as no array of clients has to grow.
THEOREM ReferencesCounted == ASSUME Roomy PROVE Spec => []CountsReferences
<1>1. IInv /\ RInv => CountsReferences
  BY ReferencesAre DEF IInv, RInv, ReferencesSound, Counted, CountsReferences
<1> QED
  BY <1>1, ReferencesInvariant, PTL

\* Clients are added and removed without holes or duplicates.
THEOREM ClientsStayCompact == ASSUME Roomy PROVE Spec => []ClientsCompact
<1>1. IInv /\ RInv => ClientsCompact
  <2>1. IInv /\ RInv => \A u \in Update : Compact(clients[u])
    BY ArrayOf DEF IInv
  <2> QED
    BY <2>1 DEF Compact, ClientsCompact
<1> QED
  BY <1>1, ReferencesInvariant, PTL

\* The garbage collector's marks are the updates without a client.
THEOREM UnreferencedMarked == ASSUME Roomy PROVE Spec => []MarkedIfUnreferenced
<1>1. IInv /\ RInv => MarkedIfUnreferenced
  <2> SUFFICES ASSUME IInv, RInv PROVE MarkedIfUnreferenced
    OBVIOUS
  <2>0. TypeOK
    BY DEF IInv
  <2>1. gcFlag \subseteq Update
    BY <2>0 DEF TypeOK
  <2>2. \A u \in Update : u \in gcFlag <=> item[u] # 0 /\ Holders(clients[u]) = {}
    BY DEF RInv, ReferencesSound, Marked
  <2>3. \A u \in Update : Holders(clients[u]) \subseteq ClientID
    <3>1. \A u \in Update : DOMAIN clients[u] = 1 .. Len(clients[u])
                            /\ \A k \in 1 .. Len(clients[u]) : clients[u][k] \in ClientID \cup {0}
      BY <2>0, LenProperties, ElementOfSeq DEF TypeOK
    <3> QED
      BY <3>1 DEF Holders
  <2>4. \A i \in ClientID : References(i) = Refs(clients, i)
    BY <2>0, ReferencesAre
  <2>5. \A u \in Update : u \in UNION {References(i) : i \in ClientID} <=> Holders(clients[u]) # {}
    BY <2>3, <2>4 DEF Refs
  <2> QED
    BY <2>1, <2>2, <2>5 DEF MarkedIfUnreferenced, Stored
<1> QED
  BY <1>1, ReferencesInvariant, PTL
=============================================================================
