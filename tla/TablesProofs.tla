---------------------------- MODULE TablesProofs ----------------------------
(***************************************************************************)
(* Proofs about the rows of the database that requests and the collector   *)
(* work on: a tunnel's peers, a peer's counters and the manual nodes.  The *)
(* three parts do not interact and are proved one after the other.         *)
(*                                                                         *)
(* Peers.  That addresses are distinct is not inductive: the address a     *)
(* request has chosen must still be free when its row is stored, which     *)
(* needs that no other request is choosing one.  That the device follows   *)
(* the table is kept by whoever has yet to reload it.                      *)
(*                                                                         *)
(* Counters.  rx <= total is not inductive: what a tick that has polled,   *)
(* or the next one, will add must be covered by what was transferred.      *)
(* Between two readings the counter either grew or restarted at zero,      *)
(* which is what the CASE of UpdateTraffic guesses; Step(b, a) is what it  *)
(* then adds for a reading b after a reading a.  The guess may be wrong,   *)
(* but it never adds more than there was.                                  *)
(*                                                                         *)
(* Manual nodes.  Each request looks in one transaction and writes in a    *)
(* later one; the invariants say what of that look still holds when it     *)
(* writes: the node's subscription always, the URIs while one request at a *)
(* time stands between the two, the number of nodes while it runs alone.   *)
(*                                                                         *)
(* The xray configuration has a module of its own, XrayConfigProofs; here  *)
(* are the types of the four parts together, in MCTables.                  *)
(***************************************************************************)
EXTENDS MCTables, XrayConfigProofs, FiniteSetTheorems, WellFoundedInduction

-----------------------------------------------------------------------------
(* Numbers.                                                                 *)

\* Every set of natural numbers but the empty one has a least element.
LEMMA Least ==
    ASSUME NEW T \in SUBSET Nat, T # {}
    PROVE  \E x \in T : \A y \in T : x <= y
<1> DEFINE R == OpToRel(<, Nat)
<1>1. IsWellFoundedOn(R, Nat)
  BY NatLessThanWellFounded
<1>2. \E x \in T : \A y \in T : ~(<<y, x>> \in R)
  <2> HIDE DEF R
  <2> QED BY <1>1, WFMin
<1>3. \A x, y \in Nat : <<y, x>> \in R <=> y < x
  BY DEF OpToRel
<1>4. PICK x \in T : \A y \in T : ~(<<y, x>> \in R)
  BY <1>2
<1>5. \A y \in T : x \in Nat /\ y \in Nat /\ ~(y < x)
  BY <1>3, <1>4
<1>6. \A y \in T : x <= y
  BY <1>5
<1> QED
  BY <1>6

\* So the minimum of such a set is one of its elements.
LEMMA MinIs ==
    ASSUME NEW T \in SUBSET Nat, T # {}
    PROVE  Min(T) \in T
  BY Least DEF Min

\* And the maximum, if the set is bounded.
LEMMA MaxIs ==
    ASSUME NEW N \in Nat, NEW T \in SUBSET (0 .. N), T # {}
    PROVE  Max(T) \in T
<1> DEFINE U == {N - x : x \in T}
<1>0. PICK z \in T : TRUE
  OBVIOUS
<1>00. \A x \in T : N - x \in Nat
  OBVIOUS
<1>1. U \in SUBSET Nat /\ U # {}
  <2>1. N - z \in U
    OBVIOUS
  <2>2. \A u \in U : u \in Nat
    BY <1>00
  <2> QED BY <2>1, <2>2
<1>2. PICK u \in U : \A v \in U : u <= v
  <2> HIDE DEF U
  <2> QED BY <1>1, Least
<1>3. PICK x \in T : u = N - x
  OBVIOUS
<1>4. \A y \in T : x >= y
  <2> TAKE y \in T
  <2>1. N - y \in U
    OBVIOUS
  <2>2. u <= N - y
    BY <1>2, <2>1
  <2> QED BY <2>2, <1>3
<1> QED BY <1>3, <1>4 DEF Max

-----------------------------------------------------------------------------
(* Peers: types.                                                           *)

Inserting == {c \in Clients : client[c].at = "insert"}

ClientTypes == [at : {"idle", "insert", "posted", "deleted", "reload"}, addr : Addrs,
                list : SUBSET (PeerIds \X Configs)]

\* The bound on ids counts the requests that have chosen an address.
Reserved == born + Cardinality(Inserting) <= MaxPeers

\* A request holds a list of peers there have been.
ListsOld == \A c \in Clients : client[c].list \subseteq (1 .. born) \X Configs

PeerShape == PeersTypeOK /\ Reserved /\ ListsOld

\* A request at rest has its type.
LEMMA RestingType == Resting \in ClientTypes /\ Resting.at = "idle"
<1>1. FirstAddr \in Addrs
  BY PeersAssumption DEF Addrs
<1> QED
  BY <1>1 DEF Resting, ClientTypes

\* ListByInterface's answer has its type.
LEMMA ListedType ==
    ASSUME PeersTypeOK
    PROVE  Listed \subseteq (1 .. born) \X Configs /\ Listed \subseteq PeerIds \X Configs
<1>1. \A p \in Rows : p \in 1 .. born /\ p \in PeerIds /\ conf[p] \in Configs
  BY PeersAssumption DEF PeersTypeOK, PeerIds
<1> QED
  BY <1>1 DEF Listed

\* What a change of one request does to the number that have chosen.
LEMMA OneInserts ==
    ASSUME PeersTypeOK, NEW c \in Clients, NEW r \in ClientTypes,
           client' = [client EXCEPT ![c] = r]
    PROVE  /\ IsFiniteSet(Inserting)
           /\ Cardinality(Inserting) \in Nat /\ Cardinality(Inserting)' \in Nat
           /\ r.at # "insert" => Cardinality(Inserting)' <= Cardinality(Inserting)
           /\ r.at # "insert" /\ client[c].at = "insert" =>
                Cardinality(Inserting)' = Cardinality(Inserting) - 1
           /\ r.at = "insert" => Cardinality(Inserting)' <= Cardinality(Inserting) + 1
<1>1. IsFiniteSet(Inserting) /\ IsFiniteSet(Inserting')
  <2>1. Inserting \in SUBSET Clients /\ Inserting' \in SUBSET Clients
    BY DEF Inserting
  <2> QED BY <2>1, PeersAssumption, FS_Subset
<1>2. /\ Cardinality(Inserting) \in Nat
      /\ Cardinality(Inserting \ {c}) = IF c \in Inserting THEN Cardinality(Inserting) - 1
                                        ELSE Cardinality(Inserting)
      /\ Cardinality(Inserting \cup {c}) = IF c \in Inserting THEN Cardinality(Inserting)
                                        ELSE Cardinality(Inserting) + 1
  BY <1>1, FS_CardinalityType, FS_AddElement, FS_RemoveElement
<1>3. Inserting' = IF r.at = "insert" THEN Inserting \cup {c} ELSE Inserting \ {c}
  BY DEF Inserting, PeersTypeOK
<1>4. client[c].at = "insert" <=> c \in Inserting
  BY DEF Inserting
<1>5. Cardinality(Inserting)' = Cardinality(Inserting')
  OBVIOUS
<1>6. Cardinality(Inserting') \in Nat
  BY <1>1, FS_CardinalityType
<1> QED
  BY <1>1, <1>2, <1>3, <1>4, <1>5, <1>6

\* A request that does not choose an address reserves no id.
LEMMA ReservedKept ==
    ASSUME PeersTypeOK, Reserved, NEW c \in Clients, NEW r \in ClientTypes, r.at # "insert",
           client' = [client EXCEPT ![c] = r], born' = born
    PROVE  Reserved'
<1>1. /\ Cardinality(Inserting) \in Nat /\ Cardinality(Inserting)' \in Nat
      /\ Cardinality(Inserting)' <= Cardinality(Inserting)
  BY OneInserts
<1>2. born \in Nat
  BY PeersAssumption DEF PeersTypeOK
<1> QED
  BY <1>1, <1>2, PeersAssumption DEF Reserved

\* Initially there are no peers and no requests.
LEMMA InitPeerShape == PeersInit => PeerShape
<1> SUFFICES ASSUME PeersInit PROVE PeerShape
  OBVIOUS
<1> USE DEF Rows
<1>1. \A c \in Clients : client[c] = Resting
  BY DEF PeersInit
<1>2. Inserting = {}
  BY <1>1, RestingType DEF Inserting
<1>3. client \in [Clients -> ClientTypes]
  BY RestingType DEF PeersInit
<1>4. Rows = {}
  BY DEF PeersInit
<1>5. Reserved
  BY <1>2, FS_EmptySet, PeersAssumption DEF Reserved, PeersInit
<1>6. ListsOld
  BY <1>1 DEF ListsOld, Resting
<1>7. addr \in [Rows -> Addrs] /\ conf \in [Rows -> Configs]
  <2>1. addr = <<>> /\ conf = <<>>
    BY DEF PeersInit
  <2>2. \A S : <<>> \in [{} -> S]
    OBVIOUS
  <2> QED
    BY <1>4, <2>1, <2>2, Zenon
<1>8. /\ born = 0 /\ tunnel = "stopped" /\ startList = {} /\ device = {}
      /\ crossed = FALSE /\ missed = FALSE /\ shared = FALSE
  BY DEF PeersInit
<1>9. born \in 0 .. MaxPeers /\ Rows \subseteq 1 .. born
  BY <1>4, <1>8, PeersAssumption
<1>10. /\ device \subseteq (1 .. born) \X Configs /\ startList \subseteq (1 .. born) \X Configs
       /\ tunnel \in TunnelStates /\ crossed \in BOOLEAN /\ missed \in BOOLEAN /\ shared \in BOOLEAN
  BY <1>8 DEF TunnelStates
<1> QED
  BY <1>3, <1>5, <1>6, <1>7, <1>9, <1>10, Zenon DEF PeerShape, PeersTypeOK, ClientTypes

\* Every step keeps the types, the bound on ids and the lists requests hold.
LEMMA NextPeerShape == PeerShape /\ [PeersNext]_peerVars => PeerShape'
<1> SUFFICES ASSUME PeerShape, [PeersNext]_peerVars PROVE PeerShape'
  OBVIOUS
<1> USE DEF Rows
<1>0. PeersTypeOK /\ Reserved /\ ListsOld
  BY DEF PeerShape
<1>a. client \in [Clients -> ClientTypes]
  BY <1>0 DEF PeersTypeOK, ClientTypes
<1>b. Resting \in ClientTypes /\ Resting.at = "idle" /\ Resting.list = {}
  BY RestingType DEF Resting
<1>c. Listed \subseteq (1 .. born) \X Configs /\ Listed \subseteq PeerIds \X Configs
  BY <1>0, ListedType
<1>1. ASSUME NEW c \in Clients, NEW a \in Addrs, CreateBegin(c, a) PROVE PeerShape'
  <2> DEFINE r == [Resting EXCEPT !.at = "insert", !.addr = a]
  <2>1. r \in ClientTypes /\ r.at = "insert"
    BY <1>b DEF ClientTypes
  <2>2. client' = [client EXCEPT ![c] = r] /\ born + Cardinality(Inserting) < MaxPeers
        /\ UNCHANGED <<born, addr, conf, tunnel, startList, device, crossed, missed>>
    BY <1>1 DEF CreateBegin, Inserting
  <2> HIDE DEF r
  <2>3. Cardinality(Inserting)' <= Cardinality(Inserting) + 1 /\ Cardinality(Inserting) \in Nat
        /\ Cardinality(Inserting)' \in Nat
    BY <2>1, <2>2, <1>0, OneInserts
  <2>4. client' \in [Clients -> ClientTypes]
    BY <1>a, <2>1, <2>2
  <2>5. shared' \in BOOLEAN
    BY <1>1 DEF CreateBegin
  <2>6. PeersTypeOK'
    BY <1>0, <2>2, <2>4, <2>5 DEF PeersTypeOK, ClientTypes
  <2>7. Reserved'
    BY <2>2, <2>3, <1>0, PeersAssumption DEF Reserved, PeersTypeOK
  <2>8. ListsOld'
    BY <1>0, <1>a, <1>b, <2>1, <2>2 DEF ListsOld, r
  <2> QED
    BY <2>6, <2>7, <2>8 DEF PeerShape
<1>2. ASSUME NEW c \in Clients, NEW w \in {"all", "badKey"}, CreateInsert(c, w) PROVE PeerShape'
  <2> DEFINE r == [Resting EXCEPT !.at = "posted"]
  <2>1. r \in ClientTypes /\ r.at # "insert"
    BY <1>b DEF ClientTypes
  <2>2. client' = [client EXCEPT ![c] = r] /\ client[c].at = "insert"
        /\ born' = born + 1 /\ UNCHANGED <<tunnel, startList, device, missed, shared>>
    BY <1>2 DEF CreateInsert
  <2>a. crossed' \in BOOLEAN
    BY <1>2 DEF CreateInsert, Written
  <2> HIDE DEF r
  <2>3. Cardinality(Inserting)' = Cardinality(Inserting) - 1 /\ Cardinality(Inserting) \in Nat
        /\ Cardinality(Inserting)' \in Nat
    BY <2>1, <2>2, <1>0, OneInserts
  <2>4. client' \in [Clients -> ClientTypes]
    BY <1>a, <2>1, <2>2
  <2>5. born \in Nat /\ born' \in 0 .. MaxPeers /\ Reserved'
    BY <2>2, <2>3, <1>0, PeersAssumption DEF Reserved, PeersTypeOK
  <2>6. Rows' = Rows \cup {born + 1} /\ Rows' \subseteq 1 .. born'
    BY <1>0, <1>2, <2>2, <2>5 DEF CreateInsert, PeersTypeOK
  <2>7. addr' \in [Rows' -> Addrs] /\ conf' \in [Rows' -> Configs]
    <3>1. client[c].addr \in Addrs
      BY <1>a DEF ClientTypes
    <3>2. \A p \in Rows : addr[p] \in Addrs /\ conf[p] \in Configs
      BY <1>0 DEF PeersTypeOK
    <3> QED BY <1>2, <2>6, <3>1, <3>2 DEF CreateInsert, Configs, Routed
  <2>8. (1 .. born) \X Configs \subseteq (1 .. born') \X Configs
    <3>1. (1 .. born) \subseteq 1 .. born'
      BY <2>2, <2>5
    <3> QED BY <3>1
  <2>9. device' \subseteq (1 .. born') \X Configs /\ startList' \subseteq (1 .. born') \X Configs
    BY <2>8, <2>2, <1>0 DEF PeersTypeOK
  <2>10. ListsOld'
    <3>1. r.list \subseteq (1 .. born) \X Configs
      BY <1>b DEF r, ClientTypes
    <3>2. \A d \in Clients : client'[d].list \subseteq (1 .. born) \X Configs
      BY <1>0, <1>a, <2>2, <3>1 DEF ListsOld
    <3> QED BY <2>8, <3>2 DEF ListsOld
  <2> QED
    BY <1>0, <2>a, <2>2, <2>4, <2>5, <2>6, <2>7, <2>9, <2>10 DEF PeerShape, PeersTypeOK, ClientTypes
<1>3. ASSUME NEW c \in Clients, NEW list \in {Listed, {}}, ReloadList(c, list) PROVE PeerShape'
  <2> DEFINE r == IF marked THEN [Resting EXCEPT !.at = "reload", !.list = list] ELSE Resting
  <2>1. r \in ClientTypes /\ r.at # "insert" /\ r.list \subseteq (1 .. born) \X Configs
    BY <1>b, <1>c DEF ClientTypes
  <2>2. client' = [client EXCEPT ![c] = r]
        /\ UNCHANGED <<born, addr, conf, tunnel, startList, device, crossed, missed, shared>>
    BY <1>3 DEF ReloadList, Rest
  <2> HIDE DEF r
  <2>3. PeersTypeOK'
    BY <1>0, <1>a, <2>1, <2>2 DEF PeersTypeOK, ClientTypes
  <2>4. Reserved'
    BY <1>0, <2>1, <2>2, ReservedKept
  <2>5. ListsOld'
    BY <1>0, <1>a, <2>1, <2>2 DEF ListsOld
  <2> QED
    BY <2>3, <2>4, <2>5 DEF PeerShape
<1>4. ASSUME NEW c \in Clients, GiveUp(c) \/ Reload(c) PROVE PeerShape'
  <2>1. client' = [client EXCEPT ![c] = Resting]
        /\ UNCHANGED <<born, addr, conf, tunnel, startList, shared>>
    BY <1>4 DEF GiveUp, Reload, Rest
  <2>2. device' \subseteq (1 .. born) \X Configs /\ crossed' \in BOOLEAN /\ missed' \in BOOLEAN
    <3>1. client[c].list \subseteq (1 .. born) \X Configs
      BY <1>0 DEF ListsOld
    <3>2. device \subseteq (1 .. born) \X Configs /\ crossed \in BOOLEAN /\ missed \in BOOLEAN
      BY <1>0 DEF PeersTypeOK
    <3>3. CASE GiveUp(c)
      BY <3>2, <3>3 DEF GiveUp
    <3>4. CASE Reload(c)
      BY <3>1, <3>2, <3>4 DEF Reload, Applied
    <3> QED BY <1>4, <3>3, <3>4
  <2>3. PeersTypeOK'
    BY <1>0, <1>a, <1>b, <2>1, <2>2 DEF PeersTypeOK, ClientTypes
  <2>4. Reserved'
    BY <1>0, <1>b, <2>1, ReservedKept
  <2>5. ListsOld'
    BY <1>0, <1>a, <1>b, <2>1 DEF ListsOld
  <2> QED
    BY <2>3, <2>4, <2>5 DEF PeerShape
<1>5. ASSUME NEW c \in Clients, NEW p \in PeerIds, DeletePeer(c, p) PROVE PeerShape'
  <2> DEFINE r == [client[c] EXCEPT !.at = "deleted"]
  <2>1. r \in ClientTypes /\ r.at # "insert" /\ r.list = client[c].list
    <3>1. client[c] \in ClientTypes /\ client[c].at = "idle"
      BY <1>5, <1>a DEF DeletePeer
    <3> QED BY <3>1 DEF ClientTypes
  <2>2. client' = [client EXCEPT ![c] = r]
        /\ UNCHANGED <<born, tunnel, startList, device, missed, shared>>
    BY <1>5, <1>a DEF DeletePeer, ClientTypes
  <2>a. crossed' \in BOOLEAN
    BY <1>5 DEF DeletePeer, Written
  <2> HIDE DEF r
  <2>3. /\ Rows' = Rows \ {p} /\ addr' = [q \in Rows \ {p} |-> addr[q]]
        /\ conf' = [q \in Rows \ {p} |-> conf[q]]
    BY <1>5 DEF DeletePeer
  <2>4. addr' \in [Rows' -> Addrs] /\ conf' \in [Rows' -> Configs]
    BY <1>0, <2>3 DEF PeersTypeOK
  <2>5. PeersTypeOK'
    BY <1>0, <1>a, <2>a, <2>1, <2>2, <2>3, <2>4 DEF PeersTypeOK, ClientTypes
  <2>6. Reserved'
    BY <1>0, <2>1, <2>2, ReservedKept
  <2>7. ListsOld'
    BY <1>0, <1>a, <2>1, <2>2 DEF ListsOld
  <2> QED
    BY <2>5, <2>6, <2>7 DEF PeerShape
<1>6. ASSUME NEW p \in PeerIds, NEW w \in PutConfigs, PutPeer(p, w) PROVE PeerShape'
  <2>1. UNCHANGED <<born, addr, tunnel, startList, device, client, missed, shared>>
    BY <1>6 DEF PutPeer
  <2>2. conf' \in [Rows -> Configs] /\ crossed' \in BOOLEAN
    BY <1>0, <1>6, PeersAssumption DEF PutPeer, PeersTypeOK
  <2> QED
    BY <1>0, <2>1, <2>2 DEF PeerShape, PeersTypeOK, Reserved, ListsOld, Inserting
<1>7. CASE \/ StartReads \/ StartCreates \/ StartMarks \/ StartFails
           \/ StopDestroys \/ StopClears
  <2>1. UNCHANGED <<born, addr, conf, client, shared>>
    BY <1>7 DEF StartReads, StartCreates, StartMarks, StartFails, StopDestroys, StopClears
  <2>2. /\ tunnel' \in TunnelStates /\ crossed' \in BOOLEAN /\ missed' \in BOOLEAN
        /\ device' \subseteq (1 .. born) \X Configs /\ startList' \subseteq (1 .. born) \X Configs
    BY <1>0, <1>7, <1>c DEF StartReads, StartCreates, StartMarks, StartFails, StopDestroys,
                          StopClears, PeersTypeOK, TunnelStates
  <2> QED
    BY <1>0, <2>1, <2>2 DEF PeerShape, PeersTypeOK, Reserved, ListsOld, Inserting
<1>8. CASE ServerRestarts
  <2>1. UNCHANGED <<born, addr, conf, shared>> /\ tunnel' \in TunnelStates
        /\ crossed' = FALSE /\ missed' = FALSE
        /\ startList' = {} /\ device' = {} /\ client' = [c \in Clients |-> Resting]
    BY <1>8 DEF ServerRestarts, TunnelStates
  <2>2. Inserting' = {} /\ Cardinality(Inserting)' = Cardinality(Inserting')
    BY <2>1, <1>b DEF Inserting
  <2>3. PeersTypeOK'
    BY <1>0, <1>b, <2>1 DEF PeersTypeOK, ClientTypes
  <2>4. Reserved'
    BY <1>0, <2>1, <2>2, FS_EmptySet, PeersAssumption DEF Reserved, PeersTypeOK
  <2>5. ListsOld'
    BY <1>b, <2>1 DEF ListsOld
  <2> QED
    BY <2>3, <2>4, <2>5 DEF PeerShape
<1>9. CASE UNCHANGED peerVars
  BY <1>0, <1>9 DEF peerVars, PeerShape, PeersTypeOK, Reserved, ListsOld, Inserting
<1> QED
  BY <1>1, <1>2, <1>3, <1>4, <1>5, <1>6, <1>7, <1>8, <1>9, Zenon DEF PeersNext, TunnelNext

\* The tables, the device and the requests have their types.
THEOREM PeerTypesAlways == PeersSpec => []PeersTypeOK
<1>1. PeerShape => PeersTypeOK
  BY DEF PeerShape
<1> QED
  BY <1>1, InitPeerShape, NextPeerShape, PTL DEF PeersSpec

-----------------------------------------------------------------------------
(* Addresses.                                                               *)

\* Without a collision at most one request has chosen an address and not yet
\* stored it, and the rows that came and went since have left it free.
FreeAddress ==
    ~shared =>
        /\ \A p, q \in Rows : addr[p] = addr[q] => p = q
        /\ \A c, d \in Inserting : c = d
        /\ \A c \in Inserting : \A p \in Rows : addr[p] # client[c].addr

\* NextClientIP is not in use.
LEMMA NextClientIPFree ==
    ASSUME Addrs \ Used # {}
    PROVE  NextClientIP \notin Used
<1>1. Addrs \ Used \in SUBSET Nat
  BY PeersAssumption DEF Addrs
<1> QED
  BY <1>1, MinIs DEF NextClientIP

\* Initially no address is in use.
LEMMA InitFreeAddress == PeersInit => FreeAddress
<1> SUFFICES ASSUME PeersInit PROVE FreeAddress
  OBVIOUS
<1>1. Rows = {}
  BY DEF PeersInit, Rows
<1>2. \A c \in Clients : client[c] = Resting
  BY DEF PeersInit
<1>3. Inserting = {}
  BY <1>2, RestingType DEF Inserting
<1> QED
  BY <1>1, <1>3 DEF FreeAddress

\* Every step leaves chosen addresses free until they are stored.
LEMMA NextFreeAddress == PeerShape /\ FreeAddress /\ [PeersNext]_peerVars => FreeAddress'
<1> SUFFICES ASSUME PeerShape, FreeAddress, [PeersNext]_peerVars, ~shared' PROVE
        /\ \A p, q \in Rows' : addr'[p] = addr'[q] => p = q
        /\ \A c, d \in Inserting' : c = d
        /\ \A c \in Inserting' : \A p \in Rows' : addr'[p] # client'[c].addr
  BY DEF FreeAddress
<1>0. PeersTypeOK /\ client \in [Clients -> ClientTypes] /\ Resting.at = "idle"
  BY RestingType DEF PeerShape, PeersTypeOK, ClientTypes
<1> USE DEF Rows, Inserting
<1>1. ASSUME NEW c \in Clients, NEW a \in Addrs, CreateBegin(c, a)
      PROVE  /\ \A p, q \in Rows' : addr'[p] = addr'[q] => p = q
             /\ \A d, e \in Inserting' : d = e
             /\ \A d \in Inserting' : \A p \in Rows' : addr'[p] # client'[d].addr
  <2>1. /\ ~shared /\ Addrs \ Used # {} /\ a = NextClientIP
        /\ ~ \E d \in Clients : client[d].at = "insert"
    BY <1>1, Zenon DEF CreateBegin
  <2>2. a \notin Used
    BY <2>1, NextClientIPFree
  <2>3. \A p \in Rows : addr[p] # a
    BY <2>2 DEF Used
  <2>4. /\ client' = [client EXCEPT ![c] = [Resting EXCEPT !.at = "insert", !.addr = a]]
        /\ addr' = addr
    BY <1>1 DEF CreateBegin
  <2>5. client'[c].addr = a /\ Inserting' = {c}
    BY <1>0, <2>1, <2>4, RestingType DEF ClientTypes
  <2> QED
    BY <2>1, <2>3, <2>4, <2>5 DEF FreeAddress
<1>2. ASSUME NEW c \in Clients, NEW w \in {"all", "badKey"}, CreateInsert(c, w)
      PROVE  /\ \A p, q \in Rows' : addr'[p] = addr'[q] => p = q
             /\ \A d, e \in Inserting' : d = e
             /\ \A d \in Inserting' : \A p \in Rows' : addr'[p] # client'[d].addr
  <2>1. ~shared /\ c \in Inserting
    BY <1>2 DEF CreateInsert
  <2>2. Inserting = {c} /\ \A p \in Rows : addr[p] # client[c].addr
    BY <2>1 DEF FreeAddress
  <2>3. Inserting' = {}
    <3>1. client'[c].at # "insert" /\ \A d \in Clients \ {c} : client'[d] = client[d]
      BY <1>0, <1>2 DEF CreateInsert, Resting, ClientTypes
    <3> QED BY <2>2, <3>1
  <2>4. /\ Rows' = Rows \cup {born + 1}
        /\ \A p \in Rows : addr'[p] = addr[p]
        /\ born + 1 \notin Rows => addr'[born + 1] = client[c].addr
    BY <1>2 DEF CreateInsert
  <2> QED
    BY <2>1, <2>2, <2>3, <2>4 DEF FreeAddress
<1>3. ASSUME NEW c \in Clients,
             (\E list \in {Listed, {}} : ReloadList(c, list)) \/ GiveUp(c) \/ Reload(c)
      PROVE  /\ \A p, q \in Rows' : addr'[p] = addr'[q] => p = q
             /\ \A d, e \in Inserting' : d = e
             /\ \A d \in Inserting' : \A p \in Rows' : addr'[p] # client'[d].addr
  <2>1. ~shared /\ addr' = addr
    <3>1. CASE \E list \in {Listed, {}} : ReloadList(c, list)
      BY <3>1 DEF ReloadList
    <3>2. CASE GiveUp(c)
      BY <3>2 DEF GiveUp
    <3>3. CASE Reload(c)
      <4>1. UNCHANGED <<addr, shared>>
        BY <3>3 DEF Reload
      <4> QED BY <4>1
    <3> QED BY <1>3, <3>1, <3>2, <3>3
  <2>2. client'[c].at # "insert" /\ \A d \in Clients \ {c} : client'[d] = client[d]
    BY <1>0, <1>3 DEF ReloadList, GiveUp, Reload, Rest, Resting
  <2>3. Inserting' \subseteq Inserting /\ \A d \in Inserting' : client'[d] = client[d]
    BY <2>2
  <2> QED
    BY <2>1, <2>3 DEF FreeAddress
<1>4. ASSUME NEW c \in Clients, NEW p \in PeerIds, DeletePeer(c, p)
      PROVE  /\ \A r, q \in Rows' : addr'[r] = addr'[q] => r = q
             /\ \A d, e \in Inserting' : d = e
             /\ \A d \in Inserting' : \A q \in Rows' : addr'[q] # client'[d].addr
  <2>1. ~shared /\ Rows' = Rows \ {p} /\ \A q \in Rows' : addr'[q] = addr[q]
    BY <1>4 DEF DeletePeer
  <2>2. client'[c].at # "insert" /\ \A d \in Clients \ {c} : client'[d] = client[d]
    BY <1>0, <1>4 DEF DeletePeer, ClientTypes
  <2>3. Inserting' \subseteq Inserting /\ \A d \in Inserting' : client'[d] = client[d]
    BY <2>2
  <2> QED
    BY <2>1, <2>3 DEF FreeAddress
<1>5. CASE \/ \E p \in PeerIds, w \in PutConfigs : PutPeer(p, w)
           \/ StartReads \/ StartCreates \/ StartMarks \/ StartFails
           \/ StopDestroys \/ StopClears \/ UNCHANGED peerVars
  <2>1. UNCHANGED <<addr, client, shared>>
    BY <1>5 DEF PutPeer, StartReads, StartCreates, StartMarks, StartFails, StopDestroys,
                StopClears, peerVars
  <2> QED
    BY <2>1 DEF FreeAddress
<1>6. CASE ServerRestarts
  <2>1. UNCHANGED <<addr, shared>> /\ client' = [c \in Clients |-> Resting]
    BY <1>6 DEF ServerRestarts
  <2>2. Inserting' = {}
    BY <1>0, <2>1
  <2> QED
    BY <2>1, <2>2 DEF FreeAddress
<1> QED
  BY <1>1, <1>2, <1>3, <1>4, <1>5, <1>6, Zenon DEF PeersNext, TunnelNext

\* Addresses that the server hands out are distinct, for every number of peers,
\* requests and addresses: NextClientIP's answer is still free when the row is
\* stored, unless two requests overlapped or a caller chose an address.
THEOREM DistinctAddressesAlways == PeersSpec => []DistinctAddresses
<1>1. FreeAddress => DistinctAddresses
  BY DEF FreeAddress, DistinctAddresses
<1> QED
  BY <1>1, InitPeerShape, NextPeerShape, InitFreeAddress, NextFreeAddress, PTL DEF PeersSpec

-----------------------------------------------------------------------------
(* The device.                                                              *)

\* While the device of a running tunnel differs from the table some request has
\* yet to reload it; the device that Start builds does not differ.
SomeoneReloads ==
    ~crossed /\ ~missed =>
        /\ tunnel = "starting" => startList = Listed
        /\ tunnel = "made" => device = Listed
        /\ up => device = Listed \/ \E c \in Clients : client[c].at \in {"posted", "deleted", "reload"}

\* Every step that makes the device differ from the table leaves someone to
\* reload it, or is marked.
LEMMA NextSomeoneReloads ==
    PeerShape /\ SomeoneReloads /\ [PeersNext]_peerVars => SomeoneReloads'
<1> DEFINE Reloading == \E c \in Clients : client[c].at \in {"posted", "deleted", "reload"}
           Good == /\ tunnel' = "starting" => startList' = Listed'
                   /\ tunnel' = "made" => device' = Listed'
                   /\ tunnel' = "running" => device' = Listed' \/ Reloading'
<1> SUFFICES ASSUME PeerShape, SomeoneReloads, [PeersNext]_peerVars, ~crossed', ~missed'
             PROVE  Good
  BY DEF SomeoneReloads, up
<1>0. client \in [Clients -> ClientTypes] /\ Resting.at = "idle" /\ tunnel \in TunnelStates
  BY RestingType DEF PeerShape, PeersTypeOK, ClientTypes
<1>a. ASSUME UNCHANGED <<addr, conf>> PROVE Listed' = Listed
  BY <1>a DEF Listed, Rows
<1>1. ASSUME NEW c \in Clients, NEW a \in Addrs, CreateBegin(c, a) PROVE Good
  <2>1. client[c].at = "idle" /\ UNCHANGED <<addr, conf, tunnel, startList, device, crossed, missed>>
        /\ \A d \in Clients \ {c} : client'[d] = client[d]
    BY <1>0, <1>1 DEF CreateBegin
  <2>2. Listed' = Listed
    BY <2>1, <1>a
  <2>3. Reloading => Reloading'
    BY <2>1
  <2> QED
    BY <2>1, <2>2, <2>3 DEF SomeoneReloads, up
<1>2. ASSUME NEW c \in Clients,
             \/ \E w \in {"all", "badKey"} : CreateInsert(c, w)
             \/ \E p \in PeerIds : DeletePeer(c, p)
      PROVE  Good
  <2>1. ~building /\ tunnel' = tunnel
    BY <1>2 DEF CreateInsert, DeletePeer, Written
  <2>2. client'[c].at \in {"posted", "deleted", "reload"}
    <3>1. CASE \E w \in {"all", "badKey"} : CreateInsert(c, w)
      <4>1. client' = [client EXCEPT ![c] = [Resting EXCEPT !.at = "posted"]]
        BY <3>1 DEF CreateInsert
      <4> QED BY <1>0, <4>1 DEF Resting
    <3>2. CASE \E p \in PeerIds : DeletePeer(c, p)
      <4>1. client' = [client EXCEPT ![c].at = "deleted"]
        BY <3>2 DEF DeletePeer
      <4> QED BY <1>0, <4>1 DEF ClientTypes
    <3> QED BY <1>2, <3>1, <3>2
  <2> QED
    BY <2>1, <2>2 DEF building
<1>3. ASSUME NEW c \in Clients, NEW list \in {Listed, {}}, ReloadList(c, list) PROVE Good
  <2>1. UNCHANGED <<addr, conf, tunnel, startList, device, crossed, missed>>
    BY <1>3 DEF ReloadList
  <2>2. up => client'[c].at = "reload"
    BY <1>0, <1>3 DEF ReloadList, up, marked, Resting
  <2>3. Listed' = Listed
    BY <2>1, <1>a
  <2> QED
    BY <2>1, <2>2, <2>3 DEF SomeoneReloads, up
<1>4. ASSUME NEW c \in Clients, GiveUp(c) PROVE Good
  <2>1. UNCHANGED <<addr, conf, tunnel, startList, device, crossed>> /\ ~missed
    BY <1>4 DEF GiveUp
  <2>2. Listed' = Listed
    BY <2>1, <1>a
  <2>3. up => client[c].at = "insert" /\ \A d \in Clients \ {c} : client'[d] = client[d]
    BY <1>0, <1>4 DEF GiveUp, Rest
  <2>4. up /\ Reloading => Reloading'
    BY <2>3
  <2> QED
    BY <2>1, <2>2, <2>4 DEF SomeoneReloads, up
<1>5. ASSUME NEW c \in Clients, Reload(c) PROVE Good
  <2>1. UNCHANGED <<addr, conf, tunnel, startList>>
    BY <1>5 DEF Reload
  <2>2. Listed' = Listed
    BY <2>1, <1>a
  <2>3. CASE ~hasDevice
    <3>1. UNCHANGED <<crossed, missed>>
      BY <1>5, <2>3 DEF Reload
    <3> QED
      BY <2>1, <2>2, <2>3, <3>1 DEF hasDevice, SomeoneReloads
  <2>4. CASE hasDevice
    <3>1. /\ device' = Applied(client[c].list) /\ client[c].list = Listed
          /\ ~ \E e \in client[c].list : e[2] = "badIPs"
      BY <1>5, <2>4 DEF Reload
    <3>2. Applied(client[c].list) = client[c].list
      BY <3>1 DEF Applied
    <3> QED
      BY <2>1, <2>2, <2>4, <3>1, <3>2 DEF hasDevice
  <2> QED
    BY <2>3, <2>4
<1>6. ASSUME NEW p \in PeerIds, NEW w \in PutConfigs, PutPeer(p, w) PROVE Good
  BY <1>6 DEF PutPeer, building, up
<1>7. CASE StartReads \/ StartCreates \/ StartMarks
  <2>1. UNCHANGED <<addr, conf, client, crossed, missed>>
    BY <1>7 DEF StartReads, StartCreates, StartMarks
  <2>2. Listed' = Listed
    BY <2>1, <1>a
  <2> QED
    BY <1>7, <2>1, <2>2 DEF StartReads, StartCreates, StartMarks, SomeoneReloads
<1>8. CASE StartFails \/ StopDestroys \/ StopClears \/ ServerRestarts
  BY <1>8 DEF StartFails, StopDestroys, StopClears, ServerRestarts
<1>9. CASE UNCHANGED peerVars
  <2>1. UNCHANGED <<addr, conf, client, crossed, missed, tunnel, device, startList>>
    BY <1>9 DEF peerVars
  <2>2. Listed' = Listed
    BY <2>1, <1>a
  <2> QED
    BY <2>1, <2>2 DEF SomeoneReloads, up
<1> HIDE DEF Good
<1> QED
  BY <1>1, <1>2, <1>3, <1>4, <1>5, <1>6, <1>7, <1>8, <1>9, Zenon DEF PeersNext, TunnelNext

\* Served requests leave a running device with the peers of the table, for every
\* number of peers and requests, unless the last list it was given was out of
\* date (crossed), or a reload was left out or refused (missed).
THEOREM DeviceFollowsTableAlways == PeersSpec => []DeviceFollowsTable
<1>1. PeersInit => SomeoneReloads
  BY DEF PeersInit, SomeoneReloads, up
<1>2. SomeoneReloads => DeviceFollowsTable
  <2> SUFFICES ASSUME SomeoneReloads, up, ~crossed, ~missed,
                      \A c \in Clients : client[c].at = "idle"
               PROVE  device = Listed
    BY DEF DeviceFollowsTable
  <2> QED
    BY DEF SomeoneReloads
<1> QED
  BY <1>1, <1>2, InitPeerShape, NextPeerShape, NextSomeoneReloads, PTL DEF PeersSpec

-----------------------------------------------------------------------------
(* Counters: nothing is counted twice.                                     *)

Step(b, a) == IF b >= a THEN b - a ELSE b

CounterTypes ==
    /\ rx \in Nat /\ seen \in Nat /\ total \in Nat /\ top \in Nat
    /\ raw \in Nat \cup {Gone} /\ poll \in Nat \cup {Gone}
    /\ tick \in {"idle", "update", "total"}
    /\ tick = "update" <=> poll # Gone

\* What the pending update and the one after it would add is covered, also for
\* the most the row has been: a PUT may bring it back.
Covered ==
    /\ rx <= top /\ top <= total
    /\ poll # Gone => top + Step(poll, seen) <= total
    /\ raw # Gone /\ poll = Gone => top + Step(raw, seen) <= total
    /\ raw # Gone /\ poll # Gone => top + Step(poll, seen) + Step(raw, poll) <= total

CountInv == CounterTypes /\ Covered

\* Two steps add at least what one would.
LEMMA StepTriangle ==
    ASSUME NEW a \in Nat, NEW b \in Nat, NEW c \in Nat
    PROVE  Step(c, a) <= Step(b, a) + Step(c, b)
  BY DEF Step

\* One more byte adds at most one, and a restarted counter nothing.
LEMMA StepByte ==
    ASSUME NEW a \in Nat, NEW b \in Nat
    PROVE  /\ Step(b, a) \in Nat
           /\ Step(b + 1, a) <= Step(b, a) + 1
           /\ Step(0, a) = 0 /\ Step(a, a) = 0
  BY DEF Step

\* Initially nothing has been transferred.
LEMMA InitCountInv == TrafficInit => CountInv
  BY DEF TrafficInit, CountInv, CounterTypes, Covered, Gone

\* Every step keeps what is to come covered.
LEMMA NextCountInv == CountInv /\ [TrafficNext]_trafficVars => CountInv'
<1> SUFFICES ASSUME CountInv, [TrafficNext]_trafficVars PROVE CountInv'
  OBVIOUS
<1> USE DEF CountInv, CounterTypes, Covered, Gone
<1>1. CASE Transfer
  <2>1. /\ raw \in Nat /\ raw' = raw + 1 /\ total' = total + 1
        /\ UNCHANGED <<rx, top, seen, poll, tick>>
    BY <1>1 DEF Transfer
  <2>2. CASE poll = Gone
    BY <2>1, <2>2, StepByte
  <2>3. CASE poll # Gone
    <3>1. poll \in Nat /\ seen \in Nat
      BY <2>3
    <3>2. Step(poll, seen) \in Nat
      BY <3>1, StepByte
    <3>3. raw + 1 \in Nat
      BY <2>1
    <3>4. Step(raw, poll) \in Nat /\ Step(raw + 1, poll) <= Step(raw, poll) + 1
      BY <2>1, <3>1, StepByte
    <3>5. Step(raw + 1, poll) \in Nat
      BY <3>1, <3>3, StepByte
    <3> QED
      BY <2>1, <2>3, <3>1, <3>2, <3>4, <3>5
  <2> QED
    BY <2>2, <2>3
<1>2. CASE DeviceConfigured
  BY <1>2, StepByte DEF DeviceConfigured, Forget
<1>3. CASE DeviceCloses
  BY <1>3 DEF DeviceCloses, Forget
<1>4. CASE DeleteRow
  BY <1>4 DEF DeleteRow
<1>5. CASE CollectorRestarts
  BY <1>5 DEF CollectorRestarts, Forget
<1>6. ASSUME NEW n \in Bytes, PutCounters(n)
      PROVE  CountInv'
  <2>1. n \in Nat /\ n <= top /\ rx' = n /\ UNCHANGED <<top, seen, raw, poll, tick, total>>
    BY <1>6, TrafficAssumption DEF PutCounters, Bytes
  <2>2. /\ poll # Gone => Step(poll, seen) \in Nat
        /\ raw # Gone => Step(raw, seen) \in Nat
        /\ raw # Gone /\ poll # Gone => Step(raw, poll) \in Nat
    BY StepByte
  <2> QED
    BY <2>1, <2>2
<1>7. CASE PollStats
  <2>1. /\ tick = "idle" /\ poll = Gone /\ poll' = raw
        /\ UNCHANGED <<rx, top, seen, raw, total>>
    BY <1>7 DEF PollStats
  <2>2. tick' = IF raw = Gone THEN "total" ELSE "update"
    BY <1>7 DEF PollStats
  <2>3. raw # Gone => Step(raw, seen) \in Nat /\ Step(raw, raw) = 0
    BY StepByte
  <2> QED
    BY <2>1, <2>2, <2>3
<1>8. CASE UpdateTraffic
  <2>1. /\ poll \in Nat /\ rx' = rx + Step(poll, seen) /\ seen' = poll
        /\ poll' = Gone /\ tick' = "total" /\ top' = IF rx' > top THEN rx' ELSE top
        /\ UNCHANGED <<raw, total>>
    BY <1>8 DEF UpdateTraffic, Delta, Step
  <2>2. Step(poll, seen) \in Nat
    BY <2>1, StepByte
  <2>3. /\ top' \in Nat /\ rx' \in Nat /\ rx' <= top'
        /\ top' <= top + Step(poll, seen)
    BY <2>1, <2>2
  <2>4. raw # Gone => Step(raw, poll) \in Nat
    BY <2>1, StepByte
  <2>5. raw # Gone => top' + Step(raw, poll) <= total
    BY <2>1, <2>2, <2>3, <2>4
  <2>6. top' <= total
    BY <2>1, <2>2, <2>3
  <2> QED
    BY <2>1, <2>3, <2>5, <2>6
<1>9. CASE SkipTraffic
  <2>1. /\ poll \in Nat /\ poll' = Gone /\ tick' = "total"
        /\ UNCHANGED <<rx, top, seen, raw, total>>
    BY <1>9 DEF SkipTraffic
  <2>2. raw # Gone =>
          /\ Step(raw, seen) <= Step(poll, seen) + Step(raw, poll)
          /\ Step(raw, seen) \in Nat /\ Step(poll, seen) \in Nat /\ Step(raw, poll) \in Nat
    BY <2>1, StepTriangle, StepByte
  <2> QED
    BY <2>1, <2>2
<1>10. CASE SampleTunnel
  BY <1>10 DEF SampleTunnel
<1>11. CASE UNCHANGED trafficVars
  BY <1>11 DEF trafficVars
<1> QED
  BY <1>1, <1>2, <1>3, <1>4, <1>5, <1>6, <1>7, <1>8, <1>9, <1>10, <1>11 DEF TrafficNext

\* No byte is counted twice: a peer's rx_bytes never exceeds what the peer has
\* transferred, although UpdateTraffic only guesses restarts of the counter, and
\* PUTs bring back numbers the row has had.
THEOREM NoOvercountAlways == TrafficSpec => []NoOvercount
<1>1. CountInv => NoOvercount
  BY DEF CountInv, CounterTypes, Covered, NoOvercount
<1> QED
  BY <1>1, InitCountInv, NextCountInv, PTL DEF TrafficSpec

-----------------------------------------------------------------------------
(* Rates.  The same steps, measured from the poll of the latest sample.    *)

RateTypes ==
    /\ pollAt \in Nat /\ sampleAt \in Nat \cup {Gone}
    /\ prev \in Nat /\ rate \in Nat /\ flow \in Nat

\* What the next sample may add was transferred since the latest one.
Since ==
    /\ poll # Gone => pollAt <= total
    /\ raw # Gone /\ poll # Gone => Step(raw, poll) <= total - pollAt
    /\ sampleAt # Gone =>
        /\ rx <= prev /\ sampleAt <= total
        /\ poll # Gone => sampleAt <= pollAt /\ Step(poll, seen) <= pollAt - sampleAt
        /\ raw # Gone /\ poll = Gone => Step(raw, seen) <= total - sampleAt

RateInv == CounterTypes /\ RateTypes /\ Since /\ RateIsTraffic

\* Initially there is no sample.
LEMMA InitRateInv == TrafficInit => RateInv
  BY DEF TrafficInit, RateInv, CounterTypes, RateTypes, Since, RateIsTraffic, Gone

\* Every step keeps the next rate within what was transferred.
LEMMA NextRateInv == CountInv /\ RateInv /\ [TrafficNext]_trafficVars => RateInv'
<1> SUFFICES ASSUME CountInv, RateInv, [TrafficNext]_trafficVars PROVE RateInv'
  OBVIOUS
<1>0. CounterTypes'
  BY NextCountInv DEF CountInv
<1> USE DEF RateInv, CounterTypes, RateTypes, Since, RateIsTraffic, Gone
<1>1. CASE Transfer
  <2>1. /\ raw \in Nat /\ raw' = raw + 1 /\ total' = total + 1
        /\ UNCHANGED <<rx, seen, poll, tick, pollAt, sampleAt, prev, rate, flow>>
    BY <1>1 DEF Transfer
  <2>2. /\ Step(raw, seen) \in Nat /\ Step(raw + 1, seen) \in Nat
        /\ Step(raw + 1, seen) <= Step(raw, seen) + 1
    BY <2>1, StepByte
  <2>3. poll # Gone =>
          /\ Step(raw, poll) \in Nat /\ Step(raw + 1, poll) \in Nat
          /\ Step(raw + 1, poll) <= Step(raw, poll) + 1
    <3> SUFFICES ASSUME poll # Gone
                 PROVE  /\ Step(raw, poll) \in Nat /\ Step(raw + 1, poll) \in Nat
                        /\ Step(raw + 1, poll) <= Step(raw, poll) + 1
      OBVIOUS
    <3>1. poll \in Nat /\ raw \in Nat /\ raw + 1 \in Nat
      BY <2>1
    <3> QED
      BY <3>1, StepByte
  <2> QED
    BY <2>1, <2>2, <2>3, <1>0
<1>2. CASE DeviceConfigured
  <2>1. /\ raw' \in {0, Gone}
        /\ UNCHANGED <<rx, seen, poll, total, pollAt, sampleAt, prev, rate, flow>>
    BY <1>2 DEF DeviceConfigured
  <2>2. Step(0, seen) = 0 /\ (poll # Gone => Step(0, poll) = 0)
    BY StepByte
  <2> QED
    BY <2>1, <2>2, <1>0
<1>3. CASE DeviceCloses
  BY <1>3, <1>0 DEF DeviceCloses, Forget
<1>4. CASE DeleteRow
  BY <1>4, <1>0 DEF DeleteRow
<1>5. CASE CollectorRestarts
  BY <1>5, <1>0 DEF CollectorRestarts, Forget
<1>6. ASSUME NEW n \in Bytes, PutCounters(n)
      PROVE  RateInv'
  <2>1. /\ n \in Nat /\ rx' = n /\ sampleAt' = IF n > rx THEN Gone ELSE sampleAt
        /\ UNCHANGED <<seen, raw, poll, total, pollAt, prev, rate, flow>>
    BY <1>6, TrafficAssumption DEF PutCounters, Bytes
  <2> QED
    BY <2>1, <1>0
<1>7. CASE PollStats
  <2>1. /\ poll = Gone /\ poll' = raw /\ pollAt' = total
        /\ UNCHANGED <<rx, seen, raw, total, sampleAt, prev, rate, flow>>
    BY <1>7 DEF PollStats
  <2>2. raw # Gone => Step(raw, seen) \in Nat /\ Step(raw, raw) = 0
    BY StepByte
  <2> QED
    BY <2>1, <2>2, <1>0
<1>8. CASE UpdateTraffic
  <2>1. /\ poll \in Nat /\ rx' = rx + Step(poll, seen) /\ seen' = poll
        /\ poll' = Gone /\ prev' = rx' /\ rate' = Rate(rx') /\ sampleAt' = pollAt
        /\ UNCHANGED <<raw, total, pollAt>>
    BY <1>8 DEF UpdateTraffic, Delta, Step
  <2>2. flow' = IF sampleAt = Gone THEN rate' ELSE pollAt - sampleAt
    BY <1>8 DEF UpdateTraffic
  <2>3. Step(poll, seen) \in Nat
    BY <2>1, StepByte
  <2>4. rx' \in Nat /\ rate' \in Nat
    BY <2>1, <2>3 DEF Rate
  <2>5. CASE sampleAt = Gone
    BY <2>1, <2>2, <2>3, <2>4, <2>5, <1>0
  <2>6. CASE sampleAt # Gone
    <3>1. rate' <= Step(poll, seen)
      BY <2>1, <2>3, <2>6 DEF Rate
    <3> QED
      BY <2>1, <2>2, <2>3, <2>4, <2>6, <3>1, <1>0
  <2> QED
    BY <2>5, <2>6
<1>9. CASE SkipTraffic
  <2>1. /\ poll \in Nat /\ poll' = Gone
        /\ UNCHANGED <<rx, seen, raw, total, pollAt, sampleAt, prev, rate, flow>>
    BY <1>9 DEF SkipTraffic
  <2>2. raw # Gone =>
          /\ Step(raw, seen) <= Step(poll, seen) + Step(raw, poll)
          /\ Step(raw, seen) \in Nat /\ Step(poll, seen) \in Nat /\ Step(raw, poll) \in Nat
    BY <2>1, StepTriangle, StepByte
  <2> QED
    BY <2>1, <2>2, <1>0
<1>10. CASE SampleTunnel
  BY <1>10, <1>0 DEF SampleTunnel
<1>11. CASE UNCHANGED trafficVars
  BY <1>11, <1>0 DEF trafficVars
<1> QED
  BY <1>1, <1>2, <1>3, <1>4, <1>5, <1>6, <1>7, <1>8, <1>9, <1>10, <1>11 DEF TrafficNext

\* A peer's rate is traffic of the time between the two polls it is made of,
\* except a process's first rate and one after a PUT that raised the total:
\* StatsCollector.tick.
THEOREM RateIsTrafficAlways == TrafficSpec => []RateIsTraffic
<1>1. RateInv => RateIsTraffic
  BY DEF RateInv
<1> QED
  BY <1>1, InitCountInv, NextCountInv, InitRateInv, NextRateInv, PTL DEF TrafficSpec

-----------------------------------------------------------------------------
(* The types of the counters.  Within their bound they are because none     *)
(* exceeds what was transferred.                                            *)

\* Every reading, row, sum and sample is of bytes that were transferred.
OfTransferred ==
    /\ rx <= total /\ top <= total /\ seen <= total /\ raw <= total /\ poll <= total
    /\ sum \in 0 .. total /\ prev <= total /\ lastTot \in 0 .. total /\ rate <= total
    /\ pollAt <= total /\ sampleAt <= total /\ flow <= total /\ total <= MaxBytes

TrafficFlags == exists \in BOOLEAN /\ restarted \in BOOLEAN /\ inexact \in BOOLEAN

\* Every step keeps the flags.
LEMMA NextTrafficFlags == TrafficFlags /\ [TrafficNext]_trafficVars => TrafficFlags'
<1> SUFFICES ASSUME TrafficFlags, [TrafficNext]_trafficVars PROVE TrafficFlags'
  OBVIOUS
<1> USE DEF TrafficFlags, Forget
<1>1. CASE Transfer \/ DeviceConfigured \/ DeviceCloses \/ DeleteRow \/ CollectorRestarts
  BY <1>1, Zenon DEF Transfer, DeviceConfigured, DeviceCloses, DeleteRow, CollectorRestarts
<1>2. CASE \E n \in Bytes : PutCounters(n)
  BY <1>2, Zenon DEF PutCounters
<1>3. CASE PollStats \/ UpdateTraffic \/ SkipTraffic \/ SampleTunnel
  BY <1>3, Zenon DEF PollStats, UpdateTraffic, SkipTraffic, SampleTunnel
<1>4. CASE UNCHANGED trafficVars
  BY <1>4, Zenon DEF trafficVars
<1> QED
  BY <1>1, <1>2, <1>3, <1>4 DEF TrafficNext

\* Every step keeps readings and samples within what was transferred.
LEMMA NextOfTransferred ==
    CountInv /\ RateInv /\ OfTransferred /\ [TrafficNext]_trafficVars => OfTransferred'
<1> SUFFICES ASSUME CountInv, RateInv, OfTransferred, [TrafficNext]_trafficVars
             PROVE  OfTransferred'
  OBVIOUS
<1>0. CounterTypes' /\ rx' <= total' /\ top' <= total'
  BY NextCountInv DEF CountInv, Covered, CounterTypes
<1> USE TrafficAssumption DEF CountInv, RateInv, CounterTypes, RateTypes, OfTransferred, Gone
<1>1. CASE Transfer
  BY <1>1, <1>0 DEF Transfer
<1>2. CASE DeviceConfigured \/ DeviceCloses \/ DeleteRow
  BY <1>2, <1>0 DEF DeviceConfigured, DeviceCloses, DeleteRow
<1>3. CASE CollectorRestarts
  BY <1>3, <1>0 DEF CollectorRestarts
<1>4. ASSUME NEW n \in Bytes, PutCounters(n)
      PROVE  OfTransferred'
  BY <1>4, <1>0 DEF PutCounters
<1>5. CASE PollStats
  BY <1>5, <1>0 DEF PollStats
<1>6. CASE UpdateTraffic
  <2>1. /\ poll # Gone /\ seen' = poll /\ sum' = rx' /\ prev' = rx' /\ rate' = Rate(rx')
        /\ poll' = Gone /\ sampleAt' = pollAt /\ UNCHANGED <<raw, lastTot, total, pollAt>>
    BY <1>6 DEF UpdateTraffic
  <2>2. rate' <= total'
    <3>1. rx' \in Nat /\ prev \in Nat /\ total' \in Nat /\ rx' <= total'
      BY <1>0
    <3>2. rate' = IF rx' >= prev THEN rx' - prev ELSE 0
      BY <2>1 DEF Rate
    <3>3. \A a, b, c \in Nat : a <= c => (IF a >= b THEN a - b ELSE 0) <= c
      OBVIOUS
    <3> QED
      BY <3>1, <3>2, <3>3, Zenon
  <2>3. flow' = IF sampleAt = Gone THEN rate' ELSE pollAt - sampleAt
    BY <1>6 DEF UpdateTraffic
  <2>4. flow' <= total'
    BY <2>1, <2>2, <2>3
  <2> QED
    BY <2>1, <2>2, <2>4, <1>0
<1>7. CASE SkipTraffic
  BY <1>7, <1>0 DEF SkipTraffic
<1>8. CASE SampleTunnel
  BY <1>8, <1>0 DEF SampleTunnel
<1>9. CASE UNCHANGED trafficVars
  BY <1>9, <1>0 DEF trafficVars
<1> QED
  BY <1>1, <1>2, <1>3, <1>4, <1>5, <1>6, <1>7, <1>8, <1>9 DEF TrafficNext

\* The types of the counters hold throughout.
LEMMA TrafficTypesAlways == TrafficSpec => []TrafficTypeOK
<1>1. TrafficInit => TrafficFlags
  BY Zenon DEF TrafficInit, TrafficFlags
<1>2. TrafficInit => OfTransferred
  BY TrafficAssumption DEF TrafficInit, OfTransferred, Gone
<1>3. CountInv /\ RateInv /\ OfTransferred /\ TrafficFlags => TrafficTypeOK
  BY TrafficAssumption DEF CountInv, CounterTypes, RateInv, RateTypes, OfTransferred,
     TrafficFlags, TrafficTypeOK, Bytes, Gone
<1> QED
  BY <1>1, <1>2, <1>3, InitCountInv, NextCountInv, InitRateInv, NextRateInv,
     NextTrafficFlags, NextOfTransferred, PTL DEF TrafficSpec

-----------------------------------------------------------------------------
(* Exactness.                                                               *)

\* What the device has counted and the row has not.
Uncounted == IF raw = Gone THEN 0 ELSE IF restarted THEN raw ELSE raw - seen

\* Nothing is missing, and a tick that has polled holds a reading of the
\* counter as it still runs.
Exact ==
    exists /\ ~inexact =>
        /\ total = rx + Uncounted
        /\ raw # Gone /\ ~restarted => raw >= seen
        /\ poll # Gone =>
            /\ raw # Gone /\ poll <= raw
            /\ ~restarted => poll >= seen

ExactInv == CounterTypes /\ restarted \in BOOLEAN /\ inexact \in BOOLEAN /\ Exact

\* A loss of the counter that is not marked lost nothing.
LEMMA ForgetLosesNothing ==
    ASSUME ExactInv, Forget, exists, ~inexact'
    PROVE  ~inexact /\ restarted' /\ (raw # Gone => poll = Gone) /\ total = rx
<1>1. /\ ~inexact /\ restarted'
      /\ ~(raw # Gone /\ (raw # (IF restarted THEN 0 ELSE seen) \/ poll # Gone))
  BY Zenon DEF Forget
<1> QED
  BY <1>1 DEF ExactInv, Exact, CounterTypes, Uncounted, Gone

\* Initially nothing has been transferred.
LEMMA InitExactInv == TrafficInit => ExactInv
<1> SUFFICES ASSUME TrafficInit PROVE ExactInv
  OBVIOUS
<1>1. CounterTypes /\ restarted \in BOOLEAN /\ inexact \in BOOLEAN
  BY DEF TrafficInit, CounterTypes, Gone
<1>2. raw = Gone /\ poll = Gone /\ total = 0 /\ rx = 0
  BY DEF TrafficInit
<1> QED
  BY <1>1, <1>2 DEF ExactInv, Exact, Uncounted

\* Every step counts exactly or is marked.
LEMMA NextExactInv == CountInv /\ ExactInv /\ [TrafficNext]_trafficVars => ExactInv'
<1> SUFFICES ASSUME CountInv, ExactInv, [TrafficNext]_trafficVars PROVE ExactInv'
  OBVIOUS
<1>0. CounterTypes'
  BY NextCountInv DEF CountInv
<1>00. restarted' \in BOOLEAN /\ inexact' \in BOOLEAN
  BY DEF ExactInv, TrafficNext, trafficVars, Transfer, DeviceConfigured, DeviceCloses, DeleteRow,
     CollectorRestarts, PutCounters, PollStats, UpdateTraffic, SkipTraffic, SampleTunnel, Forget
<1> SUFFICES ASSUME exists', ~inexact' PROVE Exact'
  BY <1>0, <1>00 DEF ExactInv, Exact
<1>1. CASE Transfer
  BY <1>1 DEF Transfer, ExactInv, Exact, Uncounted, CounterTypes, Gone
<1>2. CASE DeviceConfigured
  <2>1. Forget /\ exists /\ raw' = 0 /\ UNCHANGED <<rx, seen, poll, total>>
    BY <1>2 DEF DeviceConfigured
  <2>2. ~inexact /\ restarted' /\ total = rx /\ (raw # Gone => poll = Gone)
    BY <2>1, ForgetLosesNothing
  <2>3. poll = Gone
    BY <2>1, <2>2 DEF ExactInv, Exact
  <2> QED
    BY <2>1, <2>2, <2>3 DEF Exact, Uncounted, ExactInv, CounterTypes, Gone
<1>3. CASE DeviceCloses
  <2>1. Forget /\ exists /\ raw' = Gone /\ raw # Gone /\ UNCHANGED <<rx, seen, poll, total>>
    BY <1>3 DEF DeviceCloses
  <2>2. ~inexact /\ restarted' /\ total = rx /\ (raw # Gone => poll = Gone)
    BY <2>1, ForgetLosesNothing
  <2> QED
    BY <2>1, <2>2 DEF Exact, Uncounted, ExactInv, CounterTypes, Gone
<1>4. CASE CollectorRestarts
  <2>1. Forget /\ exists /\ raw' = Gone /\ poll' = Gone /\ UNCHANGED <<rx, seen, total>>
    BY <1>4 DEF CollectorRestarts
  <2>2. ~inexact /\ restarted' /\ total = rx
    BY <2>1, ForgetLosesNothing
  <2> QED
    BY <2>1, <2>2 DEF Exact, Uncounted, ExactInv, CounterTypes, Gone
<1>5. CASE DeleteRow
  BY <1>5 DEF DeleteRow
<1>6. CASE \E n \in Bytes : PutCounters(n)
  BY <1>6 DEF PutCounters
<1>7. CASE PollStats
  BY <1>7 DEF PollStats, ExactInv, Exact, Uncounted, CounterTypes, Gone
<1>8. CASE UpdateTraffic
  <2>1. /\ exists /\ poll \in Nat /\ rx' = rx + Delta /\ seen' = poll /\ poll' = Gone
        /\ ~restarted' /\ UNCHANGED <<raw, total>>
    BY <1>8 DEF UpdateTraffic, ExactInv, CounterTypes, Gone
  <2>2. ~inexact /\ ~(restarted /\ poll >= seen /\ seen > 0)
    BY <1>8, Zenon DEF UpdateTraffic
  <2>3. raw \in Nat /\ poll <= raw /\ (~restarted => poll >= seen) /\ total = rx + Uncounted
    BY <2>1, <2>2 DEF ExactInv, Exact, CounterTypes, Gone
  <2>4. Delta = IF restarted THEN poll ELSE poll - seen
    BY <2>1, <2>2, <2>3 DEF Delta, ExactInv, CounterTypes
  <2> QED
    BY <2>1, <2>2, <2>3, <2>4 DEF Exact, Uncounted, ExactInv, CounterTypes, Gone
<1>9. CASE SkipTraffic
  BY <1>9 DEF SkipTraffic, ExactInv, Exact, Uncounted, CounterTypes, Gone
<1>10. CASE SampleTunnel
  BY <1>10 DEF SampleTunnel, ExactInv, Exact, Uncounted
<1>11. CASE UNCHANGED trafficVars
  BY <1>11 DEF trafficVars, ExactInv, Exact, Uncounted
<1> QED
  BY <1>1, <1>2, <1>3, <1>4, <1>5, <1>6, <1>7, <1>8, <1>9, <1>10, <1>11 DEF TrafficNext

\* Every byte is counted, restarts of the counter included, except in the cases
\* ExactCount lists: PeerRepo.UpdateTraffic.
THEOREM ExactCountAlways == TrafficSpec => []ExactCount
<1>1. ExactInv => ExactCount
  BY DEF ExactInv, Exact, Uncounted, ExactCount
<1> QED
  BY <1>1, InitCountInv, NextCountInv, InitExactInv, NextExactInv, PTL DEF TrafficSpec

-----------------------------------------------------------------------------
(* Manual nodes: types and references.                                     *)

Requests == [at : {"idle", "create", "check", "apply", "count", "meta", "find"},
             op : {"add", "update", "delete", "import"}, sub : 0 .. MaxSubs,
             id : 0 .. MaxNodes, uri : NodeUris \cup {NoUri}, count : 0 .. MaxNodes,
             alone : BOOLEAN]

\* The requests that change what a tunnel refers to.
TunnelRequest(t) ==
    \/ \E n \in 0 .. MaxNodes : AssignActive(t, n)
    \/ \E L \in SUBSET NodeIds : SetTunnelNodes(t, L)
    \/ DeleteTunnel(t)

\* A request names a node there has been, and a subscription once it has one;
\* one that may write a URI has one; and the node it is about to write, if it is
\* still there, is still in the subscription it was found in.
Sound(r) ==
    /\ r.id \in 0 .. nodesBorn
    /\ r.at \in {"check", "apply", "count", "meta"} => r.sub \in SubIds
    /\ r.at # "idle" /\ r.op # "delete" => r.uri \in NodeUris
    /\ r.at = "apply" /\ r.op \in {"update", "delete"} /\ r.id \in Nodes => mnode[r.id].sub = r.sub

ManualShape == ManualTypeOK /\ (\A e \in Editors : Sound(editor[e])) /\ ManualNoDangling

\* A request that has not begun has its type.
LEMMA WaitingType ==
    /\ Waiting \in Requests
    /\ Waiting.at = "idle" /\ Waiting.id = 0 /\ Waiting.alone = FALSE
  BY ManualAssumption DEF Waiting, Requests

\* Another request's record after a step: at most it is no longer alone.
Like(r, s) ==
    /\ r.at = s.at /\ r.op = s.op /\ r.sub = s.sub /\ r.id = s.id
    /\ r.uri = s.uri /\ r.count = s.count /\ (r.alone => s.alone)

\* A step of one request leaves the others as they were.
LEMMA Moves ==
    ASSUME editor \in [Editors -> Requests], NEW e \in Editors, NEW r \in Requests,
           editor' = [editor EXCEPT ![e] = r]
    PROVE  /\ editor' \in [Editors -> Requests] /\ editor'[e] = r
           /\ \A d \in Editors \ {e} : Like(editor'[d], editor[d])
  BY DEF Like

\* A request that begins ends the others' running alone.
LEMMA BeginsMoves ==
    ASSUME editor \in [Editors -> Requests], NEW e \in Editors, NEW r \in Requests, Begins(e, r)
    PROVE  /\ editor' \in [Editors -> Requests]
           /\ editor'[e] = [r EXCEPT !.alone = \A o \in Editors \ {e} : ~Busy(o)]
           /\ \A d \in Editors \ {e} : Like(editor'[d], editor[d]) /\ ~editor'[d].alone
  BY DEF Begins, Like, Requests

\* What the other requests' records say is kept when the nodes they may name
\* stay where they are.
LEMMA OthersKept ==
    ASSUME ManualShape, NEW e \in Editors,
           \A d \in Editors \ {e} : Like(editor'[d], editor[d]),
           nodesBorn' \in {nodesBorn, nodesBorn + 1},
           \A n \in Nodes' : n \in Nodes => mnode'[n].sub = mnode[n].sub,
           \A n \in Nodes' : n \notin Nodes => n = nodesBorn + 1,
           Sound(editor[e])'
    PROVE  \A d \in Editors : Sound(editor[d])'
<1> TAKE d \in Editors
<1>0. CASE d = e
  BY <1>0
<1>1. CASE d # e
  <2>1. Like(editor'[d], editor[d])
    BY <1>1
  <2>2. nodesBorn \in Nat /\ Sound(editor[d])
    BY ManualAssumption DEF ManualShape, ManualTypeOK
  <2>3. editor[d].id \in Nodes' => editor[d].id \in Nodes
    BY <2>2 DEF Sound
  <2>4. editor[d].id \in 0 .. nodesBorn'
    BY <2>2 DEF Sound
  <2> QED
    BY <2>1, <2>2, <2>3, <2>4 DEF Like, Sound
<1> QED
  BY <1>0, <1>1

\* Initially there is one subscription and no node.
LEMMA InitManualShape == ManualInit => ManualShape
<1> SUFFICES ASSUME ManualInit PROVE ManualShape
  OBVIOUS
<1>1. /\ msub = [s \in {1} |-> 0] /\ subsBorn = 1 /\ held = 1
      /\ mnode = <<>> /\ nodesBorn = 0 /\ copied = FALSE /\ sure = {1}
      /\ wg = [t \in Wgs |-> NoWg] /\ editor = [e \in Editors |-> Waiting]
  BY DEF ManualInit
<1>2. Subs = {1} /\ Nodes = {}
  BY <1>1 DEF Subs, Nodes
<1>3. mnode \in [Nodes -> [sub : SubIds, uri : NodeUris]]
  <2>1. \A S : <<>> \in [{} -> S]
    OBVIOUS
  <2> QED
    BY <1>1, <1>2, <2>1, Zenon
<1>4. msub \in [Subs -> 0 .. MaxNodes] /\ Subs \subseteq 1 .. subsBorn /\ 1 \in SubIds
      /\ subsBorn \in 0 .. MaxSubs /\ nodesBorn \in 0 .. MaxNodes
  BY <1>1, <1>2, ManualAssumption DEF SubIds
<1>5. wg \in [Wgs -> [active : 0 .. MaxNodes, linked : SUBSET NodeIds]]
  BY <1>1, ManualAssumption DEF NoWg
<1>6. editor \in [Editors -> Requests]
  BY <1>1, WaitingType
<1>7. ManualTypeOK
  BY <1>1, <1>2, <1>3, <1>4, <1>5, <1>6 DEF ManualTypeOK, Requests
<1>8. \A e \in Editors : Sound(editor[e])
  BY <1>1, WaitingType DEF Sound
<1>9. ManualNoDangling
  BY <1>1, <1>2 DEF ManualNoDangling, NoWg
<1> QED
  BY <1>7, <1>8, <1>9 DEF ManualShape

\* A subscription has at most as many nodes as there have been.
LEMMA CountType ==
    ASSUME ManualTypeOK, NEW s
    PROVE  /\ IsFiniteSet(NodesIn(s)) /\ Cardinality(NodesIn(s)) \in 0 .. MaxNodes
<1>1. NodesIn(s) \in SUBSET (1 .. MaxNodes)
  <2>1. Nodes \subseteq 1 .. nodesBorn /\ nodesBorn \in 0 .. MaxNodes
    BY DEF ManualTypeOK
  <2>2. 1 .. nodesBorn \subseteq 1 .. MaxNodes
    BY <2>1, ManualAssumption
  <2> QED
    BY <2>1, <2>2 DEF NodesIn
<1>2. IsFiniteSet(1 .. MaxNodes) /\ Cardinality(1 .. MaxNodes) = MaxNodes
  BY ManualAssumption, FS_Interval
<1>3. IsFiniteSet(NodesIn(s)) /\ Cardinality(NodesIn(s)) <= MaxNodes
  BY <1>1, <1>2, FS_Subset
<1>4. Cardinality(NodesIn(s)) \in Nat
  BY <1>3, FS_CardinalityType
<1> QED
  BY <1>3, <1>4, ManualAssumption

\* The first of the subscriptions is one of them.
LEMMA FirstSub ==
    ASSUME ManualTypeOK, Subs # {}
    PROVE  Min(Subs) \in Subs /\ Min(Subs) \in SubIds
<1>1. Subs \in SUBSET Nat /\ Subs \subseteq SubIds
  BY ManualAssumption DEF ManualTypeOK, SubIds
<1> QED
  BY <1>1, MinIs

\* A new subscription's row has a new id.
LEMMA NewSubType ==
    ASSUME ManualTypeOK, subsBorn < MaxSubs, msub' = NewSub, subsBorn' = subsBorn + 1
    PROVE  /\ Subs' = Subs \cup {subsBorn + 1} /\ subsBorn + 1 \in SubIds
           /\ subsBorn' \in 0 .. MaxSubs /\ Subs' \subseteq 1 .. subsBorn'
           /\ msub' \in [Subs' -> 0 .. MaxNodes]
           /\ subsBorn + 1 \notin Subs
           /\ msub'[subsBorn + 1] = 0
           /\ \A s \in Subs : msub'[s] = msub[s]
<1>1. subsBorn \in Nat /\ Subs \subseteq 1 .. subsBorn /\ msub \in [Subs -> 0 .. MaxNodes]
  BY ManualAssumption DEF ManualTypeOK
<1>2. msub' = [s \in Subs \cup {subsBorn + 1} |-> IF s \in Subs THEN msub[s] ELSE 0]
  BY DEF NewSub
<1>3. Subs' = Subs \cup {subsBorn + 1}
  BY <1>2 DEF Subs
<1>4. subsBorn + 1 \notin Subs
  BY <1>1
<1> HIDE DEF Subs
<1> QED
  BY <1>1, <1>2, <1>3, <1>4, ManualAssumption DEF SubIds

\* A new node's row has a new id; the others stay.
LEMMA InsertNodeType ==
    ASSUME ManualTypeOK, NEW s \in SubIds, NEW u \in NodeUris, InsertNode(s, u)
    PROVE  /\ Nodes' = Nodes \cup {nodesBorn + 1} /\ nodesBorn + 1 \notin Nodes
           /\ nodesBorn' = nodesBorn + 1
           /\ nodesBorn' \in 0 .. MaxNodes /\ Nodes' \subseteq 1 .. nodesBorn'
           /\ mnode' \in [Nodes' -> [sub : SubIds, uri : NodeUris]]
           /\ mnode'[nodesBorn + 1] = [sub |-> s, uri |-> u]
           /\ \A n \in Nodes : mnode'[n] = mnode[n]
<1>1. nodesBorn \in Nat /\ Nodes \subseteq 1 .. nodesBorn
      /\ mnode \in [Nodes -> [sub : SubIds, uri : NodeUris]]
  BY ManualAssumption DEF ManualTypeOK
<1>2. /\ nodesBorn < MaxNodes /\ nodesBorn' = nodesBorn + 1
      /\ mnode' = [n \in Nodes \cup {nodesBorn + 1} |->
                      IF n \in Nodes THEN mnode[n] ELSE [sub |-> s, uri |-> u]]
  BY DEF InsertNode
<1>3. Nodes' = Nodes \cup {nodesBorn + 1}
  BY <1>2 DEF Nodes
<1>4. nodesBorn + 1 \notin Nodes
  BY <1>1
<1> HIDE DEF Nodes
<1>5. \A n \in Nodes : mnode[n] \in [sub : SubIds, uri : NodeUris]
  BY <1>1
<1>6. [sub |-> s, uri |-> u] \in [sub : SubIds, uri : NodeUris]
  OBVIOUS
<1>7. mnode' \in [Nodes' -> [sub : SubIds, uri : NodeUris]]
  BY <1>2, <1>3, <1>5, <1>6
<1> QED
  BY <1>1, <1>2, <1>3, <1>4, <1>7, ManualAssumption

\* Only requests change.
LEMMA RequestsOnly ==
    ASSUME ManualShape, editor' \in [Editors -> Requests],
           copied' \in BOOLEAN, sure' \subseteq SubIds,
           UNCHANGED <<msub, subsBorn, mnode, nodesBorn, held, wg>>
    PROVE  ManualTypeOK' /\ ManualNoDangling'
  BY DEF ManualShape, ManualTypeOK, ManualNoDangling, Requests, Subs, Nodes

\* Every step keeps the references between the tables and what requests know.
LEMMA NextManualShape == ManualShape /\ [ManualNext]_manualVars => ManualShape'
<1> SUFFICES ASSUME ManualShape, [ManualNext]_manualVars PROVE ManualShape'
  OBVIOUS
<1>a. /\ ManualTypeOK /\ editor \in [Editors -> Requests] /\ ManualNoDangling
      /\ \A e \in Editors : Sound(editor[e])
  BY DEF ManualShape, ManualTypeOK, Requests
<1>b. Waiting \in Requests /\ Waiting.at = "idle" /\ Waiting.id = 0
  BY WaitingType
<1>c. nodesBorn \in Nat /\ sure \subseteq SubIds /\ copied \in BOOLEAN
  BY <1>a, ManualAssumption DEF ManualTypeOK
<1>d. ASSUME NEW e \in Editors, nodesBorn' \in Nat, editor'[e] = Waiting PROVE Sound(editor[e])'
  BY <1>b, <1>d DEF Sound
<1>1. ASSUME NEW e \in Editors, NEW op \in {"add", "update", "delete"}, NEW n \in Nodes \cup {0},
             NEW u \in NodeUris \cup {NoUri}, op # "delete" => u \in NodeUris,
             EnsureManual(e, op, n, u)
      PROVE  ManualShape'
  <2> DEFINE r == [Waiting EXCEPT !.op = op, !.id = n, !.uri = u,
                     !.at = IF Subs = {} THEN "create" ELSE "check",
                     !.sub = IF Subs = {} THEN 0 ELSE Min(Subs)]
  <2>1. n \in 0 .. nodesBorn /\ n \in 0 .. MaxNodes
    BY <1>a, ManualAssumption DEF ManualTypeOK
  <2>2. /\ (IF Subs = {} THEN 0 ELSE Min(Subs)) \in 0 .. MaxSubs
        /\ Subs # {} => Min(Subs) \in SubIds
    BY <1>a, FirstSub, ManualAssumption DEF SubIds
  <2>3. /\ r \in Requests /\ r.at \in {"create", "check"} /\ r.op = op /\ r.id = n /\ r.uri = u
        /\ r.at = "check" => r.sub \in SubIds
    BY <1>b, <2>1, <2>2 DEF Requests
  <2>4. Begins(e, r) /\ UNCHANGED <<msub, subsBorn, mnode, nodesBorn, held, wg, copied, sure>>
    BY <1>1 DEF EnsureManual
  <2> HIDE DEF r
  <2>5. /\ editor' \in [Editors -> Requests]
        /\ editor'[e] = [r EXCEPT !.alone = \A o \in Editors \ {e} : ~Busy(o)]
        /\ \A d \in Editors \ {e} : Like(editor'[d], editor[d])
    BY <1>a, <2>3, <2>4, BeginsMoves
  <2>6. Sound(editor[e])'
    BY <1>1, <2>1, <2>3, <2>4, <2>5 DEF Sound, Requests
  <2>7. \A d \in Editors : Sound(editor[d])'
    BY <2>4, <2>5, <2>6, OthersKept DEF Nodes
  <2> QED
    BY <1>c, <2>4, <2>5, <2>7, RequestsOnly DEF ManualShape
<1>2. ASSUME NEW e \in Editors, EnsureCreate(e) PROVE ManualShape'
  <2> DEFINE r == [editor[e] EXCEPT !.at = "check", !.sub = subsBorn + 1]
  <2>1. /\ editor' = [editor EXCEPT ![e] = r] /\ editor[e].at = "create"
        /\ subsBorn < MaxSubs /\ msub' = NewSub /\ subsBorn' = subsBorn + 1
        /\ sure' = sure \cup {subsBorn + 1}
        /\ UNCHANGED <<mnode, nodesBorn, held, wg, copied>>
    BY <1>2, <1>a DEF EnsureCreate
  <2>2. /\ Subs' = Subs \cup {subsBorn + 1} /\ subsBorn + 1 \in SubIds
        /\ subsBorn' \in 0 .. MaxSubs /\ Subs' \subseteq 1 .. subsBorn'
        /\ msub' \in [Subs' -> 0 .. MaxNodes]
    BY <1>a, <2>1, NewSubType
  <2>3. r \in Requests /\ r.at = "check" /\ r.op = editor[e].op /\ r.id = editor[e].id
        /\ r.uri = editor[e].uri /\ r.sub = subsBorn + 1
    <3>1. editor[e] \in Requests
      BY <1>a
    <3>2. subsBorn + 1 \in 0 .. MaxSubs
      BY <2>2, ManualAssumption DEF SubIds
    <3> QED BY <3>1, <3>2 DEF Requests
  <2> HIDE DEF r
  <2>4. /\ editor' \in [Editors -> Requests] /\ editor'[e] = r
        /\ \A d \in Editors \ {e} : Like(editor'[d], editor[d])
    BY <1>a, <2>1, <2>3, Moves
  <2>5. Sound(editor[e])'
    BY <1>a, <2>1, <2>2, <2>3, <2>4 DEF Sound
  <2>6. \A d \in Editors : Sound(editor[d])'
    BY <2>1, <2>4, <2>5, OthersKept DEF Nodes
  <2>7. ManualNoDangling'
    BY <1>a, <2>1, <2>2 DEF ManualNoDangling, Nodes
  <2>8. sure' \subseteq SubIds
    BY <1>c, <2>1, <2>2
  <2>9. ManualTypeOK'
    BY <1>a, <2>1, <2>2, <2>4, <2>8 DEF ManualTypeOK, Requests, Nodes
  <2> QED
    BY <2>6, <2>7, <2>9 DEF ManualShape
<1>3. ASSUME NEW e \in Editors, Check(e) PROVE ManualShape'
  <2> DEFINE r == IF Acceptable(e) THEN [editor[e] EXCEPT !.at = "apply"] ELSE Waiting
  <2>1. /\ editor' = [editor EXCEPT ![e] = r] /\ editor[e].at = "check"
        /\ UNCHANGED <<msub, subsBorn, mnode, nodesBorn, held, wg, sure>>
    BY <1>3, <1>a DEF Check, Goes, Ends
  <2>2. copied' \in BOOLEAN
    BY <1>3 DEF Check
  <2>3. r \in Requests
    BY <1>a, <1>b DEF Requests
  <2>4. editor'[e] = r /\ editor' \in [Editors -> Requests]
        /\ \A d \in Editors \ {e} : Like(editor'[d], editor[d])
    BY <1>a, <2>1, <2>3, Moves
  <2>5. Sound(editor[e])'
    <3>1. CASE ~Acceptable(e)
      BY <1>c, <1>d, <2>1, <2>4, <3>1
    <3>2. CASE Acceptable(e)
      <4>1. /\ editor'[e].id = editor[e].id /\ editor'[e].op = editor[e].op
            /\ editor'[e].uri = editor[e].uri /\ editor'[e].sub = editor[e].sub
        BY <1>a, <2>4, <3>2 DEF Requests
      <4>2. editor[e].op \in {"update", "delete"} => mnode[editor[e].id].sub = editor[e].sub
        BY <3>2 DEF Acceptable, NodesIn
      <4> QED
        BY <1>a, <2>1, <4>1, <4>2 DEF Sound, Nodes
    <3> QED BY <3>1, <3>2
  <2> HIDE DEF r
  <2>6. \A d \in Editors : Sound(editor[d])'
    BY <2>1, <2>4, <2>5, OthersKept DEF Nodes
  <2> QED
    BY <1>c, <2>1, <2>2, <2>4, <2>6, RequestsOnly DEF ManualShape
<1>4. ASSUME NEW e \in Editors, InsertNodes(e) PROVE ManualShape'
  <2> DEFINE r == [editor[e] EXCEPT !.at = "count"]
  <2>1. /\ editor[e].at = "apply" /\ editor[e].op = "add"
        /\ InsertNode(editor[e].sub, editor[e].uri) /\ editor' = [editor EXCEPT ![e] = r]
        /\ sure' = sure \ {editor[e].sub} /\ UNCHANGED <<msub, subsBorn, held, wg, copied>>
    BY <1>4, <1>a DEF InsertNodes, Goes
  <2>2. editor[e].sub \in SubIds /\ editor[e].uri \in NodeUris
    BY <1>a, <2>1 DEF Sound
  <2>3. /\ Nodes' = Nodes \cup {nodesBorn + 1} /\ nodesBorn + 1 \notin Nodes
        /\ nodesBorn' = nodesBorn + 1
        /\ nodesBorn' \in 0 .. MaxNodes /\ Nodes' \subseteq 1 .. nodesBorn'
        /\ mnode' \in [Nodes' -> [sub : SubIds, uri : NodeUris]]
        /\ mnode'[nodesBorn + 1] = [sub |-> editor[e].sub, uri |-> editor[e].uri]
        /\ \A n \in Nodes : mnode'[n] = mnode[n]
    BY <1>a, <2>1, <2>2, InsertNodeType
  <2>4. r \in Requests /\ r.at = "count" /\ r.id = editor[e].id /\ r.uri = editor[e].uri
        /\ r.op = editor[e].op /\ r.sub = editor[e].sub
    BY <1>a DEF Requests
  <2> HIDE DEF r
  <2>5. /\ editor' \in [Editors -> Requests] /\ editor'[e] = r
        /\ \A d \in Editors \ {e} : Like(editor'[d], editor[d])
    BY <1>a, <2>1, <2>4, Moves
  <2>6. Sound(editor[e])'
    BY <1>a, <1>c, <2>1, <2>3, <2>4, <2>5 DEF Sound
  <2>7. \A d \in Editors : Sound(editor[d])'
    BY <1>c, <2>3, <2>5, <2>6, OthersKept
  <2>8. ManualNoDangling'
    BY <1>a, <2>1, <2>3 DEF ManualNoDangling
  <2>9. sure' \subseteq SubIds
    BY <1>c, <2>1
  <2>10. ManualTypeOK'
    BY <1>a, <2>1, <2>3, <2>5, <2>9 DEF ManualTypeOK, Requests, Subs
  <2> QED
    BY <2>7, <2>8, <2>10 DEF ManualShape
<1>5. ASSUME NEW e \in Editors, UpdateNode(e) PROVE ManualShape'
  <2>0. editor[e].at = "apply" /\ editor[e].op = "update"
        /\ UNCHANGED <<msub, subsBorn, nodesBorn, held, wg, copied>>
    BY <1>5 DEF UpdateNode
  <2>1. CASE editor[e].id \notin Nodes
    <3>1. editor' = [editor EXCEPT ![e] = Waiting] /\ UNCHANGED <<mnode, sure>>
      BY <1>5, <2>1 DEF UpdateNode, Ends
    <3>2. /\ editor' \in [Editors -> Requests] /\ editor'[e] = Waiting
          /\ \A d \in Editors \ {e} : Like(editor'[d], editor[d])
      BY <1>a, <1>b, <3>1, Moves
    <3>3. Sound(editor[e])'
      BY <1>c, <1>d, <2>0, <3>1, <3>2
    <3>4. \A d \in Editors : Sound(editor[d])'
      BY <2>0, <3>1, <3>2, <3>3, OthersKept DEF Nodes
    <3> QED
      BY <1>c, <2>0, <3>1, <3>2, <3>4, RequestsOnly DEF ManualShape
  <2>2. CASE editor[e].id \in Nodes
    <3> DEFINE r == [editor[e] EXCEPT !.at = "count"]
               row == [sub |-> editor[e].sub, uri |-> editor[e].uri]
    <3>1. /\ mnode' = [mnode EXCEPT ![editor[e].id] = row] /\ editor' = [editor EXCEPT ![e] = r]
          /\ sure' = sure \ {editor[e].sub}
      BY <1>5, <2>2, <1>a DEF UpdateNode, Goes
    <3>2. mnode \in [Nodes -> [sub : SubIds, uri : NodeUris]]
      BY <1>a DEF ManualTypeOK
    <3>3. mnode[editor[e].id].sub = editor[e].sub /\ editor[e].uri \in NodeUris
      BY <1>a, <2>0, <2>2 DEF Sound
    <3>4. row \in [sub : SubIds, uri : NodeUris]
      BY <3>2, <3>3, <2>2
    <3>5. /\ Nodes' = Nodes /\ mnode' \in [Nodes -> [sub : SubIds, uri : NodeUris]]
          /\ \A n \in Nodes : mnode'[n].sub = mnode[n].sub
      BY <3>1, <3>2, <3>3, <3>4 DEF Nodes
    <3>6. r \in Requests /\ r.at = "count" /\ r.id = editor[e].id /\ r.uri = editor[e].uri
          /\ r.op = editor[e].op /\ r.sub = editor[e].sub
      BY <1>a DEF Requests
    <3> HIDE DEF r, row
    <3>7. /\ editor' \in [Editors -> Requests] /\ editor'[e] = r
          /\ \A d \in Editors \ {e} : Like(editor'[d], editor[d])
      BY <1>a, <3>1, <3>6, Moves
    <3>8. Sound(editor[e])'
      BY <1>a, <2>0, <3>6, <3>7 DEF Sound
    <3>9. \A d \in Editors : Sound(editor[d])'
      BY <2>0, <3>5, <3>7, <3>8, OthersKept
    <3>10. ManualNoDangling'
      BY <1>a, <2>0, <3>5 DEF ManualNoDangling, Subs
    <3>11. sure' \subseteq SubIds
      BY <1>c, <3>1
    <3>12. ManualTypeOK'
      BY <1>a, <2>0, <3>5, <3>7, <3>11 DEF ManualTypeOK, Requests, Subs
    <3> QED
      BY <3>9, <3>10, <3>12 DEF ManualShape
  <2> QED
    BY <2>1, <2>2
<1>6. ASSUME NEW e \in Editors, DeleteNode(e) PROVE ManualShape'
  <2>0. editor[e].at = "apply" /\ editor[e].op = "delete"
        /\ UNCHANGED <<msub, subsBorn, nodesBorn, held, wg, copied>>
    BY <1>6 DEF DeleteNode
  <2>1. CASE ~Deletable(editor[e].id)
    <3>1. editor' = [editor EXCEPT ![e] = Waiting] /\ UNCHANGED <<mnode, sure>>
      BY <1>6, <2>1 DEF DeleteNode, Ends
    <3>2. /\ editor' \in [Editors -> Requests] /\ editor'[e] = Waiting
          /\ \A d \in Editors \ {e} : Like(editor'[d], editor[d])
      BY <1>a, <1>b, <3>1, Moves
    <3>3. Sound(editor[e])'
      BY <1>c, <1>d, <2>0, <3>1, <3>2
    <3>4. \A d \in Editors : Sound(editor[d])'
      BY <2>0, <3>1, <3>2, <3>3, OthersKept DEF Nodes
    <3> QED
      BY <1>c, <2>0, <3>1, <3>2, <3>4, RequestsOnly DEF ManualShape
  <2>2. CASE Deletable(editor[e].id)
    <3> DEFINE r == [editor[e] EXCEPT !.at = "count"]
    <3>1. /\ mnode' = [n \in Nodes \ {editor[e].id} |-> mnode[n]]
          /\ editor' = [editor EXCEPT ![e] = r]
          /\ sure' = sure \ {editor[e].sub}
      BY <1>6, <2>2, <1>a DEF DeleteNode, Goes, Restrict
    <3>2. mnode \in [Nodes -> [sub : SubIds, uri : NodeUris]]
      BY <1>a DEF ManualTypeOK
    <3>3. /\ Nodes' = Nodes \ {editor[e].id}
          /\ mnode' \in [Nodes' -> [sub : SubIds, uri : NodeUris]]
          /\ \A n \in Nodes' : mnode'[n] = mnode[n]
      BY <3>1, <3>2 DEF Nodes
    <3>6. r \in Requests /\ r.at = "count" /\ r.id = editor[e].id /\ r.uri = editor[e].uri
          /\ r.op = editor[e].op /\ r.sub = editor[e].sub
      BY <1>a DEF Requests
    <3> HIDE DEF r
    <3>7. /\ editor' \in [Editors -> Requests] /\ editor'[e] = r
          /\ \A d \in Editors \ {e} : Like(editor'[d], editor[d])
      BY <1>a, <3>1, <3>6, Moves
    <3>8. Sound(editor[e])'
      BY <1>a, <2>0, <3>6, <3>7 DEF Sound
    <3>9. \A d \in Editors : Sound(editor[d])'
      BY <2>0, <3>3, <3>7, <3>8, OthersKept
    <3>10. ManualNoDangling'
      <4>1. \A t \in Wgs : wg[t].active # editor[e].id /\ editor[e].id \notin wg[t].linked
        BY <2>2 DEF Deletable, NodeUsed
      <4> QED
        BY <1>a, <2>0, <3>3, <4>1 DEF ManualNoDangling, Subs
    <3>11. sure' \subseteq SubIds
      BY <1>c, <3>1
    <3>12. ManualTypeOK'
      BY <1>a, <2>0, <3>3, <3>7, <3>11 DEF ManualTypeOK, Requests, Subs
    <3> QED
      BY <3>9, <3>10, <3>12 DEF ManualShape
  <2> QED
    BY <2>1, <2>2
<1>7. ASSUME NEW e \in Editors, SyncCount(e) PROVE ManualShape'
  <2> DEFINE r == [editor[e] EXCEPT !.at = "meta", !.count = Cardinality(NodesIn(editor[e].sub))]
  <2>1. /\ editor' = [editor EXCEPT ![e] = r] /\ editor[e].at = "count"
        /\ UNCHANGED <<msub, subsBorn, mnode, nodesBorn, held, wg, copied, sure>>
    BY <1>7, <1>a DEF SyncCount
  <2>2. Cardinality(NodesIn(editor[e].sub)) \in 0 .. MaxNodes
    BY <1>a, CountType
  <2>3. r \in Requests /\ r.at = "meta" /\ r.id = editor[e].id /\ r.uri = editor[e].uri
        /\ r.op = editor[e].op /\ r.sub = editor[e].sub
    BY <1>a, <2>2 DEF Requests
  <2> HIDE DEF r
  <2>4. /\ editor' \in [Editors -> Requests] /\ editor'[e] = r
        /\ \A d \in Editors \ {e} : Like(editor'[d], editor[d])
    BY <1>a, <2>1, <2>3, Moves
  <2>5. Sound(editor[e])'
    BY <1>a, <2>1, <2>3, <2>4 DEF Sound
  <2>6. \A d \in Editors : Sound(editor[d])'
    BY <2>1, <2>4, <2>5, OthersKept DEF Nodes
  <2> QED
    BY <1>c, <2>1, <2>4, <2>6, RequestsOnly DEF ManualShape
<1>8. ASSUME NEW e \in Editors, SyncMeta(e) PROVE ManualShape'
  <2>1. /\ editor' = [editor EXCEPT ![e] = Waiting] /\ editor[e].at = "meta"
        /\ UNCHANGED <<subsBorn, mnode, nodesBorn, held, wg, copied>>
    BY <1>8 DEF SyncMeta, Ends
  <2>2. editor[e].sub \in 0 .. MaxSubs /\ editor[e].count \in 0 .. MaxNodes
    BY <1>a DEF Requests
  <2>3. Subs' = Subs /\ msub' \in [Subs -> 0 .. MaxNodes]
    <3>1. msub \in [Subs -> 0 .. MaxNodes]
      BY <1>a DEF ManualTypeOK
    <3>2. CASE editor[e].sub \in Subs
      BY <1>8, <2>2, <3>1, <3>2 DEF SyncMeta, Subs
    <3>3. CASE editor[e].sub \notin Subs
      BY <1>8, <3>1, <3>3 DEF SyncMeta, Subs
    <3> QED BY <3>2, <3>3
  <2>4. sure' \subseteq SubIds
    <3>1. editor[e].sub \in SubIds
      BY <1>a, <2>1 DEF Sound
    <3> QED BY <1>8, <1>c, <3>1 DEF SyncMeta
  <2>5. /\ editor' \in [Editors -> Requests] /\ editor'[e] = Waiting
        /\ \A d \in Editors \ {e} : Like(editor'[d], editor[d])
    BY <1>a, <1>b, <2>1, Moves
  <2>6. Sound(editor[e])'
    BY <1>c, <1>d, <2>1, <2>5
  <2>7. \A d \in Editors : Sound(editor[d])'
    BY <2>1, <2>5, <2>6, OthersKept DEF Nodes
  <2>8. ManualNoDangling'
    BY <1>a, <2>1, <2>3 DEF ManualNoDangling, Nodes
  <2>9. ManualTypeOK'
    BY <1>a, <2>1, <2>3, <2>4, <2>5 DEF ManualTypeOK, Requests, Nodes
  <2> QED
    BY <2>7, <2>8, <2>9 DEF ManualShape
<1>9. ASSUME NEW e \in Editors, NEW u \in NodeUris, ImportUri(e, u) PROVE ManualShape'
  <2> DEFINE r == [Waiting EXCEPT !.op = "import", !.at = "find", !.uri = u]
  <2>1. /\ InsertNode(held, u) /\ Begins(e, r)
        /\ copied' = TRUE /\ sure' = sure \ {held} /\ UNCHANGED <<msub, subsBorn, held, wg>>
    BY <1>9 DEF ImportUri
  <2>2. r \in Requests /\ r.at = "find" /\ r.id = 0 /\ r.uri = u /\ r.op = "import"
    BY <1>b DEF Requests
  <2> HIDE DEF r
  <2>3. held \in SubIds
    BY <1>a DEF ManualTypeOK
  <2>4. /\ Nodes' = Nodes \cup {nodesBorn + 1} /\ nodesBorn + 1 \notin Nodes
        /\ nodesBorn' = nodesBorn + 1
        /\ nodesBorn' \in 0 .. MaxNodes /\ Nodes' \subseteq 1 .. nodesBorn'
        /\ mnode' \in [Nodes' -> [sub : SubIds, uri : NodeUris]]
        /\ mnode'[nodesBorn + 1] = [sub |-> held, uri |-> u]
        /\ \A n \in Nodes : mnode'[n] = mnode[n]
    BY <1>a, <2>1, <2>3, InsertNodeType
  <2>5. /\ editor' \in [Editors -> Requests]
        /\ editor'[e] = [r EXCEPT !.alone = \A o \in Editors \ {e} : ~Busy(o)]
        /\ \A d \in Editors \ {e} : Like(editor'[d], editor[d])
    BY <1>a, <2>1, <2>2, BeginsMoves
  <2>6. Sound(editor[e])'
    BY <1>c, <2>2, <2>4, <2>5 DEF Sound, Requests
  <2>7. \A d \in Editors : Sound(editor[d])'
    BY <1>c, <2>4, <2>5, <2>6, OthersKept
  <2>8. ManualNoDangling'
    BY <1>a, <2>1, <2>4 DEF ManualNoDangling, Subs
  <2>9. sure' \subseteq SubIds
    BY <1>c, <2>1
  <2>10. ManualTypeOK'
    BY <1>a, <2>1, <2>4, <2>5, <2>9 DEF ManualTypeOK, Requests, Subs
  <2> QED
    BY <2>7, <2>8, <2>10 DEF ManualShape
<1>10. ASSUME NEW e \in Editors, NEW t \in Wgs, ImportTunnel(e, t) PROVE ManualShape'
  <2> DEFINE n == Imported(editor[e].uri)
  <2>1. /\ editor' = [editor EXCEPT ![e] = Waiting]
        /\ wg' = IF n # 0 /\ held \in Subs THEN [wg EXCEPT ![t] = [active |-> n, linked |-> {n}]] ELSE wg
        /\ UNCHANGED <<msub, subsBorn, mnode, nodesBorn, held, copied, sure>>
    BY <1>10 DEF ImportTunnel, Ends
  <2>2. n # 0 => n \in Nodes /\ n \in NodeIds
    <3> DEFINE same == {m \in NodesIn(held) : mnode[m].uri = editor[e].uri}
    <3>1. Nodes \subseteq 1 .. MaxNodes
      BY <1>a, ManualAssumption DEF ManualTypeOK
    <3>2. same \in SUBSET (0 .. MaxNodes) /\ same \subseteq Nodes
      <4>1. 1 .. MaxNodes \subseteq 0 .. MaxNodes
        BY ManualAssumption
      <4>2. same \subseteq Nodes
        BY DEF NodesIn
      <4> QED BY <3>1, <4>1, <4>2
    <3>3. n = IF same = {} THEN 0 ELSE Max(same)
      BY DEF Imported
    <3> HIDE DEF same, n
    <3>4. same # {} => Max(same) \in same
      BY <3>2, MaxIs, ManualAssumption
    <3> QED BY <3>1, <3>2, <3>3, <3>4 DEF NodeIds
  <2> HIDE DEF n
  <2>3. wg' \in [Wgs -> [active : 0 .. MaxNodes, linked : SUBSET NodeIds]]
    <3>1. wg \in [Wgs -> [active : 0 .. MaxNodes, linked : SUBSET NodeIds]]
      BY <1>a DEF ManualTypeOK
    <3>2. n # 0 => [active |-> n, linked |-> {n}]
                      \in [active : 0 .. MaxNodes, linked : SUBSET NodeIds]
      BY <2>2, ManualAssumption DEF NodeIds
    <3> QED BY <2>1, <3>1, <3>2
  <2>4. \A x \in Wgs : wg'[x].active \in Nodes \cup {0} /\ wg'[x].linked \subseteq Nodes
    <3>1. wg \in [Wgs -> [active : 0 .. MaxNodes, linked : SUBSET NodeIds]]
      BY <1>a DEF ManualTypeOK
    <3> QED BY <1>a, <2>1, <2>2, <3>1 DEF ManualNoDangling
  <2>5. /\ editor' \in [Editors -> Requests] /\ editor'[e] = Waiting
        /\ \A d \in Editors \ {e} : Like(editor'[d], editor[d])
    BY <1>a, <1>b, <2>1, Moves
  <2>6. Sound(editor[e])'
    BY <1>c, <1>d, <2>1, <2>5
  <2>7. \A d \in Editors : Sound(editor[d])'
    BY <2>1, <2>5, <2>6, OthersKept DEF Nodes
  <2>8. ManualNoDangling'
    BY <1>a, <2>1, <2>4 DEF ManualNoDangling, Nodes, Subs
  <2>9. ManualTypeOK'
    BY <1>a, <2>1, <2>3, <2>5 DEF ManualTypeOK, Requests, Nodes, Subs
  <2> QED
    BY <2>7, <2>8, <2>9 DEF ManualShape
<1>11. ASSUME NEW t \in Wgs, TunnelRequest(t)
      PROVE  ManualShape'
  <2>1. UNCHANGED <<msub, subsBorn, mnode, nodesBorn, held, editor, copied, sure>>
    BY <1>11 DEF TunnelRequest, AssignActive, SetTunnelNodes, DeleteTunnel
  <2>2. wg \in [Wgs -> [active : 0 .. MaxNodes, linked : SUBSET NodeIds]]
    BY <1>a DEF ManualTypeOK
  <2>3. /\ wg' \in [Wgs -> [active : 0 .. MaxNodes, linked : SUBSET NodeIds]]
        /\ \A x \in Wgs : wg'[x].active \in Nodes \cup {0} /\ wg'[x].linked \subseteq Nodes
    <3>1. CASE \E n \in 0 .. MaxNodes : AssignActive(t, n)
      BY <1>a, <2>2, <3>1 DEF AssignActive, ManualNoDangling
    <3>2. CASE \E L \in SUBSET NodeIds : SetTunnelNodes(t, L)
      BY <1>a, <2>2, <3>2 DEF SetTunnelNodes, ManualNoDangling
    <3>3. CASE DeleteTunnel(t)
      BY <1>a, <2>2, <3>3, ManualAssumption DEF DeleteTunnel, ManualNoDangling, NoWg
    <3> QED BY <1>11, <3>1, <3>2, <3>3 DEF TunnelRequest
  <2>4. ManualNoDangling'
    BY <1>a, <2>1, <2>3 DEF ManualNoDangling, Nodes, Subs
  <2>5. ManualTypeOK'
    BY <1>a, <2>1, <2>3 DEF ManualTypeOK, Nodes, Subs
  <2>6. \A d \in Editors : Sound(editor[d])'
    BY <1>a, <2>1 DEF Sound, Nodes
  <2> QED
    BY <2>4, <2>5, <2>6 DEF ManualShape
<1>12. ASSUME NEW s \in SubIds, PutSubscription(s) PROVE ManualShape'
  <2>1. /\ s \in Subs /\ msub' = [msub EXCEPT ![s] = 0]
        /\ editor' = [e \in Editors |-> [editor[e] EXCEPT !.alone = FALSE]]
        /\ sure' = sure \ {s} /\ UNCHANGED <<subsBorn, mnode, nodesBorn, held, wg, copied>>
    BY <1>12 DEF PutSubscription
  <2>2. Subs' = Subs /\ msub' \in [Subs -> 0 .. MaxNodes]
    BY <1>a, <2>1, ManualAssumption DEF ManualTypeOK, Subs
  <2>3. editor' \in [Editors -> Requests] /\ \A d \in Editors : Like(editor'[d], editor[d])
    BY <1>a, <2>1 DEF Requests, Like
  <2>4. \A d \in Editors : Sound(editor[d])'
    BY <1>a, <2>1, <2>3 DEF Sound, Like, Nodes
  <2>5. ManualNoDangling'
    BY <1>a, <2>1, <2>2 DEF ManualNoDangling, Nodes
  <2>6. sure' \subseteq SubIds
    BY <1>c, <2>1
  <2>7. ManualTypeOK'
    BY <1>a, <2>1, <2>2, <2>3, <2>6 DEF ManualTypeOK, Requests, Nodes
  <2> QED
    BY <2>4, <2>5, <2>7 DEF ManualShape
<1>13. ASSUME NEW s \in SubIds, DeleteSubscription(s) PROVE ManualShape'
  <2>1. /\ s \in Subs /\ msub' = [x \in Subs \ {s} |-> msub[x]] /\ sure' = sure \ {s}
        /\ UNCHANGED <<subsBorn, mnode, nodesBorn, held, wg, editor, copied>>
    BY <1>13 DEF DeleteSubscription, Restrict
  <2>2. Subs' = Subs \ {s} /\ msub' \in [Subs' -> 0 .. MaxNodes]
    BY <1>a, <2>1 DEF ManualTypeOK, Subs
  <2>3. ManualNoDangling'
    BY <1>a, <2>1 DEF ManualNoDangling, Nodes
  <2>4. ManualTypeOK'
    BY <1>a, <2>1, <2>2 DEF ManualTypeOK, Nodes
  <2>5. \A d \in Editors : Sound(editor[d])'
    BY <1>a, <2>1 DEF Sound, Nodes
  <2> QED
    BY <2>3, <2>4, <2>5 DEF ManualShape
<1>14. CASE ManualRestarts
  <2>1. /\ editor' = [e \in Editors |-> Waiting] /\ UNCHANGED <<mnode, nodesBorn, wg, copied>>
    BY <1>14 DEF ManualRestarts
  <2>2. /\ Subs \subseteq Subs' /\ Subs' \subseteq 1 .. subsBorn' /\ subsBorn' \in 0 .. MaxSubs
        /\ msub' \in [Subs' -> 0 .. MaxNodes] /\ held' \in SubIds /\ sure' \subseteq SubIds
    <3>1. CASE Subs # {}
      <4>1. held' = Min(Subs) /\ UNCHANGED <<msub, subsBorn, sure>>
        BY <1>14, <3>1 DEF ManualRestarts
      <4> QED
        BY <1>a, <3>1, <4>1, FirstSub DEF ManualTypeOK, Subs
    <3>2. CASE Subs = {}
      <4>1. /\ subsBorn < MaxSubs /\ msub' = NewSub /\ subsBorn' = subsBorn + 1
            /\ held' = subsBorn' /\ sure' = sure \cup {subsBorn'}
        BY <1>14, <3>2 DEF ManualRestarts
      <4>2. /\ Subs' = Subs \cup {subsBorn + 1} /\ subsBorn + 1 \in SubIds
            /\ subsBorn' \in 0 .. MaxSubs /\ Subs' \subseteq 1 .. subsBorn'
            /\ msub' \in [Subs' -> 0 .. MaxNodes]
        BY <1>a, <4>1, NewSubType
      <4> QED
        BY <1>c, <4>1, <4>2
    <3> QED BY <3>1, <3>2
  <2>3. ManualNoDangling'
    BY <1>a, <2>1, <2>2 DEF ManualNoDangling, Nodes
  <2>4. ManualTypeOK'
    BY <1>a, <1>b, <2>1, <2>2 DEF ManualTypeOK, Nodes, Requests
  <2>5. \A d \in Editors : Sound(editor[d])'
    BY <1>c, <1>d, <2>1
  <2> QED
    BY <2>3, <2>4, <2>5 DEF ManualShape
<1>15. CASE UNCHANGED manualVars
  BY <1>a, <1>15 DEF manualVars, ManualShape, ManualTypeOK, ManualNoDangling, Sound, Nodes, Subs
<1>16. ASSUME NEW e \in Editors, NEW u \in NodeUris, AddManualNode(e, u) PROVE ManualShape'
  BY <1>1, <1>16 DEF AddManualNode
<1>17. ASSUME NEW e \in Editors, NEW n \in Nodes, NEW u \in NodeUris, UpdateManualNode(e, n, u)
       PROVE ManualShape'
  BY <1>1, <1>17 DEF UpdateManualNode
<1>18. ASSUME NEW e \in Editors, NEW n \in Nodes, DeleteManualNode(e, n) PROVE ManualShape'
  BY <1>1, <1>18 DEF DeleteManualNode
<1> QED
  BY <1>2, <1>3, <1>4, <1>5, <1>6, <1>7, <1>8, <1>9, <1>10, <1>11, <1>12, <1>13, <1>14, <1>15,
     <1>16, <1>17, <1>18 DEF ManualNext, TunnelRequest

\* The nodes a tunnel names exist, for every number of requests, nodes, tunnels
\* and subscriptions: whatever a request has looked at before, the node's row goes
\* only when no tunnel refers to it, and deleting a subscription deletes no node.
THEOREM ManualNoDanglingAlways == ManualSpec => []ManualNoDangling
<1>1. ManualShape => ManualNoDangling
  BY DEF ManualShape
<1> QED
  BY <1>1, InitManualShape, NextManualShape, PTL DEF ManualSpec

-----------------------------------------------------------------------------
(* URIs.                                                                    *)

Writing == {e \in Editors : editor[e].at = "apply" /\ editor[e].op # "delete"}

\* Without an overlap one request at a time stands between its look at the URIs
\* and its write, and what it saw still holds.
NewUri ==
    ~copied =>
        /\ \A m, n \in Nodes : mnode[m] = mnode[n] => m = n
        /\ \A d, e \in Writing : d = e
        /\ \A e \in Writing : \A n \in NodesIn(editor[e].sub) :
               (editor[e].op = "update" => n # editor[e].id) => mnode[n].uri # editor[e].uri

\* No node changes and no request has come to write.
LEMMA NewUriKept ==
    ASSUME NewUri, ~copied' => ~copied,
           \A n \in Nodes' : n \in Nodes /\ mnode'[n] = mnode[n],
           \A d \in Editors : Like(editor'[d], editor[d]) \/ editor'[d].at # "apply"
    PROVE  NewUri'
<1> SUFFICES ASSUME ~copied' PROVE
        /\ \A m, n \in Nodes' : mnode'[m] = mnode'[n] => m = n
        /\ \A d, e \in Writing' : d = e
        /\ \A e \in Writing' : \A n \in NodesIn(editor[e].sub)' :
               (editor'[e].op = "update" => n # editor'[e].id) => mnode'[n].uri # editor'[e].uri
  BY DEF NewUri
<1>1. \A e \in Writing' : e \in Writing /\ Like(editor'[e], editor[e])
  BY DEF Writing, Like
<1>2. \A e \in Writing' : \A n \in NodesIn(editor[e].sub)' : n \in NodesIn(editor[e].sub)
  BY <1>1 DEF NodesIn, Like
<1>3. \A n \in Nodes' : n \in Nodes /\ mnode'[n] = mnode[n]
  OBVIOUS
<1>4. \A e \in Writing' : \A n \in NodesIn(editor[e].sub)' : n \in Nodes'
  BY DEF NodesIn
<1> QED
  BY <1>1, <1>2, <1>3, <1>4 DEF NewUri, Like

\* Every step keeps the URIs distinct, or is marked.
LEMMA NextNewUri == ManualShape /\ NewUri /\ [ManualNext]_manualVars => NewUri'
<1> SUFFICES ASSUME ManualShape, NewUri, [ManualNext]_manualVars PROVE NewUri'
  OBVIOUS
<1>a. /\ ManualTypeOK /\ editor \in [Editors -> Requests]
      /\ \A e \in Editors : Sound(editor[e])
      /\ mnode \in [Nodes -> [sub : SubIds, uri : NodeUris]]
  BY DEF ManualShape, ManualTypeOK, Requests
<1>b. Waiting \in Requests /\ Waiting.at = "idle"
  BY WaitingType
<1>c. ASSUME UNCHANGED <<mnode, copied>>,
             \A d \in Editors : Like(editor'[d], editor[d]) \/ editor'[d].at # "apply"
      PROVE  NewUri'
  BY <1>c, NewUriKept DEF Nodes
<1>d. ASSUME NEW e \in Editors, Ends(e) \/ Goes(e, "count")
      PROVE  \A d \in Editors : Like(editor'[d], editor[d]) \/ editor'[d].at # "apply"
  BY <1>a, <1>b, <1>d DEF Ends, Goes, Like, Requests
<1>1. ASSUME NEW e \in Editors, NEW op, NEW n, NEW u, EnsureManual(e, op, n, u) PROVE NewUri'
  <2>1. UNCHANGED <<mnode, copied>>
    BY <1>1 DEF EnsureManual
  <2>2. \A d \in Editors : Like(editor'[d], editor[d]) \/ editor'[d].at # "apply"
    BY <1>1, <1>a, <1>b DEF EnsureManual, Begins, Like, Requests
  <2> QED
    BY <1>c, <2>1, <2>2
<1>2. ASSUME NEW e \in Editors, EnsureCreate(e) \/ SyncCount(e) PROVE NewUri'
  <2>1. UNCHANGED <<mnode, copied>>
    BY <1>2 DEF EnsureCreate, SyncCount
  <2>2. \A d \in Editors : Like(editor'[d], editor[d]) \/ editor'[d].at # "apply"
    BY <1>2, <1>a DEF EnsureCreate, SyncCount, Like, Requests
  <2> QED
    BY <1>c, <2>1, <2>2
<1>3. ASSUME NEW e \in Editors, Check(e) PROVE NewUri'
  <2>1. editor[e].at = "check" /\ mnode' = mnode
    BY <1>3 DEF Check
  <2>2. CASE ~Acceptable(e)
    <3>1. Ends(e) /\ ~copied' => ~copied
      BY <1>3, <2>2, Zenon DEF Check
    <3> QED
      BY <1>3, <1>d, <2>1, <2>2, <3>1, NewUriKept DEF Check, Nodes
  <2>3. CASE Acceptable(e)
    <3>1. editor' = [editor EXCEPT ![e].at = "apply"]
      BY <1>3, <2>3 DEF Check, Goes
    <3>2. SUFFICES ASSUME ~copied'
                   PROVE  /\ \A m, n \in Nodes' : mnode'[m] = mnode'[n] => m = n
                          /\ \A d, f \in Writing' : d = f
                          /\ \A d \in Writing' : \A n \in NodesIn(editor[d].sub)' :
                               (editor'[d].op = "update" => n # editor'[d].id) =>
                                   mnode'[n].uri # editor'[d].uri
      BY DEF NewUri
    <3>3. ~copied /\ (editor[e].op = "delete" \/ \A d \in Editors \ {e} : d \notin Writing)
      <4>1. ~(copied \/ (Acceptable(e) /\ editor[e].op # "delete"
              /\ \E d \in Editors \ {e} : editor[d].at = "apply" /\ editor[d].op # "delete"))
        BY <1>3, <3>2, Zenon DEF Check
      <4> QED
        BY <2>3, <4>1 DEF Writing
    <3>4. /\ editor'[e].op = editor[e].op /\ editor'[e].sub = editor[e].sub
          /\ editor'[e].id = editor[e].id /\ editor'[e].uri = editor[e].uri
          /\ editor'[e].at = "apply"
          /\ \A d \in Editors \ {e} : editor'[d] = editor[d]
      BY <1>a, <3>1 DEF Requests
    <3>5. Nodes' = Nodes /\ \A x : NodesIn(x)' = NodesIn(x)
      BY <2>1 DEF Nodes, NodesIn
    <3>6. e \notin Writing
      BY <2>1 DEF Writing
    <3>7. CASE editor[e].op = "delete"
      <4>1. Writing' = Writing
        BY <3>4, <3>6, <3>7 DEF Writing
      <4>2. \A d \in Writing : editor'[d] = editor[d]
        BY <3>4, <3>6 DEF Writing
      <4>3. \A d \in Writing : NodesIn(editor[d].sub)' = NodesIn(editor[d].sub)
        BY <2>1, <4>2 DEF NodesIn, Nodes
      <4> QED
        BY <2>1, <3>3, <3>5, <4>1, <4>2, <4>3 DEF NewUri
    <3>8. CASE editor[e].op # "delete"
      <4>1. Writing' = {e}
        BY <3>3, <3>4, <3>8 DEF Writing
      <4>2. NodesIn(editor[e].sub)' = NodesIn(editor[e].sub)
        BY <2>1, <3>4 DEF NodesIn, Nodes
      <4>3. ~Duplicate(e)
        BY <2>3, <3>8 DEF Acceptable
      <4> QED
        BY <2>1, <3>3, <3>4, <3>5, <4>1, <4>2, <4>3 DEF NewUri, Duplicate
    <3> QED
      BY <3>7, <3>8
  <2> QED
    BY <2>2, <2>3
<1>4. ASSUME NEW e \in Editors, InsertNodes(e) PROVE NewUri'
  <2>1. /\ editor[e].at = "apply" /\ editor[e].op = "add" /\ copied' = copied /\ e \in Writing
        /\ InsertNode(editor[e].sub, editor[e].uri) /\ Goes(e, "count")
    BY <1>4 DEF InsertNodes, Writing
  <2>2. editor[e].sub \in SubIds /\ editor[e].uri \in NodeUris
    BY <1>a, <2>1 DEF Sound
  <2>3. /\ Nodes' = Nodes \cup {nodesBorn + 1} /\ nodesBorn + 1 \notin Nodes
        /\ mnode'[nodesBorn + 1] = [sub |-> editor[e].sub, uri |-> editor[e].uri]
        /\ \A n \in Nodes : mnode'[n] = mnode[n]
    BY <1>a, <2>1, <2>2, InsertNodeType
  <2>4. SUFFICES ASSUME ~copied
                 PROVE  /\ \A m, n \in Nodes' : mnode'[m] = mnode'[n] => m = n
                        /\ Writing' = {}
    BY <2>1 DEF NewUri
  <2>5. Writing = {e}
    BY <2>1, <2>4 DEF NewUri
  <2>6. Writing' = {}
    BY <1>a, <2>1, <2>5 DEF Writing, Goes, Requests
  <2>7. \A n \in Nodes : mnode[n] # mnode'[nodesBorn + 1]
    BY <1>a, <2>1, <2>3, <2>4 DEF NewUri, NodesIn
  <2>8. \A m, n \in Nodes : mnode[m] = mnode[n] => m = n
    BY <2>4 DEF NewUri
  <2> QED
    BY <2>3, <2>6, <2>7, <2>8
<1>5. ASSUME NEW e \in Editors, UpdateNode(e) PROVE NewUri'
  <2>0. editor[e].at = "apply" /\ editor[e].op = "update" /\ copied' = copied /\ e \in Writing
    BY <1>5 DEF UpdateNode, Writing
  <2>1. CASE editor[e].id \notin Nodes
    <3>1. Ends(e) /\ mnode' = mnode
      BY <1>5, <2>1 DEF UpdateNode
    <3> QED
      BY <1>c, <1>d, <2>0, <3>1
  <2>2. CASE editor[e].id \in Nodes
    <3> DEFINE row == [sub |-> editor[e].sub, uri |-> editor[e].uri]
    <3>1. mnode' = [mnode EXCEPT ![editor[e].id] = row] /\ Goes(e, "count")
      BY <1>5, <2>2 DEF UpdateNode
    <3>2. SUFFICES ASSUME ~copied
                   PROVE  /\ \A m, n \in Nodes' : mnode'[m] = mnode'[n] => m = n
                          /\ Writing' = {}
      BY <2>0 DEF NewUri
    <3>3. Writing = {e}
      BY <2>0, <3>2 DEF NewUri
    <3>4. Writing' = {}
      BY <1>a, <3>1, <3>3 DEF Writing, Goes, Requests
    <3>5. \A n \in Nodes : n # editor[e].id => mnode[n] # row
      BY <1>a, <2>0, <3>2 DEF NewUri, NodesIn
    <3>6. \A m, n \in Nodes : mnode[m] = mnode[n] => m = n
      BY <3>2 DEF NewUri
    <3>7. /\ Nodes' = Nodes /\ mnode'[editor[e].id] = row
          /\ \A n \in Nodes : n # editor[e].id => mnode'[n] = mnode[n]
      BY <1>a, <2>2, <3>1 DEF Nodes
    <3> HIDE DEF row
    <3> QED
      BY <3>4, <3>5, <3>6, <3>7
  <2> QED
    BY <2>1, <2>2
<1>6. ASSUME NEW e \in Editors, DeleteNode(e) PROVE NewUri'
  <2>1. /\ Ends(e) \/ Goes(e, "count")
        /\ copied' = copied
        /\ mnode' = mnode \/ mnode' = [n \in Nodes \ {editor[e].id} |-> mnode[n]]
    BY <1>6 DEF DeleteNode, Restrict
  <2>2. \A n \in Nodes' : n \in Nodes /\ mnode'[n] = mnode[n]
    BY <2>1 DEF Nodes
  <2> QED
    BY <1>d, <2>1, <2>2, NewUriKept
<1>7. ASSUME NEW e \in Editors, SyncMeta(e) \/ (\E t \in Wgs : ImportTunnel(e, t)) PROVE NewUri'
  <2>1. Ends(e) /\ UNCHANGED <<mnode, copied>>
    BY <1>7 DEF SyncMeta, ImportTunnel
  <2> QED
    BY <1>c, <1>d, <2>1
<1>8. ASSUME NEW e \in Editors, NEW u \in NodeUris, ImportUri(e, u) PROVE NewUri'
  BY <1>8 DEF ImportUri, NewUri
<1>9. ASSUME NEW t \in Wgs, TunnelRequest(t)
      PROVE  NewUri'
  <2>1. UNCHANGED <<mnode, copied, editor>>
    BY <1>9 DEF TunnelRequest, AssignActive, SetTunnelNodes, DeleteTunnel
  <2> QED
    BY <1>c, <2>1 DEF Like
<1>10. ASSUME NEW s \in SubIds, PutSubscription(s) \/ DeleteSubscription(s) PROVE NewUri'
  <2>1. UNCHANGED <<mnode, copied>> /\ \A d \in Editors : Like(editor'[d], editor[d])
    BY <1>10, <1>a DEF PutSubscription, DeleteSubscription, Like, Requests
  <2> QED
    BY <1>c, <2>1
<1>11. CASE ManualRestarts
  <2>1. UNCHANGED <<mnode, copied>> /\ editor' = [e \in Editors |-> Waiting]
    BY <1>11 DEF ManualRestarts
  <2> QED
    BY <1>b, <1>c, <2>1
<1>12. CASE UNCHANGED manualVars
  BY <1>c, <1>12 DEF manualVars, Like
<1> QED
  BY <1>1, <1>2, <1>3, <1>4, <1>5, <1>6, <1>7, <1>8, <1>9, <1>10, <1>11, <1>12
  DEF ManualNext, TunnelRequest, AddManualNode, UpdateManualNode, DeleteManualNode

\* A manual subscription never has a URI twice, for every number of requests and
\* nodes, unless two requests overlapped between look and write or a tunnel was
\* created from a URI: the loops over ListNodes compare with every other node.
THEOREM ManualUrisDistinctAlways == ManualSpec => []ManualUrisDistinct
<1>1. ManualInit => NewUri
  BY WaitingType DEF ManualInit, NewUri, Nodes, Writing
<1>2. NewUri => ManualUrisDistinct
  BY DEF NewUri, ManualUrisDistinct
<1> QED
  BY <1>1, <1>2, InitManualShape, NextManualShape, NextNewUri, PTL DEF ManualSpec

-----------------------------------------------------------------------------
(* node_count.                                                              *)

\* A request that runs by itself has counted the nodes as they still are.
CountsAlone ==
    \A e \in Editors : editor[e].alone =>
        /\ Busy(e) /\ \A d \in Editors \ {e} : ~Busy(d)
        /\ editor[e].at = "meta" => editor[e].count = Cardinality(NodesIn(editor[e].sub))

\* While a request e goes on, nobody else runs by himself.
LEMMA AloneKept ==
    ASSUME CountsAlone, NEW e \in Editors, Busy(e),
           \A d \in Editors \ {e} : Like(editor'[d], editor[d]),
           editor'[e].alone => editor[e].alone /\ editor'[e].at # "idle",
           editor'[e].alone /\ editor'[e].at = "meta" =>
               editor'[e].count = Cardinality(NodesIn(editor[e].sub)')
    PROVE  CountsAlone'
<1>1. \A d \in Editors \ {e} : ~editor'[d].alone
  BY DEF CountsAlone, Like
<1>2. editor'[e].alone => \A d \in Editors \ {e} : editor'[d].at = "idle"
  BY DEF CountsAlone, Like, Busy
<1>3. Cardinality(NodesIn(editor[e].sub)') = Cardinality(NodesIn(editor[e].sub))'
  OBVIOUS
<1> QED
  BY <1>1, <1>2, <1>3 DEF CountsAlone, Busy

\* Every step keeps what lone requests have counted.
LEMMA NextCountsAlone == ManualShape /\ CountsAlone /\ [ManualNext]_manualVars => CountsAlone'
<1> SUFFICES ASSUME ManualShape, CountsAlone, [ManualNext]_manualVars PROVE CountsAlone'
  OBVIOUS
<1>a. editor \in [Editors -> Requests]
  BY DEF ManualShape, ManualTypeOK, Requests
<1>b. Waiting \in Requests /\ Waiting.at = "idle" /\ ~Waiting.alone
  BY WaitingType
<1>c. ASSUME NEW e \in Editors, NEW r \in Requests, editor' = [editor EXCEPT ![e] = r], Busy(e),
             r.alone => editor[e].alone /\ r.at \notin {"idle", "meta"}
      PROVE  CountsAlone'
  <2>1. editor'[e] = r /\ \A d \in Editors \ {e} : Like(editor'[d], editor[d])
    BY <1>a, <1>c, Moves
  <2> QED
    BY <1>c, <2>1, AloneKept
<1>d. ASSUME NEW e \in Editors, Ends(e) \/ Goes(e, "count") \/ Goes(e, "apply"), Busy(e)
      PROVE  CountsAlone'
  <2> DEFINE r == editor'[e]
  <2>1. editor' = [editor EXCEPT ![e] = r] /\ r \in Requests
        /\ (r.alone => editor[e].alone /\ r.at \notin {"idle", "meta"})
    BY <1>a, <1>b, <1>d DEF Ends, Goes, Requests
  <2> QED
    BY <1>c, <1>d, <2>1
<1>e. ASSUME NEW e \in Editors, NEW r \in Requests, Begins(e, r), r.at \notin {"idle", "meta"}
      PROVE  CountsAlone'
  <2>1. /\ editor'[e] = [r EXCEPT !.alone = \A o \in Editors \ {e} : ~Busy(o)]
        /\ \A d \in Editors \ {e} : Like(editor'[d], editor[d]) /\ ~editor'[d].alone
    BY <1>a, <1>e, BeginsMoves
  <2>2. editor'[e].at = r.at /\ (editor'[e].alone => \A o \in Editors \ {e} : ~Busy(o))
    BY <2>1 DEF Requests
  <2>3. editor'[e].alone => \A d \in Editors \ {e} : editor'[d].at = "idle"
    BY <2>1, <2>2 DEF Like, Busy
  <2> QED
    BY <1>e, <2>1, <2>2, <2>3 DEF CountsAlone, Busy
<1>1. ASSUME NEW e \in Editors, NEW op \in {"add", "update", "delete"}, NEW n \in Nodes \cup {0},
             NEW u \in NodeUris \cup {NoUri}, EnsureManual(e, op, n, u)
      PROVE  CountsAlone'
  <2> DEFINE r == [Waiting EXCEPT !.op = op, !.id = n, !.uri = u,
                     !.at = IF Subs = {} THEN "create" ELSE "check",
                     !.sub = IF Subs = {} THEN 0 ELSE Min(Subs)]
  <2>1. n \in 0 .. MaxNodes
    BY ManualAssumption DEF ManualShape, ManualTypeOK
  <2>2. (IF Subs = {} THEN 0 ELSE Min(Subs)) \in 0 .. MaxSubs
    BY FirstSub, ManualAssumption DEF ManualShape, SubIds
  <2>3. r \in Requests /\ r.at \notin {"idle", "meta"}
    BY <1>b, <2>1, <2>2 DEF Requests
  <2>4. Begins(e, r)
    BY <1>1 DEF EnsureManual
  <2> HIDE DEF r
  <2> QED
    BY <1>e, <2>3, <2>4
<1>2. ASSUME NEW e \in Editors, EnsureCreate(e) PROVE CountsAlone'
  <2>1. /\ editor' = [editor EXCEPT ![e] = [editor[e] EXCEPT !.at = "check", !.sub = subsBorn + 1]]
        /\ editor[e].at = "create" /\ subsBorn < MaxSubs /\ editor[e] \in Requests
    BY <1>2, <1>a DEF EnsureCreate
  <2>2. subsBorn + 1 \in 0 .. MaxSubs
    BY <2>1, ManualAssumption DEF ManualShape, ManualTypeOK
  <2> DEFINE r == [editor[e] EXCEPT !.at = "check", !.sub = subsBorn + 1]
  <2>3. r \in Requests /\ r.at = "check" /\ r.alone = editor[e].alone /\ Busy(e)
    BY <2>1, <2>2 DEF Requests, Busy
  <2> HIDE DEF r
  <2> QED
    BY <1>c, <2>1, <2>3 DEF r
<1>3. ASSUME NEW e \in Editors,
             Check(e) \/ InsertNodes(e) \/ UpdateNode(e) \/ DeleteNode(e) \/ SyncMeta(e)
             \/ (\E t \in Wgs : ImportTunnel(e, t))
      PROVE  CountsAlone'
  <2>1. Busy(e)
    BY <1>3 DEF Check, InsertNodes, UpdateNode, DeleteNode, SyncMeta, ImportTunnel, Busy
  <2>2. Ends(e) \/ Goes(e, "count") \/ Goes(e, "apply")
    BY <1>3 DEF Check, InsertNodes, UpdateNode, DeleteNode, SyncMeta, ImportTunnel
  <2> QED
    BY <1>d, <2>1, <2>2
<1>4. ASSUME NEW e \in Editors, SyncCount(e) PROVE CountsAlone'
  <2> DEFINE r == [editor[e] EXCEPT !.at = "meta", !.count = Cardinality(NodesIn(editor[e].sub))]
  <2>1. editor' = [editor EXCEPT ![e] = r] /\ Busy(e) /\ mnode' = mnode
    BY <1>4, <1>a DEF SyncCount, Busy
  <2>2. Cardinality(NodesIn(editor[e].sub)) \in 0 .. MaxNodes
    BY CountType DEF ManualShape
  <2>3. /\ r \in Requests /\ r.at = "meta" /\ r.sub = editor[e].sub /\ r.alone = editor[e].alone
        /\ r.count = Cardinality(NodesIn(editor[e].sub))
    BY <1>a, <2>2 DEF Requests
  <2> HIDE DEF r
  <2>4. editor'[e] = r /\ \A d \in Editors \ {e} : Like(editor'[d], editor[d])
    BY <1>a, <2>1, <2>3, Moves
  <2>5. NodesIn(editor[e].sub)' = NodesIn(editor[e].sub)
    BY <2>1, <2>3, <2>4 DEF NodesIn, Nodes
  <2> QED
    BY <2>1, <2>3, <2>4, <2>5, AloneKept
<1>5. ASSUME NEW e \in Editors, NEW u \in NodeUris, ImportUri(e, u) PROVE CountsAlone'
  <2> DEFINE r == [Waiting EXCEPT !.op = "import", !.at = "find", !.uri = u]
  <2>1. r \in Requests /\ r.at = "find" /\ Begins(e, r)
    BY <1>b, <1>5 DEF Requests, ImportUri
  <2> HIDE DEF r
  <2> QED
    BY <1>e, <2>1
<1>6. CASE UNCHANGED <<editor, mnode>>
  BY <1>6 DEF CountsAlone, Busy, NodesIn, Nodes
<1>7. ASSUME NEW s \in SubIds, PutSubscription(s) PROVE CountsAlone'
  <2>1. \A d \in Editors : ~editor'[d].alone
    BY <1>7, <1>a DEF PutSubscription, Requests
  <2> QED
    BY <2>1 DEF CountsAlone
<1>8. CASE ManualRestarts
  BY <1>8, <1>b DEF ManualRestarts, CountsAlone
<1>9. ASSUME NEW t \in Wgs, TunnelRequest(t)
      PROVE  UNCHANGED <<editor, mnode>>
  BY <1>9 DEF TunnelRequest, AssignActive, SetTunnelNodes, DeleteTunnel
<1>10. ASSUME NEW s \in SubIds, DeleteSubscription(s) PROVE UNCHANGED <<editor, mnode>>
  BY <1>10 DEF DeleteSubscription
<1>11. CASE UNCHANGED manualVars
  BY <1>6, <1>11 DEF manualVars
<1>12. ASSUME NEW e \in Editors, NEW u \in NodeUris, AddManualNode(e, u) PROVE CountsAlone'
  BY <1>1, <1>12 DEF AddManualNode
<1>13. ASSUME NEW e \in Editors, NEW n \in Nodes, NEW u \in NodeUris, UpdateManualNode(e, n, u)
       PROVE  CountsAlone'
  BY <1>1, <1>13 DEF UpdateManualNode
<1>14. ASSUME NEW e \in Editors, NEW n \in Nodes, DeleteManualNode(e, n) PROVE CountsAlone'
  BY <1>1, <1>14 DEF DeleteManualNode
<1> QED
  BY <1>2, <1>3, <1>4, <1>5, <1>6, <1>7, <1>8, <1>9, <1>10, <1>11, <1>12, <1>13, <1>14
  DEF ManualNext, TunnelRequest

\* A subscription's id is not used before it exists, so a new one has no nodes;
\* a deleted one may have left some.
SubsKnown ==
    /\ held \in 1 .. subsBorn
    /\ \A n \in Nodes : mnode[n].sub \in 1 .. subsBorn
    /\ \A e \in Editors : editor[e].sub \in 0 .. subsBorn

\* The first one exists when the process starts.
LEMMA InitSubsKnown == ManualInit => SubsKnown
  BY WaitingType DEF ManualInit, SubsKnown, Nodes, Waiting

\* Every step stores ids that exist or have existed.
LEMMA NextSubsKnown == ManualShape /\ SubsKnown /\ [ManualNext]_manualVars => SubsKnown'
<1> SUFFICES ASSUME ManualShape, SubsKnown, [ManualNext]_manualVars PROVE SubsKnown'
  OBVIOUS
<1>a. /\ ManualTypeOK /\ editor \in [Editors -> Requests] /\ subsBorn \in Nat
      /\ Subs \subseteq 1 .. subsBorn
      /\ \A e \in Editors : Sound(editor[e])
      /\ mnode \in [Nodes -> [sub : SubIds, uri : NodeUris]]
  BY ManualAssumption DEF ManualShape, ManualTypeOK, Requests
<1>b. Waiting \in Requests /\ Waiting.sub = 0
  BY WaitingType DEF Waiting
<1>c. ASSUME UNCHANGED <<held, subsBorn>>,
             \A n \in Nodes' : n \in Nodes /\ mnode'[n].sub = mnode[n].sub,
             \A d \in Editors : editor'[d].sub \in {0, editor[d].sub}
      PROVE  SubsKnown'
  BY <1>a, <1>c DEF SubsKnown
<1>d. ASSUME NEW e \in Editors, Ends(e) \/ Goes(e, "count") \/ Goes(e, "apply")
      PROVE  \A d \in Editors : editor'[d].sub \in {0, editor[d].sub}
  BY <1>a, <1>b, <1>d DEF Ends, Goes, Requests
<1>e. ASSUME NEW s \in SubIds, s \in 1 .. subsBorn, NEW u \in NodeUris, InsertNode(s, u),
             UNCHANGED <<held, subsBorn>>,
             \A d \in Editors : editor'[d].sub \in {0, editor[d].sub}
      PROVE  SubsKnown'
  <2>1. /\ Nodes' = Nodes \cup {nodesBorn + 1}
        /\ mnode'[nodesBorn + 1] = [sub |-> s, uri |-> u] /\ \A n \in Nodes : mnode'[n] = mnode[n]
    BY <1>a, <1>e, InsertNodeType
  <2>2. \A n \in Nodes' : mnode'[n].sub \in 1 .. subsBorn
    BY <1>e, <2>1 DEF SubsKnown
  <2> QED
    BY <1>a, <1>e, <2>2 DEF SubsKnown
<1>f. Subs # {} => Min(Subs) \in 1 .. subsBorn
  BY <1>a, FirstSub, Zenon
<1>1. ASSUME NEW e \in Editors, NEW op, NEW n, NEW u, EnsureManual(e, op, n, u) PROVE SubsKnown'
  <2> DEFINE s == IF Subs = {} THEN 0 ELSE Min(Subs)
  <2>1. s \in 0 .. subsBorn
    BY <1>a, <1>f
  <2>2. /\ \A d \in Editors : editor'[d].sub \in {s, editor[d].sub}
        /\ UNCHANGED <<held, subsBorn, mnode>>
    BY <1>1, <1>a, <1>b DEF EnsureManual, Begins, Requests
  <2> HIDE DEF s
  <2> QED
    BY <1>a, <2>1, <2>2 DEF SubsKnown, Nodes
<1>2. ASSUME NEW e \in Editors, EnsureCreate(e) PROVE SubsKnown'
  <2>1. /\ subsBorn' = subsBorn + 1 /\ UNCHANGED <<held, mnode>>
        /\ \A d \in Editors : editor'[d].sub \in {subsBorn + 1, editor[d].sub}
    BY <1>2, <1>a DEF EnsureCreate, Requests
  <2> QED
    BY <1>a, <2>1 DEF SubsKnown, Nodes
<1>3. ASSUME NEW e \in Editors, Check(e) \/ SyncMeta(e) \/ (\E t \in Wgs : ImportTunnel(e, t))
      PROVE  SubsKnown'
  <2>1. (Ends(e) \/ Goes(e, "apply")) /\ UNCHANGED <<held, subsBorn, mnode>>
    BY <1>3 DEF Check, SyncMeta, ImportTunnel
  <2> QED
    BY <1>c, <1>d, <2>1 DEF Nodes
<1>4. ASSUME NEW e \in Editors, InsertNodes(e) PROVE SubsKnown'
  <2>1. editor[e].sub \in SubIds /\ editor[e].uri \in NodeUris
    BY <1>a, <1>4 DEF InsertNodes, Sound
  <2>2. editor[e].sub \in 1 .. subsBorn
    BY <1>a, <2>1, ManualAssumption DEF SubsKnown, SubIds
  <2> QED
    BY <1>4, <1>d, <1>e, <2>1, <2>2 DEF InsertNodes
<1>5. ASSUME NEW e \in Editors, UpdateNode(e) PROVE SubsKnown'
  <2>1. /\ Ends(e) \/ Goes(e, "count")
        /\ UNCHANGED <<held, subsBorn>>
        /\ \/ mnode' = mnode
           \/ mnode' = [mnode EXCEPT ![editor[e].id] = [sub |-> editor[e].sub, uri |-> editor[e].uri]]
    BY <1>5 DEF UpdateNode
  <2>2. editor[e].id \in Nodes => mnode[editor[e].id].sub = editor[e].sub
    BY <1>a, <1>5 DEF UpdateNode, Sound
  <2>3. \A n \in Nodes' : n \in Nodes /\ mnode'[n].sub = mnode[n].sub
    BY <1>a, <2>1, <2>2 DEF Nodes
  <2> QED
    BY <1>c, <1>d, <2>1, <2>3
<1>6. ASSUME NEW e \in Editors, DeleteNode(e) PROVE SubsKnown'
  <2>1. /\ Ends(e) \/ Goes(e, "count")
        /\ UNCHANGED <<held, subsBorn>>
        /\ mnode' = mnode \/ mnode' = [n \in Nodes \ {editor[e].id} |-> mnode[n]]
    BY <1>6 DEF DeleteNode, Restrict
  <2>2. \A n \in Nodes' : n \in Nodes /\ mnode'[n].sub = mnode[n].sub
    BY <2>1 DEF Nodes
  <2> QED
    BY <1>c, <1>d, <2>1, <2>2
<1>7. ASSUME NEW e \in Editors, SyncCount(e) PROVE SubsKnown'
  <2>1. UNCHANGED <<held, subsBorn, mnode>> /\ \A d \in Editors : editor'[d].sub = editor[d].sub
    BY <1>7, <1>a DEF SyncCount, Requests
  <2> QED
    BY <1>c, <2>1 DEF Nodes
<1>8. ASSUME NEW e \in Editors, NEW u \in NodeUris, ImportUri(e, u) PROVE SubsKnown'
  <2>1. /\ InsertNode(held, u) /\ UNCHANGED <<held, subsBorn>>
        /\ \A d \in Editors : editor'[d].sub \in {0, editor[d].sub}
    BY <1>8, <1>a, <1>b DEF ImportUri, Begins, Requests
  <2>2. held \in SubIds /\ held \in 1 .. subsBorn
    BY <1>a DEF ManualTypeOK, SubsKnown
  <2> QED
    BY <1>e, <2>1, <2>2
<1>9. ASSUME NEW s \in SubIds, PutSubscription(s) \/ DeleteSubscription(s) PROVE SubsKnown'
  <2>1. UNCHANGED <<held, subsBorn, mnode>> /\ \A d \in Editors : editor'[d].sub = editor[d].sub
    BY <1>9, <1>a DEF PutSubscription, DeleteSubscription, Requests
  <2> QED
    BY <1>c, <2>1 DEF Nodes
<1>10. ASSUME NEW t \in Wgs, TunnelRequest(t) PROVE SubsKnown'
  <2>1. UNCHANGED <<held, subsBorn, mnode, editor>>
    BY <1>10 DEF TunnelRequest, AssignActive, SetTunnelNodes, DeleteTunnel
  <2> QED
    BY <1>c, <2>1 DEF Nodes
<1>11. CASE ManualRestarts
  <2>1. mnode' = mnode /\ \A d \in Editors : editor'[d].sub = 0
    BY <1>11, <1>b DEF ManualRestarts
  <2>2. subsBorn' \in Nat /\ subsBorn <= subsBorn' /\ held' \in 1 .. subsBorn'
    BY <1>11, <1>a, <1>f DEF ManualRestarts, SubsKnown
  <2> QED
    BY <1>a, <2>1, <2>2 DEF SubsKnown, Nodes
<1>12. CASE UNCHANGED manualVars
  BY <1>c, <1>12 DEF manualVars, Nodes
<1> QED
  BY <1>1, <1>2, <1>3, <1>4, <1>5, <1>6, <1>7, <1>8, <1>9, <1>10, <1>11, <1>12
  DEF ManualNext, TunnelRequest, AddManualNode, UpdateManualNode, DeleteManualNode

\* A count is right that neither changes nor has its nodes changed.
LEMMA CountsKept ==
    ASSUME CountRepaired,
           \A s \in Subs' \cap sure' :
               s \in Subs \cap sure /\ msub'[s] = msub[s] /\ NodesIn(s)' = NodesIn(s)
    PROVE  CountRepaired'
  BY DEF CountRepaired

\* Every step keeps the counts of these subscriptions right.
LEMMA NextCountRepaired ==
    ManualShape /\ SubsKnown /\ CountsAlone /\ CountRepaired /\ [ManualNext]_manualVars
        => CountRepaired'
<1> SUFFICES ASSUME ManualShape, SubsKnown, CountsAlone, CountRepaired, [ManualNext]_manualVars
             PROVE  CountRepaired'
  OBVIOUS
<1>a. /\ ManualTypeOK /\ editor \in [Editors -> Requests] /\ ManualNoDangling
      /\ \A e \in Editors : Sound(editor[e])
      /\ msub \in [Subs -> 0 .. MaxNodes] /\ mnode \in [Nodes -> [sub : SubIds, uri : NodeUris]]
  BY DEF ManualShape, ManualTypeOK, Requests
<1>b. CASE UNCHANGED <<msub, mnode, sure>>
  <2>1. \A s : NodesIn(s)' = NodesIn(s)
    BY <1>b DEF NodesIn, Nodes
  <2> QED
    BY <1>b, <2>1, CountsKept DEF Subs
<1>c. ASSUME subsBorn < MaxSubs, msub' = NewSub, subsBorn' = subsBorn + 1,
             sure' = sure \cup {subsBorn + 1}, mnode' = mnode
      PROVE  CountRepaired'
  <2>1. /\ Subs' = Subs \cup {subsBorn + 1} /\ subsBorn + 1 \notin Subs
        /\ msub'[subsBorn + 1] = 0 /\ \A s \in Subs : msub'[s] = msub[s]
    BY <1>a, <1>c, NewSubType
  <2>2. \A s : NodesIn(s)' = NodesIn(s)
    BY <1>c DEF NodesIn, Nodes
  <2>3. NodesIn(subsBorn + 1) = {}
    <3>1. subsBorn \in Nat
      BY <1>a, ManualAssumption DEF ManualTypeOK
    <3>2. subsBorn + 1 \notin 1 .. subsBorn
      BY <3>1
    <3> QED BY <3>2 DEF NodesIn, SubsKnown
  <2>4. Cardinality(NodesIn(subsBorn + 1)) = 0
    BY <2>3, FS_EmptySet
  <2>5. \A s \in Subs' \cap sure' : s \in Subs \cap sure \/ s = subsBorn + 1
    BY <1>c, <2>1
  <2>6. \A s \in Subs \cap sure : msub'[s] = Cardinality(NodesIn(s))
    BY <2>1 DEF CountRepaired
  <2>7. \A s \in Subs' \cap sure' : msub'[s] = Cardinality(NodesIn(s))
    BY <2>1, <2>4, <2>5, <2>6
  <2> QED
    BY <2>2, <2>7 DEF CountRepaired
<1>d. ASSUME NEW s \in SubIds, NEW u \in NodeUris, InsertNode(s, u),
             sure' = sure \ {s}, msub' = msub
      PROVE  CountRepaired'
  <2>1. /\ Nodes' = Nodes \cup {nodesBorn + 1} /\ nodesBorn + 1 \notin Nodes
        /\ mnode'[nodesBorn + 1] = [sub |-> s, uri |-> u] /\ \A n \in Nodes : mnode'[n] = mnode[n]
    BY <1>a, <1>d, InsertNodeType
  <2>2. mnode'[nodesBorn + 1].sub = s
    BY <2>1
  <2>3. \A x : x # s => NodesIn(x)' = NodesIn(x)
    BY <2>1, <2>2 DEF NodesIn
  <2> QED
    BY <1>d, <2>3, CountsKept DEF Subs
<1>2. ASSUME NEW e \in Editors, EnsureCreate(e) PROVE CountRepaired'
  BY <1>2, <1>c DEF EnsureCreate
<1>4. ASSUME NEW e \in Editors, InsertNodes(e) PROVE CountRepaired'
  <2>1. editor[e].sub \in SubIds /\ editor[e].uri \in NodeUris
    BY <1>a, <1>4 DEF InsertNodes, Sound
  <2> QED
    BY <1>4, <1>d, <2>1 DEF InsertNodes
<1>5. ASSUME NEW e \in Editors, UpdateNode(e) PROVE CountRepaired'
  <2>1. CASE editor[e].id \notin Nodes
    BY <1>5, <1>b, <2>1 DEF UpdateNode
  <2>2. CASE editor[e].id \in Nodes
    <3> DEFINE row == [sub |-> editor[e].sub, uri |-> editor[e].uri]
    <3>1. /\ mnode' = [mnode EXCEPT ![editor[e].id] = row]
          /\ sure' = sure \ {editor[e].sub} /\ msub' = msub
      BY <1>5, <2>2 DEF UpdateNode
    <3>2. mnode[editor[e].id].sub = editor[e].sub
      BY <1>a, <1>5, <2>2 DEF UpdateNode, Sound
    <3>3. Nodes' = Nodes /\ \A n \in Nodes : mnode'[n].sub = mnode[n].sub
      BY <1>a, <3>1, <3>2 DEF Nodes
    <3>4. \A s : NodesIn(s)' = NodesIn(s)
      BY <3>3 DEF NodesIn
    <3> QED
      BY <3>1, <3>4, CountsKept DEF Subs
  <2> QED
    BY <2>1, <2>2
<1>6. ASSUME NEW e \in Editors, DeleteNode(e) PROVE CountRepaired'
  <2>1. CASE ~Deletable(editor[e].id)
    BY <1>6, <1>b, <2>1 DEF DeleteNode
  <2>2. CASE Deletable(editor[e].id)
    <3>1. /\ mnode' = [n \in Nodes \ {editor[e].id} |-> mnode[n]]
          /\ sure' = sure \ {editor[e].sub} /\ msub' = msub
      BY <1>6, <2>2 DEF DeleteNode, Restrict
    <3>2. mnode[editor[e].id].sub = editor[e].sub
      BY <1>a, <1>6, <2>2 DEF DeleteNode, Sound, Deletable
    <3>3. Nodes' = Nodes \ {editor[e].id} /\ \A n \in Nodes' : mnode'[n] = mnode[n]
      BY <3>1 DEF Nodes
    <3>4. \A s : s # editor[e].sub => NodesIn(s)' = NodesIn(s)
      BY <3>2, <3>3 DEF NodesIn
    <3> QED
      BY <3>1, <3>4, CountsKept DEF Subs
  <2> QED
    BY <2>1, <2>2
<1>8. ASSUME NEW e \in Editors, SyncMeta(e) PROVE CountRepaired'
  <2>1. /\ editor[e].at = "meta" /\ mnode' = mnode
        /\ sure' = IF editor[e].alone /\ editor[e].sub \in Subs
                   THEN sure \cup {editor[e].sub} ELSE sure \ {editor[e].sub}
        /\ msub' = IF editor[e].sub \in Subs
                   THEN [msub EXCEPT ![editor[e].sub] = editor[e].count] ELSE msub
    BY <1>8 DEF SyncMeta
  <2>2. \A s : NodesIn(s)' = NodesIn(s)
    BY <2>1 DEF NodesIn, Nodes
  <2>3. Subs' = Subs
    BY <1>a, <2>1 DEF Subs
  <2>4. \A s \in Subs : s # editor[e].sub => msub'[s] = msub[s]
    BY <1>a, <2>1
  <2>5. editor[e].sub \in Subs /\ editor[e].alone =>
            msub'[editor[e].sub] = Cardinality(NodesIn(editor[e].sub))
    BY <1>a, <2>1 DEF CountsAlone
  <2>6. \A s \in Subs' \cap sure' : msub'[s] = Cardinality(NodesIn(s))
    BY <2>1, <2>3, <2>4, <2>5 DEF CountRepaired
  <2> QED
    BY <2>2, <2>6 DEF CountRepaired
<1>9. ASSUME NEW e \in Editors, NEW u \in NodeUris, ImportUri(e, u) PROVE CountRepaired'
  <2>1. held \in SubIds
    BY <1>a DEF ManualTypeOK
  <2> QED
    BY <1>9, <1>d, <2>1 DEF ImportUri
<1>12. ASSUME NEW s \in SubIds, PutSubscription(s) PROVE CountRepaired'
  <2>1. msub' = [msub EXCEPT ![s] = 0] /\ sure' = sure \ {s} /\ mnode' = mnode
    BY <1>12 DEF PutSubscription
  <2>2. \A x : NodesIn(x)' = NodesIn(x)
    BY <2>1 DEF NodesIn, Nodes
  <2>3. Subs' = Subs /\ \A x \in Subs \ {s} : msub'[x] = msub[x]
    BY <1>a, <2>1 DEF Subs
  <2> QED
    BY <2>1, <2>2, <2>3, CountsKept
<1>13. ASSUME NEW s \in SubIds, DeleteSubscription(s) PROVE CountRepaired'
  <2>1. msub' = [x \in Subs \ {s} |-> msub[x]] /\ sure' = sure \ {s} /\ mnode' = mnode
    BY <1>13 DEF DeleteSubscription, Restrict
  <2>2. \A x : NodesIn(x)' = NodesIn(x)
    BY <2>1 DEF NodesIn, Nodes
  <2>3. Subs' = Subs \ {s} /\ \A x \in Subs' : msub'[x] = msub[x]
    BY <1>a, <2>1 DEF Subs
  <2> QED
    BY <2>1, <2>2, <2>3, CountsKept
<1>14. CASE ManualRestarts
  <2>1. CASE Subs # {}
    BY <1>14, <1>b, <2>1 DEF ManualRestarts
  <2>2. CASE Subs = {}
    <3>1. /\ subsBorn < MaxSubs /\ msub' = NewSub /\ subsBorn' = subsBorn + 1
          /\ sure' = sure \cup {subsBorn'} /\ mnode' = mnode
      BY <1>14, <2>2 DEF ManualRestarts
    <3> QED
      BY <1>c, <3>1
  <2> QED
    BY <2>1, <2>2
<1>15. ASSUME NEW e \in Editors,
              Check(e) \/ SyncCount(e) \/ (\E t \in Wgs : ImportTunnel(e, t))
              \/ (\E u \in NodeUris : AddManualNode(e, u))
              \/ (\E n \in Nodes, u \in NodeUris : UpdateManualNode(e, n, u))
              \/ (\E n \in Nodes : DeleteManualNode(e, n))
       PROVE  UNCHANGED <<msub, mnode, sure>>
  BY <1>15 DEF Check, SyncCount, ImportTunnel, AddManualNode, UpdateManualNode,
     DeleteManualNode, EnsureManual
<1>16. ASSUME NEW t \in Wgs, TunnelRequest(t)
       PROVE  UNCHANGED <<msub, mnode, sure>>
  BY <1>16 DEF TunnelRequest, AssignActive, SetTunnelNodes, DeleteTunnel
<1>17. CASE UNCHANGED manualVars
  BY <1>b, <1>17 DEF manualVars
<1> QED
  BY <1>b, <1>2, <1>4, <1>5, <1>6, <1>8, <1>9, <1>12, <1>13, <1>14, <1>15, <1>16, <1>17
  DEF ManualNext, TunnelRequest

\* node_count is right after a request that ran by itself, for every number of
\* subscriptions, nodes and requests: syncManualSubscriptionMeta counts what is
\* there, whatever went wrong before.
THEOREM CountRepairedAlways == ManualSpec => []CountRepaired
<1>1. ManualInit => CountsAlone
  BY WaitingType DEF ManualInit, CountsAlone
<1>2. ManualInit => CountRepaired
  <2> SUFFICES ASSUME ManualInit PROVE CountRepaired
    OBVIOUS
  <2>1. Nodes = {} /\ Subs = {1} /\ msub[1] = 0
    BY DEF ManualInit, Nodes, Subs
  <2>2. NodesIn(1) = {}
    BY <2>1 DEF NodesIn
  <2> QED
    BY <2>1, <2>2, FS_EmptySet DEF CountRepaired
<1> QED
  BY <1>1, <1>2, InitManualShape, NextManualShape, InitSubsKnown, NextSubsKnown,
     NextCountsAlone, NextCountRepaired, PTL DEF ManualSpec
-----------------------------------------------------------------------------
(* The four together.                                                       *)

\* A step of the whole is a step of each part, or leaves it alone.
LEMMA EachPart == Spec => PeersSpec /\ TrafficSpec /\ ManualSpec /\ XraySpec
<1>1. Init => PeersInit /\ TrafficInit /\ ManualInit /\ XrayInit
  BY DEF Init
<1> USE DEF Next, OfPeers, OfTraffic, OfManual, OfXray, vars
<1>2. [Next]_vars => [PeersNext]_peerVars
  OBVIOUS
<1>3. [Next]_vars => [TrafficNext]_trafficVars
  OBVIOUS
<1>4. [Next]_vars => [ManualNext]_manualVars
  OBVIOUS
<1>5. [Next]_vars => [XrayNext]_xrayVars
  OBVIOUS
<1> QED
  BY <1>1, <1>2, <1>3, <1>4, <1>5, PTL DEF Spec, PeersSpec, TrafficSpec, ManualSpec, XraySpec

\* Every variable of the four parts keeps its type, for any number of peers,
\* requests, bytes and nodes: no counter, total or rate is ever negative, and
\* none exceeds the bytes transferred.
THEOREM TablesTypesAlways == Spec => []TablesTypeOK
<1>1. ManualShape => ManualTypeOK
  BY DEF ManualShape
<1>2. ManualSpec => []ManualTypeOK
  BY <1>1, InitManualShape, NextManualShape, PTL DEF ManualSpec
<1>3. PeersTypeOK /\ TrafficTypeOK /\ ManualTypeOK /\ XrayTypeOK <=> TablesTypeOK
  BY DEF TablesTypeOK
<1> QED
  BY <1>2, <1>3, EachPart, PeerTypesAlways, TrafficTypesAlways, XrayTypesAlways, PTL
=============================================================================
