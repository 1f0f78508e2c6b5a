------------------------------- MODULE Peers -------------------------------
(***************************************************************************)
(* The peers of one tunnel: the rows of wg_peers and the copies of them in *)
(* the WireGuard device.  The handlers of requests interleave; the tunnel  *)
(* stops and starts and the server restarts between any two of their       *)
(* steps.  A request's context may end before each of its reads, and the   *)
(* rows are whatever a caller wrote: neither POST nor PUT looks whether a  *)
(* public key or a list of addresses parses.  A peer is named by its id;   *)
(* ids grow and are not reused.  (Two overlapping Starts and Stops are     *)
(* TunnelLifecycle's; preshared keys are left out.)                        *)
(***************************************************************************)
EXTENDS Naturals, FiniteSets, FiniteSetsExt

CONSTANTS
    MaxPeers,             \* bound: peers ever created
    MaxOdd,               \* bound: rows at one time that are not as POST fills them in
    PutConfigs,           \* bound: what a PUT writes, of Configs
    Clients,              \* requests in progress at the same time
    FirstAddr, LastAddr   \* host numbers to hand out (2 and 254)

\* A row's allowed_ips are 0.0.0.0/0 or the peer's own address, or do not parse;
\* or its public_key does not.
Routed == {"all", "own"}
Configs == Routed \cup {"badIPs", "badKey"}

ASSUME PeersAssumption ==
    /\ PutConfigs \subseteq Configs
    /\ MaxPeers \in Nat /\ MaxOdd \in Nat /\ IsFiniteSet(Clients)
    /\ FirstAddr \in Nat /\ LastAddr \in Nat /\ FirstAddr <= LastAddr

VARIABLES
    born,        \* peers created so far
    addr,        \* client_address of the rows there are, by id
    conf,        \* what the row gives the device
    tunnel,      \* how far Start and Stop are
    startList,   \* the peers Start has read for the device it builds
    device,      \* the peers of the device
    client,      \* requests
    crossed,     \* history: the device's list is out of date by another's write
    missed,      \* history: a request's reload did not come about
    shared       \* history: an address was chosen by hand, or by two at once

peerVars == <<born, addr, conf, tunnel, startList, device, client, crossed, missed, shared>>

PeerIds == 1 .. MaxPeers
Addrs == FirstAddr .. LastAddr
Rows == DOMAIN addr

\* Bound: another row than p may be given w.
Room(p, w) == w = "all" \/ Cardinality({q \in Rows \ {p} : conf[q] # "all"}) < MaxOdd

\* Start: the peers are read, the device is made, the tunnel is marked running;
\* Stop: the device is destroyed, the mark is cleared.
TunnelStates == {"stopped", "starting", "made", "running", "stopping"}
building == tunnel \in {"starting", "made"}
marked == tunnel \in {"running", "stopping"}      \* IsRunning
hasDevice == tunnel \in {"made", "running"}       \* the manager's map has the tunnel
up == tunnel = "running"

Resting == [at |-> "idle", addr |-> FirstAddr, list |-> {}]

PeersTypeOK ==
    /\ born \in 0 .. MaxPeers
    /\ Rows \subseteq 1 .. born
    /\ addr \in [Rows -> Addrs] /\ conf \in [Rows -> Configs]
    /\ tunnel \in TunnelStates
    /\ device \subseteq (1 .. born) \X Configs /\ startList \subseteq (1 .. born) \X Configs
    /\ client \in [Clients -> [at : {"idle", "insert", "posted", "deleted", "reload"},
                              addr : Addrs, list : SUBSET (PeerIds \X Configs)]]
    /\ crossed \in BOOLEAN /\ missed \in BOOLEAN /\ shared \in BOOLEAN

PeersInit ==
    /\ born = 0 /\ addr = <<>> /\ conf = <<>>
    /\ tunnel = "stopped" /\ startList = {} /\ device = {}
    /\ client = [c \in Clients |-> Resting]
    /\ crossed = FALSE /\ missed = FALSE /\ shared = FALSE

Rest(c) == client' = [client EXCEPT ![c] = Resting]

\* ListByInterface.
Listed == {<<p, conf[p]>> : p \in Rows}

\* buildIPC refuses a list with an unparsable key.
Unbuildable(list) == \E e \in list : e[2] = "badKey"

\* IpcSet, which starts with replace_peers, stops at the first line it cannot
\* parse, after the peers before it and that peer itself.
Applied(list) == {e \in list : \A f \in list : f[2] = "badIPs" => e[1] <= f[1]}

\* The writes of a request: a tunnel that is being started is not told of them.
Written == crossed' = (crossed \/ building)

-----------------------------------------------------------------------------
(* POST /tunnels/:id/peers *)

Used == {addr[p] : p \in Rows}

\* Mutation of NextClientIP: the number after the number of peers.
NextClientIPByCount == FirstAddr + Cardinality(Rows)

NextClientIP == Min(Addrs \ Used)

\* The address is chosen, by NextClientIP or by the caller.
CreateBegin(c, a) ==
    /\ client[c].at = "idle"
    /\ born + Cardinality({d \in Clients : client[d].at = "insert"}) < MaxPeers
    /\ client' = [client EXCEPT ![c] = [Resting EXCEPT !.at = "insert", !.addr = a]]
    /\ shared' = (shared \/ Addrs \ Used = {} \/ a # NextClientIP
                         \/ \E d \in Clients : client[d].at = "insert")
    /\ UNCHANGED <<born, addr, conf, tunnel, startList, device, crossed, missed>>

\* Mutation of CreateInsert: the new row's id is not taken out of use.
CreateInsertTwice(c, w) ==
    /\ client[c].at = "insert" /\ Room(born + 1, w)
    /\ born' = born
    /\ addr' = [p \in Rows \cup {born + 1} |-> IF p \in Rows THEN addr[p] ELSE client[c].addr]
    /\ conf' = [p \in Rows \cup {born + 1} |-> IF p \in Rows THEN conf[p] ELSE w]
    /\ client' = [client EXCEPT ![c] = [Resting EXCEPT !.at = "posted"]]
    /\ Written
    /\ UNCHANGED <<tunnel, startList, device, missed, shared>>

\* The row, with the caller's public key as it is (w: whether it parses).
CreateInsert(c, w) ==
    /\ client[c].at = "insert" /\ Room(born + 1, w)
    /\ born' = born + 1
    /\ addr' = [p \in Rows \cup {born + 1} |-> IF p \in Rows THEN addr[p] ELSE client[c].addr]
    /\ conf' = [p \in Rows \cup {born + 1} |-> IF p \in Rows THEN conf[p] ELSE w]
    /\ client' = [client EXCEPT ![c] = [Resting EXCEPT !.at = "posted"]]
    /\ Written
    /\ UNCHANGED <<tunnel, startList, device, missed, shared>>

\* After the row, if the tunnel runs, the peers are listed; POST goes on with
\* none when that fails and the tunnel's own row can be read.
ReloadList(c, list) ==
    /\ client[c].at \in {"posted", "deleted"}
    /\ list = Listed \/ (client[c].at = "posted" /\ list = {})
    /\ IF marked
         THEN client' = [client EXCEPT ![c] = [Resting EXCEPT !.at = "reload", !.list = list]]
         ELSE Rest(c)
    /\ UNCHANGED <<born, addr, conf, tunnel, startList, device, crossed, missed, shared>>

\* The request's context ends, or a read fails: before the row nothing has
\* happened, after it the reload is left out.
GiveUp(c) ==
    /\ client[c].at \in {"insert", "posted", "deleted"}
    /\ missed' = (missed \/ (client[c].at # "insert" /\ (building \/ up)))
    /\ Rest(c)
    /\ UNCHANGED <<born, addr, conf, tunnel, startList, device, crossed, shared>>

\* Manager.ReloadPeers.  POST looks at no error of it, DELETE returns it.
Reload(c) ==
    /\ client[c].at = "reload"
    /\ LET list == client[c].list
       IN  \/ ~hasDevice /\ UNCHANGED <<device, crossed, missed>>
           \/ /\ hasDevice /\ Unbuildable(list)
              /\ missed' = TRUE /\ UNCHANGED <<device, crossed>>
           \/ /\ hasDevice /\ ~Unbuildable(list)
              /\ device' = Applied(list)
              /\ missed' = (\E e \in list : e[2] = "badIPs")
              /\ crossed' = (list # Listed)
    /\ Rest(c)
    /\ UNCHANGED <<born, addr, conf, tunnel, startList, shared>>

-----------------------------------------------------------------------------
(* DELETE and PUT /tunnels/:id/peers/:pid *)

\* Mutation of DeletePeer: the device is left alone.
DeletePeerOnly(c, p) ==
    /\ client[c].at = "idle" /\ p \in Rows
    /\ addr' = [q \in Rows \ {p} |-> addr[q]]
    /\ conf' = [q \in Rows \ {p} |-> conf[q]]
    /\ Written
    /\ UNCHANGED <<born, tunnel, startList, device, client, missed, shared>>

DeletePeer(c, p) ==
    /\ client[c].at = "idle" /\ p \in Rows
    /\ addr' = [q \in Rows \ {p} |-> addr[q]]
    /\ conf' = [q \in Rows \ {p} |-> conf[q]]
    /\ client' = [client EXCEPT ![c].at = "deleted"]
    /\ Written
    /\ UNCHANGED <<born, tunnel, startList, device, missed, shared>>

\* The body replaces the row, unchecked; the device is not told.  (A new address
\* is an address chosen by the caller, as in CreateBegin, and is left out here.)
PutPeer(p, w) ==
    /\ p \in Rows /\ conf[p] # w /\ Room(p, w)
    /\ conf' = [conf EXCEPT ![p] = w]
    /\ crossed' = (crossed \/ building \/ up)
    /\ UNCHANGED <<born, addr, tunnel, startList, device, client, missed, shared>>

-----------------------------------------------------------------------------
(* The tunnel *)

\* Start reads the rows.
StartReads ==
    /\ tunnel = "stopped" /\ tunnel' = "starting"
    /\ startList' = Listed
    /\ UNCHANGED <<born, addr, conf, device, client, crossed, missed, shared>>

\* Manager.Create, which fails on a list it cannot configure whole.
StartCreates ==
    /\ tunnel = "starting" /\ tunnel' = "made"
    /\ \A e \in startList : e[2] \in Routed
    /\ device' = startList /\ startList' = {}
    /\ UNCHANGED <<born, addr, conf, client, crossed, missed, shared>>

StartMarks ==
    /\ tunnel = "made" /\ tunnel' = "running"
    /\ UNCHANGED <<born, addr, conf, startList, device, client, crossed, missed, shared>>

\* A Start that fails and is rolled back.
StartFails ==
    /\ building /\ tunnel' = "stopped"
    /\ startList' = {} /\ device' = {} /\ crossed' = FALSE /\ missed' = FALSE
    /\ UNCHANGED <<born, addr, conf, client, shared>>

StopDestroys ==
    /\ tunnel = "running" /\ tunnel' = "stopping"
    /\ device' = {} /\ crossed' = FALSE /\ missed' = FALSE
    /\ UNCHANGED <<born, addr, conf, startList, client, shared>>

StopClears ==
    /\ tunnel = "stopping" /\ tunnel' = "stopped"
    /\ UNCHANGED <<born, addr, conf, startList, device, client, crossed, missed, shared>>

\* Requests in progress end with the process; the rows stay.
ServerRestarts ==
    /\ tunnel' = "stopped"
    /\ startList' = {} /\ device' = {} /\ crossed' = FALSE /\ missed' = FALSE
    /\ client' = [c \in Clients |-> Resting]
    /\ UNCHANGED <<born, addr, conf, shared>>

TunnelNext ==
    \/ StartReads \/ StartCreates \/ StartMarks \/ StartFails
    \/ StopDestroys \/ StopClears \/ ServerRestarts

PeersNext ==
    \/ \E c \in Clients :
        \/ \E a \in Addrs : CreateBegin(c, a)
        \/ \E w \in {"all", "badKey"} : CreateInsert(c, w)
        \/ \E list \in {Listed, {}} : ReloadList(c, list)
        \/ GiveUp(c) \/ Reload(c)
        \/ \E p \in PeerIds : DeletePeer(c, p)
    \/ \E p \in PeerIds, w \in PutConfigs : PutPeer(p, w)
    \/ TunnelNext

PeersSpec == PeersInit /\ [][PeersNext]_peerVars

-----------------------------------------------------------------------------
(* Properties *)

\* Once the requests are served a running tunnel's device has the peers of the
\* table, whatever was created, deleted, stopped or started in which order.
\* Two things the code does not prevent are excepted until the device is given
\* a list again.  crossed: another request wrote the table between a request's
\* list and its reload, a write came while Start was building the device, a PUT
\* changed a row, or POST's list failed.  missed: a request's context ended
\* after its row was written, or its list held a peer whose key or addresses do
\* not parse, so that the device kept its old list or got a part.
DeviceFollowsTable ==
    up /\ ~crossed /\ ~missed /\ (\A c \in Clients : client[c].at = "idle") => device = Listed

\* Addresses handed out are distinct, whatever was deleted and created before;
\* two requests at the same time, or a caller's own choice, may collide.
DistinctAddresses == ~shared => \A p, q \in Rows : addr[p] = addr[q] => p = q

\* The allowed_ip table of a device: a prefix belongs to one peer, the last one
\* configured with it, and the longest prefix of an address counts.
Owner(a) ==
    LET own == {p \in Rows : <<p, "own">> \in device /\ addr[p] = a}
        all == {p \in PeerIds : <<p, "all">> \in device}
    IN  IF own # {} THEN Max(own) ELSE IF all # {} THEN Max(all) ELSE 0

\* The device takes the packets of every peer it has: the peer's address is
\* routed to the peer.
EveryPeerServed ==
    up /\ ~crossed /\ ~missed /\ ~shared =>
        \A p \in Rows : (\E prefix \in Routed : <<p, prefix>> \in device) => Owner(addr[p]) = p
=============================================================================
