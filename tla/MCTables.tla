------------------------------ MODULE MCTables ------------------------------
(***************************************************************************)
(* Four parts that work on different rows: a tunnel's peers, a peer's      *)
(* counters, the manual nodes, and a tunnel's xray configuration.  As in   *)
(* MCServices `part` chooses the one that is explored.                     *)
(***************************************************************************)
EXTENDS Peers, Traffic, ManualNodes, XrayConfig, TLC

VARIABLE part

vars == <<part, peerVars, trafficVars, manualVars, xrayVars>>

\* One node as most are, one with a flow, and one whose names are not known.
SomeNodes ==
    {[flow |-> "", encryption |-> "", network |-> "tcp", security |-> "reality"],
     [flow |-> "xtls-rprx-vision", encryption |-> "none",
      network |-> "tcp", security |-> "tls"],
     [flow |-> "", encryption |-> "", network |-> "quic", security |-> "xtls"]}

\* Lists of up to three different nodes.
SomeLists ==
    UNION {{l \in [1 .. n -> SomeNodes] : \A i, j \in 1 .. n : l[i] = l[j] => i = j} : n \in 0 .. 3}

OfPeers(A) == part = "peers" /\ A /\ UNCHANGED <<part, trafficVars, manualVars, xrayVars>>
OfTraffic(A) == part = "traffic" /\ A /\ UNCHANGED <<part, peerVars, manualVars, xrayVars>>
OfManual(A) == part = "manual" /\ A /\ UNCHANGED <<part, peerVars, trafficVars, xrayVars>>
OfXray(A) == part = "xray" /\ A /\ UNCHANGED <<part, peerVars, trafficVars, manualVars>>

Init ==
    /\ part \in {"peers", "traffic", "manual", "xray"}
    /\ PeersInit /\ TrafficInit /\ ManualInit
    /\ XrayInit /\ (part # "xray" => rows = <<>> /\ strategy = "roundRobin" /\ ~gateway)

Next == OfPeers(PeersNext) \/ OfTraffic(TrafficNext) \/ OfManual(ManualNext) \/ OfXray(XrayNext)

Spec == Init /\ [][Next]_vars

\* Every variable of the four parts has its type: tables stay within their
\* keys, and no counter, total or rate is ever negative.
TablesTypeOK == PeersTypeOK /\ TrafficTypeOK /\ ManualTypeOK /\ XrayTypeOK

\* Peers alone, for the run that expects a violation.
PeersOnly == Init /\ part = "peers" /\ [][Next]_vars

\* Requests are interchangeable (the instance gives both parts the same names),
\* and so are URIs.
Symmetric == Permutations(Clients) \cup Permutations(NodeUris)
=============================================================================
