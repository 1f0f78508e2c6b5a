----------------------------- MODULE XrayConfig -----------------------------
(***************************************************************************)
(* The configuration a tunnel's xray instance is built from, where xray    *)
(* sends a packet under it, and the health of the outbounds that the API   *)
(* shows beside the tunnel's nodes.  xray-core is external: its router,    *)
(* balancer and observatory are modelled as config.go relies on them.      *)
(***************************************************************************)
EXTENDS Naturals, Sequences

CONSTANTS
    VNodes,     \* nodes: records with fields flow, encryption, network, security
    Networks,   \* registered transports, "tcp" among them
    Securities, \* registered securities, "none" among them
    NodeLists   \* what a tunnel's list of nodes may be

ASSUME ListsAssumption == NodeLists \subseteq Seq(VNodes)
ASSUME RegistryAssumption == "tcp" \in Networks /\ "none" \in Securities

VARIABLES
    rows,       \* tunnel_nodes in the order of position
    strategy,   \* balancing_strategy
    gateway,    \* is there a WireGuard address for the DNS inbound?
    inst,       \* configuration of the running instance
    from,       \* the nodes it was built from
    obs         \* the observatory's results, by outbound index

xrayVars == <<rows, strategy, gateway, inst, from, obs>>

Strategies == {"roundRobin", "leastPing"}
Results == {"alive", "dead", "none"}

-----------------------------------------------------------------------------
(* config.go *)

Tag(kind, n) == [kind |-> kind, n |-> n]
Direct == [tag |-> Tag("direct", 0), protocol |-> "freedom"]

\* streamSettingsOutbound: a name no registry knows becomes the default.
Registered(name, names, default) == IF name \in names THEN name ELSE default

vlessUserObject(node) ==
    [encryption |-> IF node.encryption = "" THEN "none" ELSE node.encryption, flow |-> node.flow]

\* An outbound entry; without a flow its connections are multiplexed.
VlessOut(node, tag) ==
    [tag |-> tag, protocol |-> "vless", node |-> node, user |-> vlessUserObject(node),
     mux |-> node.flow = "",
     network  |-> Registered(node.network, Networks, "tcp"),
     security |-> Registered(node.security, Securities, "none")]

buildInbounds(gw) == {"transparent-in"} \cup (IF gw THEN {"dns-in"} ELSE {})
RouteInboundTags(gw) == {"transparent-in"} \cup (IF gw THEN {"dns-in"} ELSE {})

buildSingleNodeConfig(node) ==
    [outbounds |-> <<Direct, VlessOut(node, Tag("proxy", 0))>>,
     target    |-> Tag("proxy", 0),
     fallback  |-> Tag("proxy", 0), balanced |-> FALSE]

\* Mutation of buildMultiNodeConfig: the fallback is the last outbound.
buildMultiNodeConfigLast(nodes) ==
    [outbounds |-> [i \in 1 .. Len(nodes) + 1 |->
        IF i <= Len(nodes) THEN VlessOut(nodes[i], Tag("vless-out", i)) ELSE Direct],
     target    |-> Tag("balancer", 0),
     fallback  |-> Direct.tag, balanced |-> TRUE]

\* The nodes' outbounds, then direct; the balancer selects the former, and falls
\* back to the first.  The observatory watches what the balancer selects.
buildMultiNodeConfig(nodes) ==
    [outbounds |-> [i \in 1 .. Len(nodes) + 1 |->
        IF i <= Len(nodes) THEN VlessOut(nodes[i], Tag("vless-out", i)) ELSE Direct],
     target    |-> Tag("balancer", 0),
     fallback  |-> Tag("vless-out", 1), balanced |-> TRUE]

BuildXrayConfig(nodes, gw, strat) ==
    [inbounds |-> buildInbounds(gw), routed |-> RouteInboundTags(gw), strategy |-> strat,
     out |-> IF Len(nodes) = 1 THEN buildSingleNodeConfig(nodes[1])
                               ELSE buildMultiNodeConfig(nodes)]

-----------------------------------------------------------------------------
(* xray-core *)

Outbounds(c) == c.out.outbounds

\* The outbounds whose tag begins with the balancer's selector.
Selected(c) == {i \in DOMAIN Outbounds(c) : Outbounds(c)[i].tag.kind = "vless-out"}

\* Round robin takes what is not known to be dead, least ping the best of what
\* is known to be alive; either may find nothing.
Candidates(c, o) ==
    IF c.strategy = "roundRobin" THEN {i \in Selected(c) : o[i] # "dead"}
                                 ELSE {i \in Selected(c) : o[i] = "alive"}

Tagged(c, tag) == {i \in DOMAIN Outbounds(c) : Outbounds(c)[i].tag = tag}

\* Where a packet from an inbound may go: indices of outbounds.  No rule, or no
\* outbound of the tag, means the first outbound.
Routes(c, o, in) ==
    LET wanted == IF ~c.out.balanced THEN Tagged(c, c.out.target)
                  ELSE IF Candidates(c, o) # {} THEN Candidates(c, o)
                  ELSE Tagged(c, c.out.fallback)
    IN  IF in \in c.routed /\ wanted # {} THEN wanted ELSE {1}

-----------------------------------------------------------------------------
(* The tunnel *)

NoInst == [inbounds |-> {}, routed |-> {}, strategy |-> "roundRobin",
           out |-> [outbounds |-> <<>>, target |-> Tag("proxy", 0),
                    fallback |-> Tag("proxy", 0), balanced |-> FALSE]]
Up == Outbounds(inst) # <<>>
Unknown(c) == [i \in DOMAIN Outbounds(c) |-> "none"]

XrayTypeOK ==
    /\ rows \in NodeLists /\ from \in NodeLists
    /\ strategy \in Strategies /\ gateway \in BOOLEAN
    /\ obs \in [DOMAIN Outbounds(inst) -> Results]

XrayInit ==
    /\ rows \in NodeLists /\ strategy \in Strategies /\ gateway \in BOOLEAN
    /\ inst = NoInst /\ obs = Unknown(NoInst) /\ from = rows

\* SetNodes, or a refresh, changes the rows; the strategy is another write.
SetNodes(list) ==
    /\ rows' = list
    /\ UNCHANGED <<strategy, gateway, inst, from, obs>>

SetStrategy(s) ==
    /\ strategy' = s
    /\ UNCHANGED <<rows, gateway, inst, from, obs>>

\* Start, or ReloadNodes after them: a new instance from the rows as they are.
Launch ==
    /\ rows # <<>>
    /\ inst' = BuildXrayConfig(rows, gateway, strategy)
    /\ from' = rows
    /\ obs' = Unknown(inst')
    /\ UNCHANGED <<rows, strategy, gateway>>

Halt ==
    /\ Up
    /\ inst' = NoInst /\ obs' = Unknown(NoInst)
    /\ UNCHANGED <<rows, strategy, gateway, from>>

\* A probe ends; only a balanced configuration has an observatory.
Observe(i, r) ==
    /\ inst.out.balanced /\ i \in Selected(inst)
    /\ obs' = [obs EXCEPT ![i] = r]
    /\ UNCHANGED <<rows, strategy, gateway, inst, from>>

XrayNext ==
    \/ \E list \in NodeLists : SetNodes(list)
    \/ \E s \in Strategies : SetStrategy(s)
    \/ Launch \/ Halt
    \/ \E i \in DOMAIN obs, r \in {"alive", "dead"} : Observe(i, r)

XraySpec == XrayInit /\ [][XrayNext]_xrayVars

\* NodeHealth: the outbounds of the running instance with a result.
Reported == {k \in Selected(inst) : obs[k] # "none"}

\* Mutation of Health: positions are taken for the numbers of the outbounds.
HealthShifted(i) == {obs[k] : k \in {k \in Reported : Outbounds(inst)[k].tag = Tag("vless-out", i - 1)}}

\* GetTunnelNodes: the result shown beside the i-th of the tunnel's nodes, if
\* there is one.
Health(i) == {obs[k] : k \in {k \in Reported : Outbounds(inst)[k].tag = Tag("vless-out", i)}}

-----------------------------------------------------------------------------
(* Properties *)

\* Whatever the observatory reports, and whatever list and strategy the instance
\* was built from, a packet of every inbound leaves through a VLESS outbound to
\* one of the nodes of that list, never directly from the host.
NeverDirect ==
    Up => \A in \in inst.inbounds, i \in DOMAIN Outbounds(inst) :
            i \in Routes(inst, obs, in) =>
                /\ Outbounds(inst)[i].protocol = "vless"
                /\ \E k \in DOMAIN from : Outbounds(inst)[i].node = from[k]

\* The health shown beside a node is the result for an outbound to that node,
\* as long as the rows are those the instance was built from; after a change
\* that was not reloaded it may be that of another node.
HealthBelongs ==
    rows = from => \A k \in DOMAIN rows : \A r \in Health(k) :
        \E i \in Selected(inst) : obs[i] = r /\ Outbounds(inst)[i].node = rows[k]
=============================================================================
