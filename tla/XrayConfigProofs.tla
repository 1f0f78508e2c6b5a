-------------------------- MODULE XrayConfigProofs --------------------------
(***************************************************************************)
(* Proof that a built configuration never lets a packet out directly, for  *)
(* every list of nodes, every registry of transports and securities, and   *)
(* whatever the observatory reports.                                       *)
(*                                                                         *)
(* The instance is always the configuration built from the list in `from`; *)
(* the rest is about that configuration alone: its rules name all its      *)
(* inbounds, the balancer selects exactly the outbounds of the nodes, and  *)
(* the fallback is the first of them.                                      *)
(***************************************************************************)
EXTENDS XrayConfig, TLAPS

\* The instance is what BuildXrayConfig made of a list that is not empty.
BuiltFrom ==
    /\ strategy \in Strategies /\ gateway \in BOOLEAN
    /\ rows \in Seq(VNodes) /\ from \in Seq(VNodes)
    /\ Up => /\ Len(from) > 0
             /\ \E gw \in BOOLEAN, s \in Strategies : inst = BuildXrayConfig(from, gw, s)

\* A list that is not empty has a first node.
LEMMA FirstNode ==
    ASSUME NEW l \in Seq(VNodes), l # <<>>
    PROVE  Len(l) \in Nat /\ Len(l) > 0 /\ DOMAIN l = 1 .. Len(l) /\ 1 \in DOMAIN l
  OBVIOUS

\* BuildXrayConfig tells one node from several.
LEMMA OneOrMore ==
    ASSUME NEW n \in Nat, n > 0
    PROVE  n = 1 \/ n > 1
  OBVIOUS

\* What an outbound of a node is.
LEMMA NodeOutbound ==
    ASSUME NEW node, NEW tag
    PROVE  /\ VlessOut(node, tag).tag = tag
           /\ VlessOut(node, tag).protocol = "vless" /\ VlessOut(node, tag).node = node
  BY DEF VlessOut

\* One node: the only rule leads to its outbound.
LEMMA SingleNode ==
    ASSUME NEW l \in Seq(VNodes), Len(l) = 1, NEW gw \in BOOLEAN, NEW s \in Strategies,
           NEW o, NEW c, c = BuildXrayConfig(l, gw, s), NEW in \in c.inbounds,
           NEW i \in DOMAIN Outbounds(c), i \in Routes(c, o, in)
    PROVE  Outbounds(c)[i].protocol = "vless" /\ Outbounds(c)[i].node = l[1]
<1>1. c.inbounds = c.routed
  BY DEF BuildXrayConfig, buildInbounds, RouteInboundTags
<1>2. c.out = buildSingleNodeConfig(l[1])
  BY DEF BuildXrayConfig
<1>3. /\ Outbounds(c) = <<Direct, VlessOut(l[1], Tag("proxy", 0))>>
      /\ c.out.target = Tag("proxy", 0) /\ ~c.out.balanced
  BY <1>2 DEF buildSingleNodeConfig, Outbounds
<1>4. /\ DOMAIN Outbounds(c) = 1 .. 2
      /\ Outbounds(c)[1] = Direct /\ Outbounds(c)[2] = VlessOut(l[1], Tag("proxy", 0))
  BY <1>3
<1>5. Direct.tag # Tag("proxy", 0)
  BY DEF Direct, Tag
<1>6. VlessOut(l[1], Tag("proxy", 0)).tag = Tag("proxy", 0)
  BY NodeOutbound
<1>7. Tagged(c, c.out.target) = {2}
  BY <1>3, <1>4, <1>5, <1>6 DEF Tagged
<1>8. Routes(c, o, in) = {2}
  BY <1>1, <1>3, <1>7 DEF Routes
<1>9. i = 2
  BY <1>8
<1> QED
  BY <1>4, <1>9, NodeOutbound

\* Several nodes: the balancer's candidates and its fallback are their outbounds.
LEMMA ManyNodes ==
    ASSUME NEW l \in Seq(VNodes), Len(l) > 1, NEW gw \in BOOLEAN, NEW s \in Strategies,
           NEW o, NEW c, c = BuildXrayConfig(l, gw, s), NEW in \in c.inbounds,
           NEW i \in DOMAIN Outbounds(c), i \in Routes(c, o, in)
    PROVE  /\ Outbounds(c)[i].protocol = "vless"
           /\ i \in DOMAIN l /\ Outbounds(c)[i].node = l[i]
<1>0. Len(l) \in Nat /\ DOMAIN l = 1 .. Len(l)
  OBVIOUS
<1>1. c.inbounds = c.routed
  BY DEF BuildXrayConfig, buildInbounds, RouteInboundTags
<1>2. c.out = buildMultiNodeConfig(l)
  BY <1>0 DEF BuildXrayConfig
<1>3. /\ Outbounds(c) = [k \in 1 .. Len(l) + 1 |->
            IF k <= Len(l) THEN VlessOut(l[k], Tag("vless-out", k)) ELSE Direct]
      /\ c.out.fallback = Tag("vless-out", 1) /\ c.out.balanced
  BY <1>2 DEF buildMultiNodeConfig, Outbounds
<1>4. DOMAIN Outbounds(c) = 1 .. Len(l) + 1
  BY <1>3
<1>5. \A k \in 1 .. Len(l) : Outbounds(c)[k] = VlessOut(l[k], Tag("vless-out", k))
  BY <1>0, <1>3
<1>6. Outbounds(c)[Len(l) + 1] = Direct
  BY <1>0, <1>3
<1>7. Direct.tag.kind = "direct"
  BY DEF Direct, Tag
<1>8. Len(l) + 1 \notin Selected(c)
  BY <1>6, <1>7 DEF Selected
<1>9. Selected(c) \subseteq 1 .. Len(l)
  BY <1>0, <1>4, <1>8 DEF Selected
<1>10. Candidates(c, o) \subseteq Selected(c)
  BY DEF Candidates
<1>11. Direct.tag # Tag("vless-out", 1)
  BY DEF Direct, Tag
<1>12. Outbounds(c)[1].tag = Tag("vless-out", 1)
  BY <1>0, <1>5, NodeOutbound
<1>13. 1 \in Tagged(c, c.out.fallback)
  BY <1>0, <1>3, <1>4, <1>12 DEF Tagged
<1>14. Tagged(c, c.out.fallback) \subseteq 1 .. Len(l)
  BY <1>0, <1>3, <1>4, <1>6, <1>11 DEF Tagged
<1>15. Routes(c, o, in) \subseteq Candidates(c, o) \cup Tagged(c, c.out.fallback)
  BY <1>1, <1>3, <1>13 DEF Routes
<1>16. i \in 1 .. Len(l)
  BY <1>9, <1>10, <1>14, <1>15
<1>17. Outbounds(c)[i] = VlessOut(l[i], Tag("vless-out", i))
  BY <1>5, <1>16
<1> QED
  BY <1>0, <1>16, <1>17, NodeOutbound

\* The balancer selects the outbounds of several nodes, and the tag of each has
\* the position of its node.
LEMMA SelectedNodes ==
    ASSUME NEW l \in Seq(VNodes), Len(l) > 0, NEW gw \in BOOLEAN, NEW s \in Strategies,
           NEW c, c = BuildXrayConfig(l, gw, s), NEW i \in Selected(c), NEW k,
           Outbounds(c)[i].tag = Tag("vless-out", k)
    PROVE  i = k /\ Outbounds(c)[i].node = l[k]
<1>0. Len(l) \in Nat
  OBVIOUS
<1>1. i \in DOMAIN Outbounds(c) /\ Outbounds(c)[i].tag.kind = "vless-out"
  BY DEF Selected
<1>2. CASE Len(l) = 1
  <2>1. Outbounds(c) = <<Direct, VlessOut(l[1], Tag("proxy", 0))>>
    BY <1>2 DEF BuildXrayConfig, buildSingleNodeConfig, Outbounds
  <2>2. i = 1 \/ i = 2
    BY <1>1, <2>1
  <2>3. Outbounds(c)[1].tag.kind = "direct"
    BY <2>1 DEF Direct, Tag
  <2>4. Outbounds(c)[2] = VlessOut(l[1], Tag("proxy", 0))
    BY <2>1
  <2>5. Outbounds(c)[2].tag.kind = "proxy"
    BY <2>4, NodeOutbound DEF Tag
  <2> QED
    BY <1>1, <2>2, <2>3, <2>5
<1>3. CASE Len(l) > 1
  <2>1. Outbounds(c) = [j \in 1 .. Len(l) + 1 |->
            IF j <= Len(l) THEN VlessOut(l[j], Tag("vless-out", j)) ELSE Direct]
    BY <1>0, <1>3 DEF BuildXrayConfig, buildMultiNodeConfig, Outbounds
  <2>2. Outbounds(c)[Len(l) + 1].tag.kind = "direct"
    BY <1>0, <2>1 DEF Direct, Tag
  <2>3. i \in 1 .. Len(l)
    BY <1>0, <1>1, <2>1, <2>2
  <2>4. Outbounds(c)[i] = VlessOut(l[i], Tag("vless-out", i))
    BY <1>0, <2>1, <2>3
  <2>5. Tag("vless-out", i) = Tag("vless-out", k)
    BY <2>4, NodeOutbound
  <2>6. i = k
    BY <2>5 DEF Tag
  <2> QED
    BY <2>4, <2>6, NodeOutbound
<1> QED
  BY <1>0, <1>2, <1>3, OneOrMore

\* Initially no instance runs.
LEMMA InitBuiltFrom == XrayInit => BuiltFrom
  BY ListsAssumption DEF XrayInit, BuiltFrom, Up, NoInst, Outbounds

\* Only Launch makes an instance.
LEMMA NextBuiltFrom == BuiltFrom /\ [XrayNext]_xrayVars => BuiltFrom'
<1> SUFFICES ASSUME BuiltFrom, [XrayNext]_xrayVars PROVE BuiltFrom'
  OBVIOUS
<1>1. ASSUME NEW list \in NodeLists, SetNodes(list)
      PROVE  BuiltFrom'
  BY <1>1, ListsAssumption DEF SetNodes, BuiltFrom, Up, Outbounds
<1>2. ASSUME NEW s \in Strategies, SetStrategy(s)
      PROVE  BuiltFrom'
  BY <1>2 DEF SetStrategy, BuiltFrom, Up, Outbounds
<1>3. CASE Launch
  <2>1. /\ from' = rows /\ rows' = rows /\ inst' = BuildXrayConfig(rows, gateway, strategy)
        /\ rows # <<>> /\ UNCHANGED <<strategy, gateway>>
    BY <1>3 DEF Launch
  <2>2. Len(rows) > 0
    BY <2>1, FirstNode DEF BuiltFrom
  <2> QED
    BY <2>1, <2>2 DEF BuiltFrom
<1>4. CASE Halt
  BY <1>4 DEF Halt, BuiltFrom, Up, NoInst, Outbounds
<1>5. ASSUME NEW i \in DOMAIN obs, NEW r \in {"alive", "dead"}, Observe(i, r)
      PROVE  BuiltFrom'
  BY <1>5 DEF Observe, BuiltFrom, Up, Outbounds
<1>6. CASE UNCHANGED xrayVars
  BY <1>6 DEF xrayVars, BuiltFrom, Up, Outbounds
<1> QED
  BY <1>1, <1>2, <1>3, <1>4, <1>5, <1>6 DEF XrayNext

\* A packet of any inbound of a running instance leaves through a VLESS outbound
\* to one of its nodes, never directly: BuildXrayConfig, config.go.
THEOREM NeverDirectAlways == XraySpec => []NeverDirect
<1>1. BuiltFrom => NeverDirect
  <2> SUFFICES ASSUME BuiltFrom, Up,
                      NEW in \in inst.inbounds, NEW i \in DOMAIN Outbounds(inst),
                      i \in Routes(inst, obs, in)
               PROVE  /\ Outbounds(inst)[i].protocol = "vless"
                      /\ \E k \in DOMAIN from : Outbounds(inst)[i].node = from[k]
    BY DEF NeverDirect
  <2>1. PICK gw \in BOOLEAN, s \in Strategies : inst = BuildXrayConfig(from, gw, s)
    BY DEF BuiltFrom
  <2>2. from \in Seq(VNodes) /\ Len(from) > 0 /\ Len(from) \in Nat
    BY DEF BuiltFrom
  <2>3. CASE Len(from) = 1
    <3>1. Outbounds(inst)[i].protocol = "vless" /\ Outbounds(inst)[i].node = from[1]
      BY <2>1, <2>2, <2>3, SingleNode
    <3>2. 1 \in DOMAIN from
      BY <2>2
    <3> QED
      BY <3>1, <3>2
  <2>4. CASE Len(from) > 1
    BY <2>1, <2>2, <2>4, ManyNodes
  <2>5. Len(from) = 1 \/ Len(from) > 1
    BY <2>2, OneOrMore, Zenon
  <2> QED
    BY <2>3, <2>4, <2>5, Zenon
<1> QED
  BY <1>1, InitBuiltFrom, NextBuiltFrom, PTL DEF XraySpec

\* The health shown beside a node is that of an outbound to it, as long as the
\* rows are those the instance was built from: GetTunnelNodes and NodeHealth.
THEOREM HealthBelongsAlways == XraySpec => []HealthBelongs
<1>1. BuiltFrom => HealthBelongs
  <2> SUFFICES ASSUME BuiltFrom, rows = from, NEW k \in DOMAIN rows, NEW r \in Health(k)
               PROVE  \E i \in Selected(inst) : obs[i] = r /\ Outbounds(inst)[i].node = rows[k]
    BY DEF HealthBelongs
  <2>1. PICK i \in Selected(inst) : Outbounds(inst)[i].tag = Tag("vless-out", k) /\ obs[i] = r
    BY DEF Health, Reported
  <2>2. Up
    BY <2>1 DEF Selected, Up
  <2>3. PICK gw \in BOOLEAN, s \in Strategies : inst = BuildXrayConfig(from, gw, s)
    BY <2>2 DEF BuiltFrom
  <2>4. from \in Seq(VNodes) /\ Len(from) > 0
    BY <2>2 DEF BuiltFrom
  <2>5. Outbounds(inst)[i].node = from[k]
    BY <2>1, <2>3, <2>4, SelectedNodes
  <2> QED
    BY <2>1, <2>5
<1> QED
  BY <1>1, InitBuiltFrom, NextBuiltFrom, PTL DEF XraySpec
\* The types hold throughout: above all, the observatory has a result, or none
\* yet, for exactly the outbounds of the instance that runs (BuildXrayConfig,
\* observatory section).
LEMMA XrayTypesAlways == XraySpec => []XrayTypeOK
<1>0. \A c : Unknown(c) \in [DOMAIN Outbounds(c) -> Results]
  BY DEF Unknown, Results
<1>1. XrayInit => XrayTypeOK
  BY <1>0 DEF XrayInit, XrayTypeOK
<1>2. XrayTypeOK /\ [XrayNext]_xrayVars => XrayTypeOK'
  <2> SUFFICES ASSUME XrayTypeOK, [XrayNext]_xrayVars PROVE XrayTypeOK'
    OBVIOUS
  <2> USE DEF XrayTypeOK
  <2>1. ASSUME NEW list \in NodeLists, SetNodes(list)
        PROVE  XrayTypeOK'
    BY <2>1 DEF SetNodes, Outbounds
  <2>2. ASSUME NEW s \in Strategies, SetStrategy(s)
        PROVE  XrayTypeOK'
    BY <2>2 DEF SetStrategy, Outbounds
  <2>3. CASE Launch
    <3>1. obs' \in [DOMAIN Outbounds(inst') -> Results]
      BY <2>3, <1>0 DEF Launch
    <3> QED
      BY <2>3, <3>1 DEF Launch, Outbounds
  <2>4. CASE Halt
    <3>1. obs' \in [DOMAIN Outbounds(inst') -> Results]
      BY <2>4, <1>0 DEF Halt
    <3> QED
      BY <2>4, <3>1 DEF Halt, Outbounds
  <2>5. ASSUME NEW i \in DOMAIN obs, NEW r \in {"alive", "dead"}, Observe(i, r)
        PROVE  XrayTypeOK'
    BY <2>5 DEF Observe, Outbounds, Results
  <2>6. CASE UNCHANGED xrayVars
    BY <2>6 DEF xrayVars, Outbounds
  <2> QED
    BY <2>1, <2>2, <2>3, <2>4, <2>5, <2>6 DEF XrayNext
<1> QED
  BY <1>1, <1>2, PTL DEF XraySpec
=============================================================================
