------------------------ MODULE SubscriptionRefresh ------------------------
(***************************************************************************)
(* SubscriptionService.FetchAndUpdate: a refresh downloads a node list,    *)
(* deletes the subscription's rows in vless_nodes and inserts new ones.    *)
(* Tunnels refer to nodes by id (tunnel_nodes, active_node_id), so the     *)
(* references are copied by URI before and rebuilt after.                  *)
(*                                                                         *)
(* Reading, deleting, inserting and rebuilding are separate transactions.  *)
(* One action below is one transaction.  Refreshes run in the periodic     *)
(* loop of the subscription and in any number of HTTP requests, next to    *)
(* requests that assign nodes to tunnels, edit and delete tunnels and      *)
(* delete subscriptions.                                                   *)
(***************************************************************************)
EXTENDS Naturals, Sequences, FiniteSets, SequencesExt

CONSTANTS
    Subs,       \* subscriptions with a URL
    NoSub,
    Tunnels,    \* tunnel ids
    Uris,       \* raw_uri of the nodes a subscription may offer
    NoUri,
    Workers,    \* goroutines running FetchAndUpdate
    Bodies,     \* the node lists a fetch may return, unparsable lines skipped
    MaxId,      \* bound: node ids handed out
    MaxList,    \* bound: nodes assigned to a tunnel at once
    Events      \* what else happens

ASSUME SubsAssumption == NoSub \notin Subs /\ NoUri \notin Uris
ASSUME FiniteAssumption == IsFiniteSet(Subs) /\ IsFiniteSet(Tunnels)
ASSUME BodiesAssumption == Bodies \subseteq Seq(Uris)
ASSUME BoundsAssumption == MaxId \in Nat /\ MaxList \in Nat
ASSUME EventsAssumption ==
    Events \subseteq {"assign", "put", "deltunnel", "delsub", "cancel"}

VARIABLES
    sub,        \* subscriptions: status and node_count
    node,       \* vless_nodes ever inserted, indexed by id (AUTOINCREMENT)
    live,       \* ids of the rows that exist
    exists,     \* tunnels that exist
    tsub,       \* wg_interfaces.subscription_id
    active,     \* wg_interfaces.active_node_id, 0 for NULL
    links,      \* tunnel_nodes, in rowid order
    \* FetchAndUpdate in progress
    pc, on, row, body, bindA, bindT, fresh, cancelled,
    \* history: refreshes that something else interfered with and what the tunnels
    \* referred to when each refresh began
    disturbed, before

dbVars  == <<sub, node, live, exists, tsub, active, links>>
jobVars == <<pc, on, row, body, bindA, bindT, fresh, cancelled>>
histVars == <<disturbed, before>>
vars    == <<dbVars, jobVars, histVars>>

-----------------------------------------------------------------------------
(* State *)

SubRow  == [st : {"absent", "inactive", "active", "error"}, count : Nat]
LinkRow == [tun : Tunnels, node : 1 .. MaxId, pos : Nat]
Binding == [tun : Tunnels, uri : Uris, pos : Nat]

Steps == {"idle", "get", "fetch", "fail", "snapA", "snapT", "delete", "insert",
          "remap", "restore", "update"}

\* The rows of a table that are in T, in rowid order.
Where(rows, T) ==
    LET upTo[n \in 0 .. Len(rows)] ==
            IF n = 0 THEN <<>>
            ELSE IF rows[n] \in T THEN Append(upTo[n - 1], rows[n]) ELSE upTo[n - 1]
    IN  upTo[Len(rows)]

SubExists(s) == sub[s].st # "absent"
NodesOf(s)   == {i \in live : node[i].sub = s}

\* The references to nodes of s, by URI: rows of tunnel_nodes in rowid order,
\* and active_node_id per tunnel.
LinksTo(s) ==
    LET mine == Where(links, {l \in LinkRow : l.node \in NodesOf(s)}) IN
    [k \in DOMAIN mine |->
        [tun |-> mine[k].tun, uri |-> node[mine[k].node].uri, pos |-> mine[k].pos]]

ActiveUri(s) ==
    [t \in Tunnels |-> IF active[t] \in NodesOf(s) THEN node[active[t]].uri
                                                  ELSE NoUri]

TypeOK ==
    /\ sub \in [Subs -> SubRow]
    /\ node \in Seq([sub : Subs, uri : Uris]) /\ Len(node) <= MaxId
    /\ live \subseteq DOMAIN node
    /\ exists \subseteq Tunnels
    /\ tsub \in [Tunnels -> Subs \cup {NoSub}]
    /\ active \in [Tunnels -> 0 .. MaxId]
    /\ links \in Seq(LinkRow)
    /\ pc \in [Workers -> Steps]
    /\ on \in [Workers -> Subs \cup {NoSub}]
    /\ row \in [Workers -> SubRow]
    /\ body \in [Workers -> Bodies \cup {<<>>}]
    /\ bindA \in [Workers -> SUBSET (Tunnels \X Uris)]
    /\ bindT \in [Workers -> Seq(Binding)]
    /\ fresh \in [Workers -> Seq(1 .. MaxId)]
    /\ cancelled \subseteq Workers
    /\ disturbed \subseteq Workers

-----------------------------------------------------------------------------
(* Helpers *)

NoRow == [st |-> "absent", count |-> 0]
Nothing == [links |-> <<>>, active |-> [t \in Tunnels |-> NoUri]]

Goto(w, p) == pc' = [pc EXCEPT ![w] = p]

\* FetchAndUpdate returns; its locals are gone.
Return(w) ==
    /\ Goto(w, "idle")
    /\ on' = [on EXCEPT ![w] = NoSub]
    /\ row' = [row EXCEPT ![w] = NoRow]
    /\ body' = [body EXCEPT ![w] = <<>>]
    /\ bindA' = [bindA EXCEPT ![w] = {}]
    /\ bindT' = [bindT EXCEPT ![w] = <<>>]
    /\ fresh' = [fresh EXCEPT ![w] = <<>>]
    /\ cancelled' = cancelled \ {w}
    /\ disturbed' = disturbed \ {w}
    /\ before' = [before EXCEPT ![w] = Nothing]

\* The repository call of step p fails because the context is cancelled, and
\* FetchAndUpdate returns the error.
Fails(w, p) == pc[w] = p /\ w \in cancelled /\ Return(w) /\ UNCHANGED dbVars

\* Every refresh in progress that uses one of the given subscriptions.
Refreshing(S) == {w \in Workers : pc[w] # "idle" /\ on[w] \in S}

\* The first new id of a URI (firstByURI); 0 when it is no longer offered.
NewId(w, u) ==
    LET at == {k \in DOMAIN fresh[w] : body[w][k] = u}
    IN  IF at = {} THEN 0 ELSE fresh[w][CHOOSE k \in at : \A j \in at : k <= j]

-----------------------------------------------------------------------------
(* FetchAndUpdate *)

\* The timer of a refresh loop fires, or POST /subscriptions/:id/refresh.
Begin(w, s) ==
    LET others == Refreshing({s}) IN
    /\ pc[w] = "idle"
    /\ Goto(w, "get")
    /\ on' = [on EXCEPT ![w] = s]
    /\ disturbed' = IF others = {} THEN disturbed ELSE disturbed \cup others \cup {w}
    /\ before' = [before EXCEPT ![w] = [links |-> LinksTo(s), active |-> ActiveUri(s)]]
    /\ UNCHANGED <<dbVars, row, body, bindA, bindT, fresh, cancelled>>

GetSub(w) ==
    /\ pc[w] = "get"
    /\ IF w \notin cancelled /\ SubExists(on[w])
       THEN /\ row' = [row EXCEPT ![w] = sub[on[w]]]
            /\ Goto(w, "fetch")
            /\ UNCHANGED <<on, body, bindA, bindT, fresh, cancelled, histVars>>
       ELSE Return(w)
    /\ UNCHANGED dbVars

\* The download, decoded; a failure of either is recorded on the row, one
\* while the body is read is not.
Fetch(w) ==
    /\ pc[w] = "fetch"
    /\ \/ /\ w \notin cancelled
          /\ \E b \in Bodies : body' = [body EXCEPT ![w] = b]
          /\ Goto(w, "snapA")
          /\ UNCHANGED <<on, row, bindA, bindT, fresh, cancelled, histVars>>
       \/ /\ row' = [row EXCEPT ![w].st = IF row[w].count = 0 THEN "error" ELSE @]
          /\ Goto(w, "fail")
          /\ UNCHANGED <<on, body, bindA, bindT, fresh, cancelled, histVars>>
       \/ Return(w)
    /\ UNCHANGED dbVars

\* SubscriptionRepo.Update: the whole row, as read before and amended since.
WriteSub(w, r) ==
    LET s == on[w] IN
    /\ sub' = IF w \notin cancelled /\ SubExists(s) THEN [sub EXCEPT ![s] = r] ELSE sub
    /\ UNCHANGED <<node, live, exists, tsub, active, links>>

RecordFailure(w) ==
    /\ pc[w] = "fail"
    /\ WriteSub(w, row[w])
    /\ Return(w)

\* Only tunnels whose subscription_id is this subscription.
SnapshotActive(w) ==
    \/ /\ pc[w] = "snapA" /\ w \notin cancelled
       /\ bindA' = [bindA EXCEPT ![w] =
             {<<t, node[active[t]].uri>> :
                 t \in {t \in exists : tsub[t] = on[w] /\ active[t] # 0}}]
       /\ Goto(w, "snapT")
       /\ UNCHANGED <<dbVars, on, row, body, bindT, fresh, cancelled, histVars>>
    \/ Fails(w, "snapA")

SnapshotLinks(w) ==
    \/ /\ pc[w] = "snapT" /\ w \notin cancelled
       /\ bindT' = [bindT EXCEPT ![w] = LinksTo(on[w])]
       /\ Goto(w, "delete")
       /\ UNCHANGED <<dbVars, on, row, body, bindA, fresh, cancelled, histVars>>
    \/ Fails(w, "snapT")

\* Mutation of DeleteNodes: the rows of tunnel_nodes are left to the cascade.
DeleteNodesCascade(w) ==
    \/ /\ pc[w] = "delete" /\ w \notin cancelled
       /\ LET gone == NodesOf(on[w]) IN
          /\ active' = [t \in Tunnels |-> IF active[t] \in gone THEN 0 ELSE active[t]]
          /\ live' = live \ gone
       /\ Goto(w, IF body[w] = <<>> THEN "update" ELSE "insert")
       /\ UNCHANGED <<sub, node, exists, tsub, links, on, row, body, bindA, bindT,
                      fresh, cancelled, histVars>>
    \/ Fails(w, "delete")

\* Mutation of DeleteNodes: every reference is cleared, not only the
\* subscription's own.
DeleteNodesAll(w) ==
    \/ /\ pc[w] = "delete" /\ w \notin cancelled
       /\ active' = [t \in Tunnels |-> 0]
       /\ links' = <<>>
       /\ live' = live \ NodesOf(on[w])
       /\ Goto(w, IF body[w] = <<>> THEN "update" ELSE "insert")
       /\ UNCHANGED <<sub, node, exists, tsub, on, row, body, bindA, bindT,
                      fresh, cancelled, histVars>>
    \/ Fails(w, "delete")

\* References first, then the nodes, in one transaction.
DeleteNodes(w) ==
    \/ /\ pc[w] = "delete" /\ w \notin cancelled
       /\ LET gone == NodesOf(on[w]) IN
          /\ active' = [t \in Tunnels |-> IF active[t] \in gone THEN 0 ELSE active[t]]
          /\ links' = Where(links, {l \in LinkRow : l.node \notin gone})
          /\ live' = live \ gone
       /\ Goto(w, IF body[w] = <<>> THEN "update" ELSE "insert")
       /\ UNCHANGED <<sub, node, exists, tsub, on, row, body, bindA, bindT,
                      fresh, cancelled, histVars>>
    \/ Fails(w, "delete")

\* vless_nodes has no foreign key to subscriptions: the insert succeeds also
\* when the subscription has been deleted meanwhile.
InsertNodes(w) ==
    \/ /\ pc[w] = "insert" /\ w \notin cancelled
       /\ Len(node) + Len(body[w]) <= MaxId
       /\ LET ids == [k \in DOMAIN body[w] |-> Len(node) + k] IN
          /\ node' = node \o [k \in DOMAIN body[w] |-> [sub |-> on[w], uri |-> body[w][k]]]
          /\ live' = live \cup Range(ids)
          /\ fresh' = [fresh EXCEPT ![w] = ids]
       /\ Goto(w, "remap")
       /\ UNCHANGED <<sub, exists, tsub, active, links, on, row, body, bindA, bindT,
                      cancelled, histVars>>
    \/ Fails(w, "insert")

\* One UPDATE per binding, each on its own.  A node deleted again by another
\* refresh is refused by the foreign key, which ends the refresh.
RemapActive(w) ==
    \/ /\ pc[w] = "remap" /\ w \notin cancelled
       /\ \E b \in bindA[w] :
             LET t == b[1]
                 id == NewId(w, b[2])
                 hits == id # 0 /\ t \in exists /\ tsub[t] = on[w]
             IN IF hits /\ id \notin live
                THEN UNCHANGED active /\ Return(w)
                ELSE /\ active' = IF hits THEN [active EXCEPT ![t] = id] ELSE active
                     /\ bindA' = [bindA EXCEPT ![w] = @ \ {b}]
                     /\ UNCHANGED <<pc, on, row, body, bindT, fresh, cancelled,
                                    histVars>>
       /\ UNCHANGED <<sub, node, live, exists, tsub, links>>
    \/ /\ pc[w] = "remap" /\ bindA[w] = {}
       /\ Goto(w, "restore")
       /\ UNCHANGED <<dbVars, on, row, body, bindA, bindT, fresh, cancelled, histVars>>
    \/ bindA[w] # {} /\ Fails(w, "remap")

\* Mutation of Restored: the position is not carried over.
RestoredRenumbered(w) ==
    LET kept == Where(bindT[w], {b \in Binding : NewId(w, b.uri) # 0}) IN
    [k \in DOMAIN kept |-> [tun |-> kept[k].tun, node |-> NewId(w, kept[k].uri), pos |-> 0]]

\* The rows RestoreTunnelNodesAfterRefresh inserts.
Restored(w) ==
    LET kept == Where(bindT[w], {b \in Binding : NewId(w, b.uri) # 0}) IN
    [k \in DOMAIN kept |-> [tun |-> kept[k].tun, node |-> NewId(w, kept[k].uri),
                            pos |-> kept[k].pos]]

\* One transaction for the bindings of all tunnels: a row whose tunnel or node
\* is gone is refused by its foreign key, and nothing is restored.
RestoreLinks(w) ==
    \/ /\ pc[w] = "restore" /\ w \notin cancelled
       /\ LET new == Restored(w) IN
          IF \A k \in DOMAIN new : new[k].tun \in exists /\ new[k].node \in live
          THEN /\ links' = links \o new
               /\ Goto(w, "update")
               /\ UNCHANGED <<on, row, body, bindA, bindT, fresh, cancelled, histVars>>
          ELSE UNCHANGED links /\ Return(w)
       /\ UNCHANGED <<sub, node, live, exists, tsub, active>>
    \/ Fails(w, "restore")

FinalUpdate(w) ==
    /\ pc[w] = "update"
    /\ WriteSub(w, [st |-> "active", count |-> Len(body[w])])
    /\ Return(w)

RefreshStep(w) ==
    \/ GetSub(w) \/ Fetch(w) \/ RecordFailure(w) \/ SnapshotActive(w)
    \/ SnapshotLinks(w) \/ DeleteNodes(w) \/ InsertNodes(w) \/ RemapActive(w)
    \/ RestoreLinks(w) \/ FinalUpdate(w)

-----------------------------------------------------------------------------
(* The rest of the system *)

\* PUT /tunnels/:id/nodes: tunnel_nodes of one tunnel is replaced in one
\* transaction, with ids that exist.
AssignNodes(t, list) ==
    /\ "assign" \in Events
    /\ t \in exists
    /\ Range(list) \subseteq live
    /\ links' = Where(links, {l \in LinkRow : l.tun # t})
                  \o [k \in DOMAIN list |-> [tun |-> t, node |-> list[k], pos |-> k - 1]]
    /\ disturbed' = disturbed \cup Refreshing(Subs)
    /\ UNCHANGED <<sub, node, live, exists, tsub, active, jobVars, before>>

\* PUT /tunnels/:id: subscription_id is written, active_node_id only if the
\* body names one or the subscription stays the same (a stale id is refused by
\* the foreign key or is one the body could name).  A move to another
\* subscription without a node clears active_node_id in a statement of its own:
\* the request may fail before the columns are written, and a refresh may set
\* the node again before they are.  Edits of one tunnel do not overlap.
PutTunnel(t, s, n) ==
    LET moves == n = 0 /\ tsub[t] # NoSub /\ s \notin {NoSub, tsub[t]}
        set == [active EXCEPT ![t] = n]
        written == [tsub EXCEPT ![t] = s]
    IN
    /\ "put" \in Events
    /\ t \in exists
    /\ n # 0 => n \in live
    /\ \/ /\ s # NoSub => SubExists(s)
          /\ tsub' = written
          /\ active' \in IF moves THEN {set, active} ELSE {IF n = 0 THEN active ELSE set}
       \/ moves /\ tsub' = tsub /\ active' = set
    /\ disturbed' = disturbed \cup Refreshing(Subs)
    /\ UNCHANGED <<sub, node, live, exists, links, jobVars, before>>

DeleteTunnel(t) ==
    /\ "deltunnel" \in Events
    /\ t \in exists
    /\ exists' = exists \ {t}
    /\ active' = [active EXCEPT ![t] = 0]
    /\ links' = Where(links, {l \in LinkRow : l.tun # t})
    /\ disturbed' = disturbed \cup Refreshing(Subs)
    /\ UNCHANGED <<sub, node, live, tsub, jobVars, before>>

\* DELETE /subscriptions/:id: refused by the foreign key while a tunnel has it
\* as its subscription; the nodes stay.
DeleteSub(s) ==
    /\ "delsub" \in Events
    /\ SubExists(s)
    /\ \A t \in exists : tsub[t] # s
    /\ sub' = [sub EXCEPT ![s] = NoRow]
    /\ disturbed' = disturbed \cup Refreshing({s})
    /\ UNCHANGED <<node, live, exists, tsub, active, links, jobVars, before>>

\* The client of a refresh request goes away, or the loop is stopped.
Cancel(w) ==
    /\ "cancel" \in Events
    /\ pc[w] # "idle" /\ w \notin cancelled
    /\ cancelled' = cancelled \cup {w}
    /\ UNCHANGED <<dbVars, pc, on, row, body, bindA, bindT, fresh, histVars>>

-----------------------------------------------------------------------------
(* Specification *)

Lists == UNION {[1 .. n -> live] : n \in 0 .. MaxList}

\* Every subscription has been fetched once and tunnels have been set up, or
\* a subscription has just been added and has no nodes yet.
Init ==
    /\ \E b \in [Subs -> Bodies] :
          LET order == SetToSeq(Subs)
              rows(s) == [k \in DOMAIN b[s] |-> [sub |-> s, uri |-> b[s][k]]]
          IN /\ node = FlattenSeq([k \in DOMAIN order |-> rows(order[k])])
             /\ sub = [s \in Subs |-> [st |-> IF b[s] = <<>> THEN "inactive" ELSE "active",
                                       count |-> Len(b[s])]]
    /\ Len(node) <= MaxId
    /\ live = DOMAIN node
    /\ exists = Tunnels
    /\ tsub \in [Tunnels -> Subs \cup {NoSub}]
    /\ active \in [Tunnels -> {0} \cup live]
    /\ \E list \in [Tunnels -> Lists] :
          LET order == SetToSeq(Tunnels)
              rows(t) == [k \in DOMAIN list[t] |->
                            [tun |-> t, node |-> list[t][k], pos |-> k - 1]]
          IN links = FlattenSeq([k \in DOMAIN order |-> rows(order[k])])
    /\ pc = [w \in Workers |-> "idle"]
    /\ on = [w \in Workers |-> NoSub]
    /\ row = [w \in Workers |-> NoRow]
    /\ body = [w \in Workers |-> <<>>]
    /\ bindA = [w \in Workers |-> {}]
    /\ bindT = [w \in Workers |-> <<>>]
    /\ fresh = [w \in Workers |-> <<>>]
    /\ cancelled = {} /\ disturbed = {}
    /\ before = [w \in Workers |-> Nothing]

Next ==
    \/ \E w \in Workers, s \in Subs : Begin(w, s)
    \/ \E w \in Workers : RefreshStep(w) \/ Cancel(w)
    \/ \E t \in Tunnels, list \in Lists : AssignNodes(t, list)
    \/ \E t \in Tunnels, s \in Subs \cup {NoSub}, n \in 0 .. MaxId : PutTunnel(t, s, n)
    \/ \E t \in Tunnels : DeleteTunnel(t)
    \/ \E s \in Subs : DeleteSub(s)

Spec == Init /\ [][Next]_vars
-----------------------------------------------------------------------------
(* Properties *)

\* DeleteNodes clears the references before the nodes, RestoreLinks and
\* RemapActive write ids they have just created: no reference to a node or a
\* tunnel dangles, so the foreign keys never refuse a DeleteNodes, also when
\* refreshes, assignments and deletions interleave.
NoDangling ==
    /\ \A k \in DOMAIN links : links[k].node \in live /\ links[k].tun \in exists
    /\ \A t \in Tunnels : active[t] # 0 => active[t] \in live /\ t \in exists

\* A refresh nobody interferes with leaves every tunnel with the nodes it had,
\* in the same order and at the same positions, except those no longer
\* offered; so too the active node of a tunnel bound to the subscription, if
\* it is one of the subscription's own.  Between its transactions the rows of
\* tunnel_nodes for this subscription's nodes are those there were, none, or
\* those that stay.  That is no promise to a Start in that window: a tunnel with
\* nodes of two subscriptions still has the other one's rows, and one whose rows
\* are all gone falls back to active_node_id, which RemapActive sets before
\* RestoreLinks, or to a subscription's only node.
RefreshKeepsBindings ==
    [][\A w \in Workers, s \in Subs : on[w] = s /\ w \notin disturbed =>
         LET was  == before[w].links
             stay == Where(was, {b \in Binding : b.uri \in Range(body[w])})
             kept(u) == IF u \in Range(body[w]) THEN u ELSE NoUri
             mine == {t \in Tunnels : tsub[t] = s /\ before[w].active[t] # NoUri}
         IN
         /\ LinksTo(s) \in {was, <<>>, stay}
         /\ \A t \in mine : ActiveUri(s)[t] \in {before[w].active[t], NoUri}
         /\ FinalUpdate(w) =>
               /\ LinksTo(s)' = stay
               /\ \A t \in mine : ActiveUri(s)'[t] = kept(before[w].active[t])]_vars

\* A refresh of one subscription, however it is interleaved and wherever it
\* stops, leaves the nodes of the others and the tunnels' references to them
\* as they are; unless a request changes the tunnels meanwhile, an active node
\* of another subscription keeps its URI.
RefreshTouchesOwn ==
    [][\A w \in Workers : dbVars' # dbVars /\ RefreshStep(w) =>
         \A s \in Subs \ {on[w]} :
            /\ NodesOf(s)' = NodesOf(s)
            /\ LinksTo(s)' = LinksTo(s)
            /\ sub'[s] = sub[s]
            /\ \A t \in Tunnels : w \notin disturbed /\ ActiveUri(s)[t] # NoUri =>
                  active'[t] # 0 /\ node[active'[t]].uri = ActiveUri(s)[t]]_vars

\* domain/subscription.go: the junction survives a subscription refresh.
\* When the last refresh in progress ends, however it ends, a tunnel that still
\* exists has the nodes it had when that refresh began, if they were offered.
BindingsSurvive ==
    [][\A w \in Workers, s \in Subs :
         on[w] = s /\ (\A v \in Workers : pc'[v] = "idle") =>
         \A k \in DOMAIN before[w].links :
            LET b == before[w].links[k] IN
            b.tun \in exists' /\ b.uri \in Range(body[w]) => b \in Range(LinksTo(s)')]_vars
=============================================================================
