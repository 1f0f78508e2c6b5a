----------------------------- MODULE ManualNodes -----------------------------
(***************************************************************************)
(* The nodes entered by hand.  They belong to a subscription named         *)
(* __manual__, which EnsureManual looks up, or creates, for each request   *)
(* and once for the process.  Every read and every write is a transaction  *)
(* of its own, so requests interleave between them.  The foreign keys from *)
(* tunnels to nodes are enforced and cascade nowhere; a node's             *)
(* subscription_id is none, so it may name a subscription that is gone.    *)
(***************************************************************************)
EXTENDS Naturals, FiniteSets, FiniteSetsExt, Functions

CONSTANTS
    MaxSubs,    \* bound: rows named __manual__ ever created
    MaxNodes,   \* bound: nodes ever inserted
    MaxLinks,   \* bound: manual nodes in a tunnel's list
    NodeUris,   \* raw_uri
    NoUri,
    Wgs,        \* tunnels
    Editors     \* requests in progress at the same time

ASSUME ManualAssumption == MaxSubs \in Nat \ {0} /\ MaxNodes \in Nat /\ MaxLinks \in Nat /\ NoUri \notin NodeUris

VARIABLES
    msub,        \* the subscriptions named __manual__: node_count, by id
    subsBorn,    \* how many there have been
    mnode,       \* vless_nodes of these subscriptions, by id
    nodesBorn,
    held,        \* ManualSubID, found when the process started
    wg,          \* tunnels: active_node_id and tunnel_nodes
    editor,      \* requests
    copied,      \* history: a URI was stored without a check, or two checks overlapped
    sure         \* history: subscriptions whose last change was a request by itself

manualVars == <<msub, subsBorn, mnode, nodesBorn, held, wg, editor, copied, sure>>

SubIds == 1 .. MaxSubs
NodeIds == 1 .. MaxNodes
NoWg == [active |-> 0, linked |-> {}]
Waiting == [at |-> "idle", op |-> "add", sub |-> 0, id |-> 0, uri |-> NoUri,
            count |-> 0, alone |-> FALSE]

Subs == DOMAIN msub
Nodes == DOMAIN mnode
NodesIn(s) == {n \in Nodes : mnode[n].sub = s}
Busy(e) == editor[e].at # "idle"

ManualTypeOK ==
    /\ subsBorn \in 0 .. MaxSubs /\ Subs \subseteq 1 .. subsBorn
    /\ msub \in [Subs -> 0 .. MaxNodes]
    /\ nodesBorn \in 0 .. MaxNodes /\ Nodes \subseteq 1 .. nodesBorn
    /\ mnode \in [Nodes -> [sub : SubIds, uri : NodeUris]]
    /\ held \in SubIds
    /\ wg \in [Wgs -> [active : 0 .. MaxNodes, linked : SUBSET NodeIds]]
    /\ editor \in [Editors ->
            [at : {"idle", "create", "check", "apply", "count", "meta", "find"},
             op : {"add", "update", "delete", "import"}, sub : 0 .. MaxSubs,
             id : 0 .. MaxNodes, uri : NodeUris \cup {NoUri}, count : 0 .. MaxNodes, alone : BOOLEAN]]
    /\ copied \in BOOLEAN /\ sure \subseteq SubIds

ManualInit ==
    /\ msub = [s \in {1} |-> 0] /\ subsBorn = 1 /\ held = 1
    /\ mnode = <<>> /\ nodesBorn = 0
    /\ wg = [t \in Wgs |-> NoWg]
    /\ editor = [e \in Editors |-> Waiting]
    /\ copied = FALSE /\ sure = {1}

-----------------------------------------------------------------------------
(* Helpers *)

Goes(e, p) == editor' = [editor EXCEPT ![e].at = p]
Ends(e) == editor' = [editor EXCEPT ![e] = Waiting]

\* A request begins: from here on nobody runs alone who is not alone.
Begins(e, r) ==
    editor' = [d \in Editors |->
        IF d = e THEN [r EXCEPT !.alone = \A o \in Editors \ {e} : ~Busy(o)]
                 ELSE [editor[d] EXCEPT !.alone = FALSE]]

\* The foreign keys that refer to a node.
NodeUsed(n) == \E t \in Wgs : wg[t].active = n \/ n \in wg[t].linked

NewSub == [s \in Subs \cup {subsBorn + 1} |->
              IF s \in Subs THEN msub[s] ELSE 0]

InsertNode(s, u) ==
    /\ nodesBorn < MaxNodes
    /\ nodesBorn' = nodesBorn + 1
    /\ mnode' = [n \in Nodes \cup {nodesBorn + 1} |->
                    IF n \in Nodes THEN mnode[n] ELSE [sub |-> s, uri |-> u]]

-----------------------------------------------------------------------------
(* POST, PUT and DELETE /subscriptions/manual-nodes *)

\* EnsureManual's List: the first row of that name.
EnsureManual(e, op, n, u) ==
    /\ ~Busy(e)
    /\ Begins(e, [Waiting EXCEPT !.op = op, !.id = n, !.uri = u,
                     !.at = IF Subs = {} THEN "create" ELSE "check",
                     !.sub = IF Subs = {} THEN 0 ELSE Min(Subs)])
    /\ UNCHANGED <<msub, subsBorn, mnode, nodesBorn, held, wg, copied, sure>>

\* The three requests.  A node is given as a URI or as fields the URI is built
\* from; either is refused before the first step if it cannot be read.
AddManualNode(e, u) == EnsureManual(e, "add", 0, u)
UpdateManualNode(e, n, u) == EnsureManual(e, "update", n, u)
DeleteManualNode(e, n) == EnsureManual(e, "delete", n, NoUri)

\* And its Create, without a second look: two requests may both create one,
\* which the bound leaves out.
EnsureCreate(e) ==
    /\ editor[e].at = "create" /\ subsBorn < MaxSubs
    /\ msub' = NewSub /\ subsBorn' = subsBorn + 1
    /\ editor' = [editor EXCEPT ![e].at = "check", ![e].sub = subsBorn + 1]
    /\ sure' = sure \cup {subsBorn + 1}
    /\ UNCHANGED <<mnode, nodesBorn, held, wg, copied>>

\* Mutation of Duplicate: only the nodes before this one are compared.
DuplicateBefore(e) ==
    \E n \in NodesIn(editor[e].sub) : n < editor[e].id /\ mnode[n].uri = editor[e].uri

\* The loop over ListNodes; an update does not meet itself.
Duplicate(e) ==
    \E n \in NodesIn(editor[e].sub) :
        (editor[e].op = "update" => n # editor[e].id) /\ mnode[n].uri = editor[e].uri

\* GetNode's node is one of the subscription; then the URI is new, or no tunnel
\* has the node as its active_node_id.  Between the two reads of a request the
\* node may go: then its write finds none.
Acceptable(e) ==
    /\ editor[e].op # "add" => editor[e].id \in NodesIn(editor[e].sub)
    /\ editor[e].op = "delete" => \A t \in Wgs : wg[t].active # editor[e].id
    /\ editor[e].op # "delete" => ~Duplicate(e)

Check(e) ==
    /\ editor[e].at = "check"
    /\ IF Acceptable(e) THEN Goes(e, "apply") ELSE Ends(e)
    /\ copied' = (copied \/ (Acceptable(e) /\ editor[e].op # "delete"
            /\ \E d \in Editors \ {e} : editor[d].at = "apply" /\ editor[d].op # "delete"))
    /\ UNCHANGED <<msub, subsBorn, mnode, nodesBorn, held, wg, sure>>

\* InsertNodes, UpdateNode and DeleteNode; a write that a foreign key refuses, or
\* that finds no row, ends the request.  Nothing refuses a node of a subscription
\* that was deleted meanwhile.
InsertNodes(e) ==
    /\ editor[e].at = "apply" /\ editor[e].op = "add"
    /\ InsertNode(editor[e].sub, editor[e].uri)
    /\ Goes(e, "count") /\ sure' = sure \ {editor[e].sub}
    /\ UNCHANGED <<msub, subsBorn, held, wg, copied>>

UpdateNode(e) ==
    /\ editor[e].at = "apply" /\ editor[e].op = "update"
    /\ IF editor[e].id \in Nodes
       THEN /\ mnode' = [mnode EXCEPT ![editor[e].id] = [sub |-> editor[e].sub, uri |-> editor[e].uri]]
            /\ Goes(e, "count") /\ sure' = sure \ {editor[e].sub}
       ELSE Ends(e) /\ UNCHANGED <<mnode, sure>>
    /\ UNCHANGED <<msub, subsBorn, nodesBorn, held, wg, copied>>

\* Mutation of Deletable: the look at active_node_id was enough.
DeletableLoose(n) == n \in Nodes

\* What lets a DELETE of one node row through.
Deletable(n) == n \in Nodes /\ ~NodeUsed(n)

DeleteNode(e) ==
    /\ editor[e].at = "apply" /\ editor[e].op = "delete"
    /\ IF Deletable(editor[e].id)
       THEN mnode' = Restrict(mnode, Nodes \ {editor[e].id}) /\ Goes(e, "count") /\ sure' = sure \ {editor[e].sub}
       ELSE Ends(e) /\ UNCHANGED <<mnode, sure>>
    /\ UNCHANGED <<msub, subsBorn, nodesBorn, held, wg, copied>>

\* syncManualSubscriptionMeta lists the nodes and writes their number.
SyncCount(e) ==
    /\ editor[e].at = "count"
    /\ editor' = [editor EXCEPT ![e].at = "meta", ![e].count = Cardinality(NodesIn(editor[e].sub))]
    /\ UNCHANGED <<msub, subsBorn, mnode, nodesBorn, held, wg, copied, sure>>

\* Mutation of SyncMeta: the count of an update is one too many.
SyncMetaAdds(e) ==
    /\ editor[e].at = "meta"
    /\ IF editor[e].sub \in Subs
       THEN msub' = [msub EXCEPT ![editor[e].sub] =
                        IF editor[e].op = "delete" THEN editor[e].count ELSE @ + 1]
       ELSE UNCHANGED msub
    /\ sure' = IF editor[e].alone /\ editor[e].sub \in Subs
               THEN sure \cup {editor[e].sub} ELSE sure \ {editor[e].sub}
    /\ Ends(e)
    /\ UNCHANGED <<subsBorn, mnode, nodesBorn, held, wg, copied>>

SyncMeta(e) ==
    /\ editor[e].at = "meta"
    /\ IF editor[e].sub \in Subs
       THEN msub' = [msub EXCEPT ![editor[e].sub] = editor[e].count]
       ELSE UNCHANGED msub
    /\ sure' = IF editor[e].alone /\ editor[e].sub \in Subs
               THEN sure \cup {editor[e].sub} ELSE sure \ {editor[e].sub}
    /\ Ends(e)
    /\ UNCHANGED <<subsBorn, mnode, nodesBorn, held, wg, copied>>

-----------------------------------------------------------------------------
(* POST /tunnels with a vless_uri; other requests on tunnels *)

\* The node goes under ManualSubID, with no look at what is there and no count,
\* whether or not that subscription still exists.
ImportUri(e, u) ==
    /\ ~Busy(e)
    /\ InsertNode(held, u)
    /\ Begins(e, [Waiting EXCEPT !.op = "import", !.at = "find", !.uri = u])
    /\ copied' = TRUE /\ sure' = sure \ {held}
    /\ UNCHANGED <<msub, subsBorn, held, wg>>

\* The last of the nodes with the URI; id 0 when there is none.
Imported(u) ==
    LET same == {n \in NodesIn(held) : mnode[n].uri = u}
    IN  IF same = {} THEN 0 ELSE Max(same)

\* Then Tunnels.Create, with the node and ManualSubID: here foreign keys refuse a
\* subscription that is gone, and a node deleted after it was found like the id 0.
ImportTunnel(e, t) ==
    /\ editor[e].at = "find" /\ wg[t] = NoWg
    /\ LET n == Imported(editor[e].uri) IN
       IF n # 0 /\ held \in Subs
       THEN wg' = [wg EXCEPT ![t] = [active |-> n, linked |-> {n}]] ELSE UNCHANGED wg
    /\ Ends(e)
    /\ UNCHANGED <<msub, subsBorn, mnode, nodesBorn, held, copied, sure>>

\* PUT /tunnels/:id and PUT /tunnels/:id/nodes.  SetTunnelNodes has looked for
\* every node before, but what counts is the foreign key.
AssignActive(t, n) ==
    /\ n \in Nodes \cup {0}
    /\ wg' = [wg EXCEPT ![t].active = n]
    /\ UNCHANGED <<msub, subsBorn, mnode, nodesBorn, held, editor, copied, sure>>

SetTunnelNodes(t, L) ==
    /\ L \subseteq Nodes
    /\ wg' = [wg EXCEPT ![t].linked = L]
    /\ UNCHANGED <<msub, subsBorn, mnode, nodesBorn, held, editor, copied, sure>>

DeleteTunnel(t) ==
    /\ wg[t] # NoWg
    /\ wg' = [wg EXCEPT ![t] = NoWg]
    /\ UNCHANGED <<msub, subsBorn, mnode, nodesBorn, held, editor, copied, sure>>

-----------------------------------------------------------------------------
(* Requests on the subscription itself *)

\* PUT /subscriptions/:id writes the body's node_count, which is zero when the
\* body leaves it out.  (A body with another name is not modelled.)
PutSubscription(s) ==
    /\ s \in Subs
    /\ msub' = [msub EXCEPT ![s] = 0]
    /\ editor' = [e \in Editors |-> [editor[e] EXCEPT !.alone = FALSE]]
    /\ sure' = sure \ {s}
    /\ UNCHANGED <<subsBorn, mnode, nodesBorn, held, wg, copied>>

\* Its nodes stay.  (A tunnel's subscription_id, which a foreign key protects, is
\* not modelled: a PUT of the tunnel may point it elsewhere at any time.)
DeleteSubscription(s) ==
    /\ s \in Subs
    /\ msub' = Restrict(msub, Subs \ {s}) /\ sure' = sure \ {s}
    /\ UNCHANGED <<subsBorn, mnode, nodesBorn, held, wg, editor, copied>>

\* main() finds the subscription or creates it; the requests are gone.
ManualRestarts ==
    /\ IF Subs # {} THEN held' = Min(Subs) /\ UNCHANGED <<msub, subsBorn, sure>>
                    ELSE /\ subsBorn < MaxSubs
                         /\ msub' = NewSub /\ subsBorn' = subsBorn + 1 /\ held' = subsBorn'
                         /\ sure' = sure \cup {subsBorn'}
    /\ editor' = [e \in Editors |-> Waiting]
    /\ UNCHANGED <<mnode, nodesBorn, wg, copied>>

ManualNext ==
    \/ \E e \in Editors :
        \/ \E u \in NodeUris : AddManualNode(e, u)
        \/ \E n \in Nodes, u \in NodeUris : UpdateManualNode(e, n, u)
        \/ \E n \in Nodes : DeleteManualNode(e, n)
        \/ EnsureCreate(e) \/ Check(e)
        \/ InsertNodes(e) \/ UpdateNode(e) \/ DeleteNode(e) \/ SyncCount(e) \/ SyncMeta(e)
        \/ \E u \in NodeUris : ImportUri(e, u)
        \/ \E t \in Wgs : ImportTunnel(e, t)
    \/ \E t \in Wgs :
        \/ \E n \in 0 .. MaxNodes : AssignActive(t, n)
        \/ \E L \in SUBSET NodeIds : Cardinality(L) <= MaxLinks /\ SetTunnelNodes(t, L)
        \/ DeleteTunnel(t)
    \/ \E s \in SubIds :
        PutSubscription(s) \/ DeleteSubscription(s)
    \/ ManualRestarts

ManualSpec == ManualInit /\ [][ManualNext]_manualVars

-----------------------------------------------------------------------------
(* Properties *)

\* A manual subscription has no URI twice, whatever is added, edited and deleted
\* in whichever order, unless a tunnel was created from a URI or two requests
\* checked their URIs at the same time.
ManualUrisDistinct ==
    ~copied => \A m, n \in Nodes : mnode[m] = mnode[n] => m = n

\* Every id a tunnel has belongs to a node: a delete that looked before the
\* tunnel was assigned the node is refused, and deleting the subscription leaves
\* the nodes that tunnels use.
ManualNoDangling ==
    \A t \in Wgs : wg[t].active \in Nodes \cup {0} /\ wg[t].linked \subseteq Nodes

\* A request that ran by itself leaves the right node_count, repairing what
\* overlapping requests, imports, crashes or a PUT had left wrong before it.
CountRepaired ==
    \A s \in Subs \cap sure : msub[s] = Cardinality(NodesIn(s))
=============================================================================
