-------------------------- MODULE TunnelLifecycle --------------------------
(***************************************************************************)
(* The life of a tunnel in xray2wg: the requests that start, stop, delete, *)
(* edit and re-node it, the goroutine that restores tunnels at boot and    *)
(* tears them down at shutdown, the kernel objects they set up, and the    *)
(* database row that outlives the process.                                 *)
(*                                                                         *)
(* TunnelService takes no lock per tunnel: each request is a sequence of   *)
(* calls to the database, the WireGuard and xray managers and netconf, and *)
(* two requests for one tunnel interleave between any two of those calls.  *)
(* One action below is one such call.  A call into netconf is one step:    *)
(* its failure outcomes include the part of its work already done.         *)
(***************************************************************************)
EXTENDS Naturals, FiniteSets

CONSTANTS
    Tunnels,      \* tunnel ids
    Handlers,     \* goroutines serving HTTP requests
    Main,         \* the goroutine of main(): restores at boot, drains at shutdown
    NodeLists,    \* the non-empty node lists a tunnel may be assigned
    Legacy,       \* the one-node configuration built from active_node_id
    NoNodes,      \* an empty tunnel_nodes list, and the absence of an instance
    Subnets,      \* the values of wg_address
    OtherLink,    \* a tun_name that is not the name of any tunnel's TUN link
    Events,       \* what the outside does: kinds of request, signals
    KeepNetns,    \* does the network namespace survive the process?
    MaxRestarts   \* bound on process restarts

ASSUME MainAssumption == Main \notin Handlers
ASSUME NodesAssumption ==
    /\ Legacy \notin NodeLists
    /\ NoNodes \notin NodeLists \cup {Legacy}
ASSUME ConstantsAssumption ==
    /\ OtherLink \notin Tunnels
    /\ Subnets # {}
    /\ Events \subseteq {"start", "stop", "delete", "nodes", "put", "create",
                        "cancel", "sigterm"}
    /\ KeepNetns \in BOOLEAN
    /\ MaxRestarts \in Nat

VARIABLES
    \* the process
    phase,        \* what main() is doing
    restarts,     \* how many times the process has been started again
    queue,        \* ids main() has still to restore or to tear down
    running,      \* RunSet: tunnels considered running in memory
    tracked,      \* StatsCollector: tunnels whose traffic is sampled
    wg,           \* wireguard.Manager: is a device registered for the tunnel?
    xray,         \* xrayinfra.Manager: node list of the registered instance
    \* the database
    row,          \* wg_interfaces
    nodes,        \* tunnel_nodes
    \* the network namespace
    dev,          \* the TUN link tun-wg<id>
    rule,         \* ip rule fwmark -> table
    route,        \* local default route of the table
    chain,        \* mangle chain XRAY2WG_<id> and its PREROUTING jump
    fwd,          \* FORWARD/DOCKER-USER ACCEPT pair for the link
    nat,          \* subnets with a POSTROUTING MASQUERADE rule
    \* the requests in progress
    pc, op, tun, snap, cfg, cancelled,
    \* history: which requests were disturbed, by another one for the same
    \* tunnel or by a row that names another link, and which tunnels this, a
    \* shutdown that ran out of time or a crash in a surviving namespace may
    \* have left in disorder
    overlap, tainted

procVars == <<phase, restarts, queue>>
memVars  == <<running, tracked, wg, xray>>
dbVars   == <<row, nodes>>
netVars  == <<dev, rule, route, chain, fwd, nat>>
jobVars  == <<pc, op, tun, snap, cfg, cancelled>>
histVars == <<overlap, tainted>>
vars     == <<procVars, memVars, dbVars, netVars, jobVars, histVars>>

-----------------------------------------------------------------------------
(* Types *)

Workers == Handlers \cup {Main}
Configs == NodeLists \cup {Legacy}

Status    == {"stopped", "running", "error"}
RowStates == Status \cup {"unborn", "deleted"}

\* The tunnel whose link tun-wg<id> a row's tun_name is; an empty tun_name
\* stands for the row's own.
Links == Tunnels \cup {OtherLink}
Row == [st : RowStates, addr : Subnets, active : {"set", "unset"}, link : Links]

\* The steps of Start, of its rollback, of Stop/Delete/shutdown, of
\* SetTunnelNodes, of PUT and of Create.
Steps == {"idle",
    "contains", "get", "nodes", "restore", "wg", "reg", "assign", "route",
    "xray", "xreg", "tproxy", "fwd", "nat", "update", "mark", "track",
    "rb_fwd", "rb_tproxy", "rb_xray", "rb_route", "rb_wg", "rb_status",
    "stop_get", "st_fwd", "st_nat", "st_tproxy", "st_route", "st_wg",
    "st_xray", "st_clear", "st_untrack", "stop_update", "stop_status", "delete",
    "n_set", "n_get", "n_update", "n_contains", "n_list",
    "p_get", "p_prepare", "p_update", "c_insert", "c_update", "c_nodes"}

\* The first step of each request.
FirstStep == [start |-> "contains", stop |-> "stop_get", delete |-> "stop_get",
              shutdown |-> "stop_get", nodes |-> "n_set", put |-> "p_get",
              create |-> "c_insert"]
HandlerOps == {"start", "stop", "delete", "nodes", "put", "create"}
Ops == HandlerOps \cup {"shutdown", "none"}

ProcTypeOK ==
    /\ phase \in {"boot", "serving", "draining", "closing"}
    /\ restarts \in 0 .. MaxRestarts
    /\ queue \subseteq Tunnels

MemTypeOK ==
    /\ running \subseteq Tunnels
    /\ tracked \subseteq Tunnels
    /\ wg \in [Tunnels -> BOOLEAN]
    /\ xray \in [Tunnels -> Configs \cup {NoNodes}]

DbTypeOK ==
    /\ row \in [Tunnels -> Row]
    /\ nodes \in [Tunnels -> NodeLists \cup {NoNodes}]

NetTypeOK ==
    /\ dev \in [Tunnels -> {"absent", "down", "up"}]
    /\ rule \in [Tunnels -> BOOLEAN]
    /\ route \in [Tunnels -> BOOLEAN]
    /\ chain \in [Tunnels -> {"none", "partial", "jumped", "empty"}]
    /\ fwd \in [Tunnels -> BOOLEAN]
    /\ nat \in [Tunnels -> SUBSET Subnets]

JobTypeOK ==
    /\ pc \in [Workers -> Steps]
    /\ op \in [Workers -> Ops]
    /\ tun \in [Workers -> Tunnels]
    /\ snap \in [Workers -> Row]
    /\ cfg \in [Workers -> Configs \cup {NoNodes}]
    /\ cancelled \in [Workers -> BOOLEAN]

HistTypeOK ==
    /\ overlap \in [Workers -> BOOLEAN]
    /\ tainted \subseteq Tunnels

\* Every variable of the process, the database, the namespace and the requests
\* has its type.
TypeOK ==
    ProcTypeOK /\ MemTypeOK /\ DbTypeOK /\ NetTypeOK /\ JobTypeOK /\ HistTypeOK

-----------------------------------------------------------------------------
(* Helpers *)

Exists(t) == row[t].st \in Status

Active(w, t) == pc[w] # "idle" /\ tun[w] = t

\* Another request is in progress on t, or main() has drained t and has not
\* torn it down yet.
Busy(w, t) ==
    \/ \E v \in Workers \ {w} : Active(v, t)
    \/ phase = "draining" /\ t \in queue /\ w # Main

Goto(w, p) == pc' = [pc EXCEPT ![w] = p]

\* A request's copy of the row before it has read one.
NoRow == [st |-> "unborn", addr |-> CHOOSE a \in Subnets : TRUE,
          active |-> "unset", link |-> OtherLink]

\* The request returns; its locals are gone.
Finish(w) ==
    /\ Goto(w, "idle")
    /\ op' = [op EXCEPT ![w] = "none"]
    /\ snap' = [snap EXCEPT ![w] = NoRow]
    /\ cfg' = [cfg EXCEPT ![w] = NoNodes]
    /\ cancelled' = [cancelled EXCEPT ![w] = FALSE]
    /\ UNCHANGED tun

\* The request goes on at p with its locals unchanged.
Continue(w, p) == Goto(w, p) /\ UNCHANGED <<op, tun, snap, cfg, cancelled>>

\* Mutation of AfterTeardown: a failed Start forgets to stop xray.
AfterTeardownKeepsXray ==
    [st_fwd |-> "st_nat", st_nat |-> "st_tproxy", st_tproxy |-> "st_route",
     st_route |-> "st_wg", st_wg |-> "st_xray", st_xray |-> "st_clear",
     st_clear |-> "st_untrack",
     rb_fwd |-> "rb_tproxy", rb_tproxy |-> "rb_route", rb_xray |-> "rb_route",
     rb_route |-> "rb_wg", rb_wg |-> "rb_status"]

\* Which step follows a teardown step: stopInternal on the st_ side, the
\* rollback of a failed Start on the rb_ side.  A failure enters the rollback
\* in the middle; from there on it is always the same suffix.
AfterTeardown ==
    [st_fwd |-> "st_nat", st_nat |-> "st_tproxy", st_tproxy |-> "st_route",
     st_route |-> "st_wg", st_wg |-> "st_xray", st_xray |-> "st_clear",
     st_clear |-> "st_untrack",
     rb_fwd |-> "rb_tproxy", rb_tproxy |-> "rb_xray", rb_xray |-> "rb_route",
     rb_route |-> "rb_wg", rb_wg |-> "rb_status"]

\* TunnelRepo.Update: every column but active_node_id is overwritten with what
\* the caller read earlier; active_node_id only when the caller holds one.
Written(old, new) ==
    [new EXCEPT !.active = IF @ = "set" THEN "set" ELSE old.active]

\* A repository call of request w on the row of t succeeds.
DBOk(w, t) == ~cancelled[w] /\ Exists(t)
-----------------------------------------------------------------------------
(* Beginning a request *)

\* Locals and history of a request of kind o on t that w begins.
BeginJob(w, o, t) ==
    /\ pc[w] = "idle"
    /\ pc' = [pc EXCEPT ![w] = FirstStep[o]]
    /\ op' = [op EXCEPT ![w] = o]
    /\ tun' = [tun EXCEPT ![w] = t]
    /\ UNCHANGED <<snap, cfg, cancelled>>
    /\ overlap' = [v \in Workers |-> IF v = w THEN Busy(w, t)
                                     ELSE overlap[v] \/ Active(v, t)]
    /\ tainted' = IF Busy(w, t) THEN tainted \cup {t} ELSE tainted

\* An HTTP request reaches its handler.  The server listens from the end of
\* RestoreRunning until http.Server.Shutdown, so also while ShutdownAll runs.
Request(w, o, t) ==
    /\ phase \in {"serving", "draining"}
    /\ BeginJob(w, o, t)
    /\ UNCHANGED <<procVars, memVars, dbVars, netVars>>

\* The steps that pass the context to the database: only they notice its end.
UsesContext == {"get", "nodes", "restore", "update", "rb_status", "stop_get",
    "stop_update", "stop_status", "delete", "n_set", "n_get", "n_update", "n_list",
    "p_get", "p_prepare", "p_update", "c_insert", "c_update", "c_nodes"}

\* The client goes away, or shCtx times out: from now on every repository call
\* of the request fails.  RestoreRunning uses context.Background().
Cancel(w) ==
    /\ "cancel" \in Events
    /\ pc[w] \in UsesContext
    /\ w # Main \/ phase = "draining"
    /\ ~cancelled[w]
    /\ cancelled' = [cancelled EXCEPT ![w] = TRUE]
    /\ UNCHANGED <<procVars, memVars, dbVars, netVars, pc, op, tun, snap, cfg,
                   histVars>>

-----------------------------------------------------------------------------
(* TunnelService.Start *)

StartContains(w) ==
    /\ pc[w] = "contains"
    /\ IF tun[w] \in running THEN Finish(w) ELSE Continue(w, "get")
    /\ UNCHANGED <<procVars, memVars, dbVars, netVars, histVars>>

StartGet(w) ==
    /\ pc[w] = "get"
    /\ \/ /\ DBOk(w, tun[w])
          /\ snap' = [snap EXCEPT ![w] = row[tun[w]]]
          /\ Goto(w, "nodes")
          /\ UNCHANGED <<op, tun, cfg, cancelled>>
       \/ ~DBOk(w, tun[w]) /\ Finish(w)
    /\ UNCHANGED <<procVars, memVars, dbVars, netVars, histVars>>

\* Resolve the nodes, then read keys and peers.  The junction table comes
\* first; active_node_id is the legacy path; a subscription with one node
\* restores active_node_id.  Any of the reads may fail, which returns before
\* anything was set up and without touching the row's status.
StartNodes(w) ==
    LET t == tun[w] IN
    /\ pc[w] = "nodes"
    /\ \/ /\ ~cancelled[w]
          /\ \/ /\ nodes[t] # NoNodes
                /\ cfg' = [cfg EXCEPT ![w] = nodes[t]]
                /\ Goto(w, "wg")
                /\ UNCHANGED snap
             \/ /\ nodes[t] = NoNodes /\ snap[w].active = "set"
                /\ cfg' = [cfg EXCEPT ![w] = Legacy]
                /\ Goto(w, "wg")
                /\ UNCHANGED snap
             \/ /\ nodes[t] = NoNodes /\ snap[w].active = "unset"
                /\ cfg' = [cfg EXCEPT ![w] = Legacy]
                /\ snap' = [snap EXCEPT ![w].active = "set"]
                /\ Goto(w, "restore")
          /\ UNCHANGED <<op, tun, cancelled>>
       \/ Finish(w)
    /\ UNCHANGED <<procVars, memVars, dbVars, netVars, histVars>>

\* Tunnels.Update with the restored active_node_id; an error is only logged.
StartRestoreNode(w) ==
    LET t == tun[w] IN
    /\ pc[w] = "restore"
    /\ row' = IF DBOk(w, t) THEN [row EXCEPT ![t] = Written(row[t], snap[w])]
                            ELSE row
    /\ \/ Continue(w, "wg")
       \/ Finish(w)
    /\ UNCHANGED <<procVars, memVars, nodes, netVars, histVars>>

\* Mutation of StartCreateTUN: a second owner may attach to an existing link.
StartShareTUN(w) ==
    /\ pc[w] = "wg"
    /\ dev' = [dev EXCEPT ![tun[w]] = "down"]
    /\ Continue(w, "reg")
    /\ UNCHANGED <<procVars, memVars, dbVars, rule, route, chain, fwd, nat,
                   histVars>>

\* WG.Create up to its lock: CreateTUN fails when the link exists (the kernel
\* refuses a second owner of a name), and the device may fail to configure.
StartCreateTUN(w) ==
    LET t == tun[w] IN
    /\ pc[w] = "wg"
    /\ \/ /\ dev[t] = "absent"
          /\ dev' = [dev EXCEPT ![t] = "down"]
          /\ Continue(w, "reg")
       \/ /\ UNCHANGED dev
          /\ Continue(w, "rb_status")
    /\ UNCHANGED <<procVars, memVars, dbVars, rule, route, chain, fwd, nat,
                   histVars>>

\* WG.Create under its lock: a registered device is closed and replaced.
StartRegister(w) ==
    LET t == tun[w] IN
    /\ pc[w] = "reg"
    /\ wg' = [wg EXCEPT ![t] = TRUE]
    /\ Continue(w, "assign")
    /\ UNCHANGED <<procVars, running, tracked, xray, dbVars, netVars, histVars>>

StartAssignTUN(w) ==
    LET t == tun[w] IN
    /\ pc[w] = "assign"
    /\ \/ /\ dev[t] # "absent"
          /\ dev' = [dev EXCEPT ![t] = "up"]
          /\ Continue(w, "route")
       \/ /\ UNCHANGED dev
          /\ Continue(w, "rb_wg")
    /\ UNCHANGED <<procVars, memVars, dbVars, rule, route, chain, fwd, nat,
                   histVars>>

\* RuleAdd's error is only logged, and RouteReplace may fail after it.
StartReturnRoute(w) ==
    LET t == tun[w] IN
    /\ pc[w] = "route"
    /\ \E added \in BOOLEAN : rule' = [rule EXCEPT ![t] = @ \/ added]
    /\ \/ /\ route' = [route EXCEPT ![t] = TRUE]
          /\ Continue(w, "xray")
       \/ /\ UNCHANGED route
          /\ Continue(w, "rb_wg")
    /\ UNCHANGED <<procVars, memVars, dbVars, dev, chain, fwd, nat, histVars>>

\* Xray.Start up to its lock, for Start and for ReloadNodes.
XrayInstance(w) ==
    /\ pc[w] = "xray"
    /\ \/ Continue(w, "xreg")
       \/ IF op[w] = "start" THEN Continue(w, "rb_route") ELSE Finish(w)
    /\ UNCHANGED <<procVars, memVars, dbVars, netVars, histVars>>

\* Xray.Start under its lock: the old instance is closed and replaced.
XrayRegister(w) ==
    LET t == tun[w] IN
    /\ pc[w] = "xreg"
    /\ xray' = [xray EXCEPT ![t] = cfg[w]]
    /\ IF op[w] = "start" THEN Continue(w, "tproxy") ELSE Finish(w)
    /\ UNCHANGED <<procVars, running, tracked, wg, dbVars, netVars, histVars>>

\* The chain is emptied and detached, filled, and attached again at the end;
\* a failure in between leaves it filled in part and detached.
StartTProxy(w) ==
    LET t == tun[w] IN
    /\ pc[w] = "tproxy"
    /\ \/ /\ chain' = [chain EXCEPT ![t] = "jumped"]
          /\ Continue(w, "fwd")
       \/ /\ \E left \in {chain[t], "partial"} :
                chain' = [chain EXCEPT ![t] = left]
          /\ Continue(w, "rb_xray")
    /\ UNCHANGED <<procVars, memVars, dbVars, dev, rule, route, fwd, nat,
                   histVars>>

\* Mutation of StartForward: a failure to insert the rules is ignored.
StartForwardLenient(w) ==
    /\ pc[w] = "fwd"
    /\ \E ok \in BOOLEAN : fwd' = [fwd EXCEPT ![tun[w]] = ok]
    /\ Continue(w, "nat")
    /\ UNCHANGED <<procVars, memVars, dbVars, dev, rule, route, chain, nat,
                   histVars>>

StartForward(w) ==
    LET t == tun[w] IN
    /\ pc[w] = "fwd"
    /\ \/ /\ fwd' = [fwd EXCEPT ![t] = TRUE]
          /\ Continue(w, "nat")
       \/ /\ \E left \in {fwd[t], FALSE} : fwd' = [fwd EXCEPT ![t] = left]
          /\ Continue(w, "rb_tproxy")
    /\ UNCHANGED <<procVars, memVars, dbVars, dev, rule, route, chain, nat,
                   histVars>>

StartMasquerade(w) ==
    LET t == tun[w] IN
    /\ pc[w] = "nat"
    /\ \/ /\ nat' = [nat EXCEPT ![t] = @ \cup {snap[w].addr}]
          /\ Continue(w, "update")
       \/ /\ \E left \in {nat[t], nat[t] \ {snap[w].addr}} :
                nat' = [nat EXCEPT ![t] = left]
          /\ Continue(w, "rb_fwd")
    /\ UNCHANGED <<procVars, memVars, dbVars, dev, rule, route, chain, fwd,
                   histVars>>

\* Mutation of StartUpdate: a row that cannot be written is only logged.
StartUpdateLenient(w) ==
    LET t == tun[w] IN
    /\ pc[w] = "update"
    /\ IF DBOk(w, t)
       THEN /\ row' = [row EXCEPT ![t] =
                   Written(row[t], [snap[w] EXCEPT !.st = "running", !.link = t])]
            /\ Continue(w, "mark")
       ELSE UNCHANGED row /\ Finish(w)
    /\ UNCHANGED <<procVars, memVars, nodes, netVars, histVars>>

\* The row read at the beginning is written back with status running and the
\* tunnel's own tun_name.
StartUpdate(w) ==
    LET t == tun[w] IN
    /\ pc[w] = "update"
    /\ IF DBOk(w, t)
       THEN /\ row' = [row EXCEPT ![t] =
                   Written(row[t], [snap[w] EXCEPT !.st = "running", !.link = t])]
            /\ Continue(w, "mark")
       ELSE /\ UNCHANGED row
            /\ Continue(w, "st_fwd")
    /\ UNCHANGED <<procVars, memVars, nodes, netVars, histVars>>

StartMark(w) ==
    /\ pc[w] = "mark"
    /\ running' = running \cup {tun[w]}
    /\ Continue(w, "track")
    /\ UNCHANGED <<procVars, tracked, wg, xray, dbVars, netVars, histVars>>

\* Mutation of StartTrack: the collector is told the wrong id.
StartTrackWrongId(w) ==
    /\ pc[w] = "track"
    /\ tracked' = tracked \cup {w}
    /\ Finish(w)
    /\ UNCHANGED <<procVars, running, wg, xray, dbVars, netVars, histVars>>

StartTrack(w) ==
    /\ pc[w] = "track"
    /\ tracked' = tracked \cup {tun[w]}
    /\ Finish(w)
    /\ UNCHANGED <<procVars, running, wg, xray, dbVars, netVars, histVars>>

\* UpdateStatus(error), the last step of a failed Start.
RollbackStatus(w) ==
    LET t == tun[w] IN
    /\ pc[w] = "rb_status"
    /\ row' = IF DBOk(w, t) THEN [row EXCEPT ![t].st = "error"] ELSE row
    /\ Finish(w)
    /\ UNCHANGED <<procVars, memVars, nodes, netVars, histVars>>

-----------------------------------------------------------------------------
(* Teardown: stopInternal, and the rollback of a failed Start *)

\* Mutation of TeardownForward: the rules are not found and stay.
TeardownForwardMissed(w) ==
    /\ pc[w] \in {"st_fwd", "rb_fwd"}
    /\ Continue(w, AfterTeardown[pc[w]])
    /\ UNCHANGED <<procVars, memVars, dbVars, netVars, histVars>>

\* The link whose rules a teardown removes: Start tears down what it set up
\* itself, every other request goes by the row it read.
Link(w) == IF op[w] = "start" THEN tun[w] ELSE snap[w].link

\* The ACCEPT rules are found by the link's name.  Those of another name leave
\* the tunnel's own in place and may be those of a tunnel that is up.
TeardownForward(w) ==
    LET foreign == Link(w) # tun[w] IN
    /\ pc[w] \in {"st_fwd", "rb_fwd"}
    /\ fwd' = [t \in Tunnels |-> fwd[t] /\ t # Link(w)]
    /\ overlap' = [overlap EXCEPT ![w] = @ \/ foreign]
    /\ tainted' = IF foreign THEN tainted \cup ({tun[w], Link(w)} \cap Tunnels)
                             ELSE tainted
    /\ Continue(w, AfterTeardown[pc[w]])
    /\ UNCHANGED <<procVars, memVars, dbVars, dev, rule, route, chain, nat>>

\* The subnet is the one of the row the request read, not the one Start used;
\* the rule also carries the tunnel's name.
TeardownMasquerade(w) ==
    /\ pc[w] = "st_nat"
    /\ nat' = [nat EXCEPT ![tun[w]] = IF Link(w) = tun[w] THEN @ \ {snap[w].addr}
                                                        ELSE @]
    /\ Continue(w, AfterTeardown[pc[w]])
    /\ UNCHANGED <<procVars, memVars, dbVars, dev, rule, route, chain, fwd,
                   histVars>>

\* With another name the jump is not found; the chain it refers to is emptied
\* but cannot be deleted.
TeardownTProxy(w) ==
    /\ pc[w] \in {"st_tproxy", "rb_tproxy"}
    /\ chain' = [chain EXCEPT ![tun[w]] =
                    IF Link(w) # tun[w] /\ @ \in {"jumped", "empty"}
                    THEN "empty" ELSE "none"]
    /\ Continue(w, AfterTeardown[pc[w]])
    /\ UNCHANGED <<procVars, memVars, dbVars, dev, rule, route, fwd, nat,
                   histVars>>

TeardownReturnRoute(w) ==
    /\ pc[w] \in {"st_route", "rb_route"}
    /\ rule' = [rule EXCEPT ![tun[w]] = FALSE]
    /\ route' = [route EXCEPT ![tun[w]] = FALSE]
    /\ Continue(w, AfterTeardown[pc[w]])
    /\ UNCHANGED <<procVars, memVars, dbVars, dev, chain, fwd, nat, histVars>>

\* WG.Destroy: closing the registered device removes the link.
TeardownDevice(w) ==
    LET t == tun[w] IN
    /\ pc[w] \in {"st_wg", "rb_wg"}
    /\ wg' = [wg EXCEPT ![t] = FALSE]
    /\ dev' = IF wg[t] THEN [dev EXCEPT ![t] = "absent"] ELSE dev
    /\ Continue(w, AfterTeardown[pc[w]])
    /\ UNCHANGED <<procVars, running, tracked, xray, dbVars, rule, route,
                   chain, fwd, nat, histVars>>

TeardownXray(w) ==
    /\ pc[w] \in {"st_xray", "rb_xray"}
    /\ xray' = [xray EXCEPT ![tun[w]] = NoNodes]
    /\ Continue(w, AfterTeardown[pc[w]])
    /\ UNCHANGED <<procVars, running, tracked, wg, dbVars, netVars, histVars>>

TeardownClear(w) ==
    /\ pc[w] = "st_clear"
    /\ running' = running \ {tun[w]}
    /\ Continue(w, AfterTeardown[pc[w]])
    /\ UNCHANGED <<procVars, tracked, wg, xray, dbVars, netVars, histVars>>

\* Mutation of TeardownUntrack: shutdown persists "stopped" as Stop does.
TeardownUntrackPersists(w) ==
    /\ pc[w] = "st_untrack"
    /\ tracked' = tracked \ {tun[w]}
    /\ tainted' = IF overlap[w] THEN tainted ELSE tainted \ {tun[w]}
    /\ Continue(w, "stop_update")
    /\ UNCHANGED <<procVars, running, wg, xray, dbVars, netVars, overlap>>

\* The end of stopInternal.  A teardown that nothing disturbed leaves the
\* tunnel in order, whatever it found.
TeardownUntrack(w) ==
    /\ pc[w] = "st_untrack"
    /\ tracked' = tracked \ {tun[w]}
    /\ tainted' = IF overlap[w] THEN tainted ELSE tainted \ {tun[w]}
    /\ IF op[w] \in {"stop", "delete"} THEN Continue(w, "stop_update")
                                       ELSE Finish(w)
    /\ UNCHANGED <<procVars, running, wg, xray, dbVars, netVars, overlap>>

-----------------------------------------------------------------------------
(* TunnelService.Stop, DeleteTunnel, ShutdownAll *)

\* Mutation of StopGet: the request waits for a row that can be read.
StopGetWaits(w) ==
    /\ pc[w] = "stop_get"
    /\ DBOk(w, tun[w])
    /\ snap' = [snap EXCEPT ![w] = row[tun[w]]]
    /\ Goto(w, "st_fwd")
    /\ UNCHANGED <<op, tun, cfg, cancelled, procVars, memVars, dbVars, netVars,
                   histVars>>

\* ShutdownAll skips a tunnel whose row it cannot read, which it has already
\* drained from the RunSet.
StopGet(w) ==
    LET t == tun[w] IN
    /\ pc[w] = "stop_get"
    /\ \/ /\ DBOk(w, t)
          /\ snap' = [snap EXCEPT ![w] = row[t]]
          /\ Goto(w, "st_fwd")
          /\ UNCHANGED <<op, tun, cfg, cancelled, tainted>>
       \/ /\ ~DBOk(w, t)
          /\ IF op[w] = "delete" THEN Continue(w, "delete") ELSE Finish(w)
          /\ tainted' = IF op[w] = "shutdown" THEN tainted \cup {t} ELSE tainted
    /\ UNCHANGED <<procVars, memVars, dbVars, netVars, overlap>>

\* Update with the row read at the beginning; an error is only logged.
StopUpdate(w) ==
    LET t == tun[w] IN
    /\ pc[w] = "stop_update"
    /\ row' = IF DBOk(w, t)
              THEN [row EXCEPT ![t] =
                       Written(row[t], [snap[w] EXCEPT !.st = "stopped"])]
              ELSE row
    /\ Continue(w, "stop_status")
    /\ UNCHANGED <<procVars, memVars, nodes, netVars, histVars>>

StopStatus(w) ==
    LET t == tun[w] IN
    /\ pc[w] = "stop_status"
    /\ row' = IF DBOk(w, t) THEN [row EXCEPT ![t].st = "stopped"] ELSE row
    /\ IF op[w] = "delete" THEN Continue(w, "delete") ELSE Finish(w)
    /\ UNCHANGED <<procVars, memVars, nodes, netVars, histVars>>

DeleteRow(w) ==
    LET t == tun[w] IN
    /\ pc[w] = "delete"
    /\ IF DBOk(w, t)
       THEN /\ row' = [row EXCEPT ![t] = [NoRow EXCEPT !.st = "deleted"]]
            /\ nodes' = [nodes EXCEPT ![t] = NoNodes]
       ELSE UNCHANGED dbVars
    /\ Finish(w)
    /\ UNCHANGED <<procVars, memVars, netVars, histVars>>

-----------------------------------------------------------------------------
(* SetTunnelNodes and ReloadNodes *)

\* tunnel_nodes is replaced in one transaction; its foreign key refuses rows
\* for a tunnel that does not exist.
NodesSet(w) ==
    LET t == tun[w] IN
    /\ pc[w] = "n_set"
    /\ \/ /\ ~cancelled[w]
          /\ \E list \in NodeLists \cup {NoNodes} :
                /\ Exists(t) \/ list = NoNodes
                /\ nodes' = [nodes EXCEPT ![t] = list]
          /\ \E p \in {"n_get", "n_contains"} : Continue(w, p)
       \/ /\ UNCHANGED nodes
          /\ Finish(w)
    /\ UNCHANGED <<procVars, memVars, row, netVars, histVars>>

NodesGet(w) ==
    /\ pc[w] = "n_get"
    /\ \/ /\ DBOk(w, tun[w])
          /\ snap' = [snap EXCEPT ![w] = row[tun[w]]]
          /\ Goto(w, "n_update")
          /\ UNCHANGED <<op, tun, cfg, cancelled>>
       \/ ~DBOk(w, tun[w]) /\ Finish(w)
    /\ UNCHANGED <<procVars, memVars, dbVars, netVars, histVars>>

\* The balancing strategy is saved by writing the whole row back.
NodesUpdate(w) ==
    LET t == tun[w] IN
    /\ pc[w] = "n_update"
    /\ IF DBOk(w, t)
       THEN /\ row' = [row EXCEPT ![t] = Written(row[t], snap[w])]
            /\ Continue(w, "n_contains")
       ELSE UNCHANGED row /\ Finish(w)
    /\ UNCHANGED <<procVars, memVars, nodes, netVars, histVars>>

ReloadContains(w) ==
    /\ pc[w] = "n_contains"
    /\ IF tun[w] \in running THEN Continue(w, "n_list") ELSE Finish(w)
    /\ UNCHANGED <<procVars, memVars, dbVars, netVars, histVars>>

ReloadList(w) ==
    LET t == tun[w] IN
    /\ pc[w] = "n_list"
    /\ IF DBOk(w, t) /\ nodes[t] # NoNodes
       THEN /\ cfg' = [cfg EXCEPT ![w] = nodes[t]]
            /\ Goto(w, "xray")
            /\ UNCHANGED <<op, tun, snap, cancelled>>
       ELSE Finish(w)
    /\ UNCHANGED <<procVars, memVars, dbVars, netVars, histVars>>

-----------------------------------------------------------------------------
(* UpdateTunnel (PUT) and Create *)

PutGet(w) ==
    /\ pc[w] = "p_get"
    /\ \/ /\ DBOk(w, tun[w])
          /\ snap' = [snap EXCEPT ![w] = row[tun[w]]]
          /\ Goto(w, "p_prepare")
          /\ UNCHANGED <<op, tun, cfg, cancelled>>
       \/ ~DBOk(w, tun[w]) /\ Finish(w)
    /\ UNCHANGED <<procVars, memVars, dbVars, netVars, histVars>>

\* The row a PUT body asks for, with the lifecycle columns of the row read.
\* The body holds the whole row: tun_name is not checked, also not while the
\* tunnel runs.
Edited(r, a, act, l) == [r EXCEPT !.addr = a, !.active = act, !.link = l]

\* PrepareTunnelPUT: a new name is refused while the tunnel runs; a new
\* subscription without an active node clears active_node_id at once.  The
\* status the PUT will write is the one read before.
PutPrepare(w) ==
    LET t == tun[w] IN
    /\ pc[w] = "p_prepare"
    /\ \/ t \in running /\ UNCHANGED row /\ Finish(w)
       \/ /\ \E a \in Subnets, act \in {"set", "unset"}, l \in Links :
                snap' = [snap EXCEPT ![w] = Edited(snap[w], a, act, l)]
          /\ UNCHANGED <<row, op, tun, cfg, cancelled>>
          /\ Goto(w, "p_update")
       \/ cancelled[w] /\ UNCHANGED row /\ Finish(w)
       \/ /\ ~cancelled[w]
          /\ row' = IF Exists(t) THEN [row EXCEPT ![t].active = "unset"] ELSE row
          /\ \E a \in Subnets, l \in Links :
                snap' = [snap EXCEPT ![w] = Edited(snap[w], a, "unset", l)]
          /\ UNCHANGED <<op, tun, cfg, cancelled>>
          /\ Goto(w, "p_update")
    /\ UNCHANGED <<procVars, memVars, nodes, netVars, histVars>>

PutUpdate(w) ==
    LET t == tun[w] IN
    /\ pc[w] = "p_update"
    /\ row' = IF DBOk(w, t) THEN [row EXCEPT ![t] = Written(row[t], snap[w])]
                            ELSE row
    /\ Finish(w)
    /\ UNCHANGED <<procVars, memVars, nodes, netVars, histVars>>

\* Ids are AUTOINCREMENT: a deleted tunnel's id is not used again.
CreateInsert(w) ==
    LET t == tun[w] IN
    /\ pc[w] = "c_insert"
    /\ \/ /\ ~cancelled[w] /\ row[t].st = "unborn"
          /\ \E a \in Subnets, act \in {"set", "unset"} :
                LET new == [st |-> "stopped", addr |-> a, active |-> act,
                            link |-> t] IN
                /\ row' = [row EXCEPT ![t] = new]
                /\ snap' = [snap EXCEPT ![w] = new]
          /\ Goto(w, "c_update")
          /\ UNCHANGED <<op, tun, cfg, cancelled>>
       \/ UNCHANGED row /\ Finish(w)
    /\ UNCHANGED <<procVars, memVars, nodes, netVars, histVars>>

\* Default address and runtime columns, written with the status of the insert.
CreateUpdate(w) ==
    LET t == tun[w] IN
    /\ pc[w] = "c_update"
    /\ row' = IF DBOk(w, t) THEN [row EXCEPT ![t] = Written(row[t], snap[w])]
                            ELSE row
    /\ Continue(w, "c_nodes")
    /\ UNCHANGED <<procVars, memVars, nodes, netVars, histVars>>

\* node_ids, else the active node alone; a failure is only logged.
CreateNodes(w) ==
    LET t == tun[w] IN
    /\ pc[w] = "c_nodes"
    /\ \/ /\ DBOk(w, t)
          /\ \E list \in NodeLists : nodes' = [nodes EXCEPT ![t] = list]
       \/ UNCHANGED nodes
    /\ Finish(w)
    /\ UNCHANGED <<procVars, memVars, row, netVars, histVars>>

-----------------------------------------------------------------------------
(* main() *)

\* RestoreRunning and ShutdownAll take the next id of their list.
MainNext(t) ==
    /\ t \in queue
    /\ queue' = queue \ {t}
    /\ \/ phase = "boot" /\ BeginJob(Main, "start", t)
       \/ phase = "draining" /\ BeginJob(Main, "shutdown", t)
    /\ UNCHANGED <<phase, restarts, memVars, dbVars, netVars>>

\* Mutation of MainDone: the server waits for every restore to succeed.
MainDoneStrict ==
    /\ pc[Main] = "idle" /\ queue = {}
    /\ \/ /\ phase = "boot" /\ phase' = "serving"
          /\ {t \in Tunnels : row[t].st = "running"} \subseteq running
       \/ phase = "draining" /\ phase' = "closing"
    /\ UNCHANGED <<restarts, queue, memVars, dbVars, netVars, jobVars, histVars>>

\* Mutation of MainDone: shutdown waits for an empty RunSet.
MainDoneEmpty ==
    /\ pc[Main] = "idle" /\ queue = {}
    /\ \/ phase = "boot" /\ phase' = "serving"
       \/ phase = "draining" /\ running = {} /\ phase' = "closing"
    /\ UNCHANGED <<restarts, queue, memVars, dbVars, netVars, jobVars, histVars>>

\* RestoreRunning or ShutdownAll is over.
MainDone ==
    /\ pc[Main] = "idle" /\ queue = {}
    /\ \/ phase = "boot" /\ phase' = "serving"
       \/ phase = "draining" /\ phase' = "closing"
    /\ UNCHANGED <<restarts, queue, memVars, dbVars, netVars, jobVars, histVars>>

\* SIGTERM: ShutdownAll drains the RunSet while handlers keep running.
Drain ==
    /\ "sigterm" \in Events
    /\ phase = "serving"
    /\ phase' = "draining"
    /\ queue' = running
    /\ running' = {}
    /\ overlap' = [v \in Workers |->
                     overlap[v] \/ (pc[v] # "idle" /\ tun[v] \in running)]
    /\ tainted' = tainted \cup {t \in running : \E v \in Workers : Active(v, t)}
    /\ UNCHANGED <<restarts, tracked, wg, xray, dbVars, netVars, jobVars>>

\* The process ends, at the end of main() or by a crash, and is started again.
\* TUN links and instances die with it.  The rest of the namespace goes with
\* the container; where it survives, the entrypoint flushes the mangle table.
Restart ==
    LET Kept(f) == IF KeepNetns THEN f ELSE [t \in Tunnels |-> FALSE] IN
    /\ restarts < MaxRestarts
    /\ restarts' = restarts + 1
    /\ phase' = "boot"
    /\ queue' = {t \in Tunnels : row[t].st = "running"}
    /\ running' = {} /\ tracked' = {}
    /\ wg' = [t \in Tunnels |-> FALSE]
    /\ xray' = [t \in Tunnels |-> NoNodes]
    /\ dev' = [t \in Tunnels |-> "absent"]
    /\ chain' = [t \in Tunnels |-> "none"]
    /\ rule' = Kept(rule) /\ route' = Kept(route) /\ fwd' = Kept(fwd)
    /\ nat' = IF KeepNetns THEN nat ELSE [t \in Tunnels |-> {}]
    /\ pc' = [w \in Workers |-> "idle"]
    /\ op' = [w \in Workers |-> "none"]
    /\ snap' = [w \in Workers |-> NoRow]
    /\ cfg' = [w \in Workers |-> NoNodes]
    /\ cancelled' = [w \in Workers |-> FALSE]
    /\ UNCHANGED <<tun, dbVars>>
    /\ overlap' = [w \in Workers |-> FALSE]
    /\ tainted' = IF KeepNetns THEN Tunnels ELSE {}

-----------------------------------------------------------------------------
(* Specification *)

\* A first boot: rows as earlier runs may have left them (no PUT has changed a
\* tun_name yet), an empty namespace.
Init ==
    /\ phase = "boot" /\ restarts = 0
    /\ row \in {f \in [Tunnels -> {r \in Row : r.st \in {"unborn", "stopped", "running"}}] :
                  \A t \in Tunnels : IF f[t].st = "unborn" THEN f[t] = NoRow
                                                       ELSE f[t].link = t}
    /\ nodes \in {f \in [Tunnels -> NodeLists \cup {NoNodes}] :
                    \A t \in Tunnels : Exists(t) \/ f[t] = NoNodes}
    /\ queue = {t \in Tunnels : row[t].st = "running"}
    /\ running = {} /\ tracked = {}
    /\ wg = [t \in Tunnels |-> FALSE]
    /\ xray = [t \in Tunnels |-> NoNodes]
    /\ dev = [t \in Tunnels |-> "absent"]
    /\ rule = [t \in Tunnels |-> FALSE]
    /\ route = [t \in Tunnels |-> FALSE]
    /\ chain = [t \in Tunnels |-> "none"]
    /\ fwd = [t \in Tunnels |-> FALSE]
    /\ nat = [t \in Tunnels |-> {}]
    /\ pc = [w \in Workers |-> "idle"]
    /\ op = [w \in Workers |-> "none"]
    /\ \E t \in Tunnels : tun = [w \in Workers |-> t]
    /\ snap = [w \in Workers |-> NoRow]
    /\ cfg = [w \in Workers |-> NoNodes]
    /\ cancelled = [w \in Workers |-> FALSE]
    /\ overlap = [w \in Workers |-> FALSE]
    /\ tainted = {}

StartStep(w) ==
    \/ StartContains(w) \/ StartGet(w) \/ StartNodes(w) \/ StartRestoreNode(w)
    \/ StartCreateTUN(w) \/ StartRegister(w) \/ StartAssignTUN(w)
    \/ StartReturnRoute(w) \/ XrayInstance(w) \/ XrayRegister(w)
    \/ StartTProxy(w) \/ StartForward(w) \/ StartMasquerade(w)
    \/ StartUpdate(w) \/ StartMark(w) \/ StartTrack(w) \/ RollbackStatus(w)

TeardownStep(w) ==
    \/ TeardownForward(w) \/ TeardownMasquerade(w) \/ TeardownTProxy(w)
    \/ TeardownReturnRoute(w) \/ TeardownDevice(w) \/ TeardownXray(w)
    \/ TeardownClear(w) \/ TeardownUntrack(w)

StopStep(w) == StopGet(w) \/ StopUpdate(w) \/ StopStatus(w) \/ DeleteRow(w)

NodesStep(w) ==
    NodesSet(w) \/ NodesGet(w) \/ NodesUpdate(w) \/ ReloadContains(w)
        \/ ReloadList(w)

EditStep(w) ==
    PutGet(w) \/ PutPrepare(w) \/ PutUpdate(w) \/ CreateInsert(w)
        \/ CreateUpdate(w) \/ CreateNodes(w)

WorkerStep(w) ==
    StartStep(w) \/ TeardownStep(w) \/ StopStep(w) \/ NodesStep(w) \/ EditStep(w)

Next ==
    \/ \E w \in Handlers, o \in Events \cap HandlerOps, t \in Tunnels : Request(w, o, t)
    \/ \E w \in Workers : Cancel(w) \/ WorkerStep(w)
    \/ \E t \in Tunnels : MainNext(t)
    \/ MainDone \/ Drain \/ Restart

\* Goroutines are scheduled, and every call a request makes returns.
Fairness ==
    /\ \A w \in Workers : WF_vars(WorkerStep(w))
    /\ WF_vars(\E t \in Tunnels : MainNext(t))
    /\ WF_vars(MainDone)

Spec == Init /\ [][Next]_vars
FairSpec == Spec /\ Fairness
-----------------------------------------------------------------------------
(* Properties *)

\* No request works on t and main() has no teardown of t pending.
Quiet(t) ==
    /\ \A w \in Workers : ~Active(w, t)
    /\ ~(phase = "draining" /\ t \in queue)

\* Everything Start sets up for a running tunnel is there.
AllUp(t) ==
    /\ wg[t] /\ dev[t] = "up" /\ route[t] /\ xray[t] # NoNodes
    /\ chain[t] = "jumped" /\ fwd[t] /\ nat[t] # {}

\* What Start sets up and a teardown must remove.  The ip rule, a detached
\* chain and a MASQUERADE rule for an earlier address may stay behind.
AllDown(t) ==
    /\ ~wg[t] /\ dev[t] = "absent" /\ ~route[t] /\ xray[t] = NoNodes
    /\ chain[t] \in {"none", "partial"} /\ ~fwd[t] /\ t \notin tracked

\* w is inside stopInternal, past its first call.
InTeardown(w) ==
    pc[w] \in {"st_nat", "st_tproxy", "st_route", "st_wg", "st_xray", "st_clear"}

\* wireguard.Manager.Create makes the link outside its lock.  In every
\* interleaving of Start, Stop, Delete and shutdown, a link belongs either to
\* the registered device or to exactly one Start about to register it, so the
\* "close the previous device" branch never closes a live link and no link is
\* left without an owner.
DeviceOwned ==
    /\ \A v, w \in Workers :
          pc[v] = "reg" /\ pc[w] = "reg" /\ tun[v] = tun[w] => v = w
    /\ \A w \in Workers : pc[w] = "reg" => ~wg[tun[w]]
    /\ \A t \in Tunnels :
          dev[t] # "absent"
             <=> wg[t] \/ \E w \in Workers : pc[w] = "reg" /\ tun[w] = t

\* The order of Start and of stopInternal: packets of clients are accepted for
\* forwarding only while the filled TPROXY chain is attached, through every
\* failure, rollback and restart.  Two things break it and taint a tunnel: two
\* requests for it that overlap, and a teardown by a row whose tun_name a PUT
\* has changed, which leaves the ACCEPT rules of tun-wg<id> and an empty chain.
NoBypass ==
    \A t \in Tunnels \ tainted : dev[t] = "up" /\ fwd[t] => chain[t] = "jumped"

\* A tunnel in the RunSet has its whole data plane, from Mark until the first
\* call of a teardown, across edits and node reloads that fail half way.
RunningIsUp ==
    \A t \in Tunnels \ tainted :
        t \in running /\ (\A w \in Workers : Active(w, t) => ~InTeardown(w))
            => AllUp(t)

\* Between requests, a tunnel that is not in the RunSet holds nothing: a Start
\* that failed at any step rolled back what it did, and one undisturbed Stop
\* by a row with the tunnel's own tun_name repairs whatever overlapping
\* requests left.
StoppedIsDown ==
    \A t \in Tunnels \ tainted : Quiet(t) /\ t \notin running => AllDown(t)

\* A tunnel that is up when the process dies, also in the middle of a graceful
\* shutdown, is restored by the next boot.  Requests for the tunnel that overlap
\* taint it: a PUT that read "stopped" before a Start writes it back afterwards,
\* and the next boot does not restore the tunnel.
RestartRestores ==
    [][restarts' # restarts =>
         \A t \in Tunnels \ tainted :
            \/ t \in running
            \/ phase = "draining" /\ (t \in queue \/ Active(Main, t))
            => t \in queue']_vars

\* README: traffic of WireGuard clients is intercepted via TPROXY.  Without
\* the proviso of NoBypass a Start overlapping a Stop forwards it unproxied.
AlwaysIntercepted ==
    \A t \in Tunnels : dev[t] = "up" /\ fwd[t] => chain[t] = "jumped"

\* Every request returns: no step of a request waits for another one.
RequestsReturn == \A w \in Workers : pc[w] # "idle" ~> pc[w] = "idle"

\* The server comes up after every boot, also when every restore fails.
BootServes == phase = "boot" ~> phase = "serving"

\* ShutdownAll gets through its list, whatever requests are served meanwhile.
ShutdownEnds == phase = "draining" ~> phase # "draining"
-----------------------------------------------------------------------------
(* The inductive strengthening of NoBypass *)

\* Steps of a Start that has found the tunnel not running, its rollback
\* included, up to the point where it is marked.
StartBody == {"get", "nodes", "restore", "wg", "reg", "assign", "route", "xray",
              "xreg", "tproxy", "fwd", "nat", "update", "mark", "rb_fwd",
              "rb_tproxy", "rb_xray", "rb_route", "rb_wg", "rb_status"}

\* Steps of stopInternal after the forward rules are gone.
StopTail == {"st_nat", "st_tproxy", "st_route", "st_wg", "st_xray", "st_clear",
             "st_untrack"}

\* Steps of a request at which the forward rules may be in place although the
\* tunnel is not (or no longer) in the RunSet.
HoldsForward(w) ==
    \/ pc[w] \in {"nat", "update", "mark", "rb_fwd", "st_fwd"}
    \/ pc[w] = "stop_get" /\ op[w] = "shutdown"

PendingDrain(t) == phase = "draining" /\ t \in queue

NodeSteps == {"n_set", "n_get", "n_update", "n_contains", "n_list"}

\* Only SetTunnelNodes reaches ReloadNodes.
NodesOp == \A w \in Workers : pc[w] \in NodeSteps => op[w] = "nodes"

\* Two requests on one tunnel know of each other.
OverlapSeen ==
    \A v, w \in Workers :
        v # w /\ pc[v] # "idle" /\ pc[w] # "idle" /\ tun[v] = tun[w] => overlap[w]

\* So does a request on a tunnel that main() is about to tear down.
DrainSeen ==
    \A w \in Workers : pc[w] # "idle" /\ PendingDrain(tun[w]) => overlap[w]

\* A disturbance taints the tunnel for as long as the request lives.
OverlapTaints ==
    \A w \in Workers : pc[w] # "idle" /\ overlap[w] => tun[w] \in tainted

\* A teardown left alone, by the tunnel's own link, has no forward rules after
\* its first call.
TeardownClosed ==
    \A w \in Workers : pc[w] \in StopTail /\ ~overlap[w] => ~fwd[tun[w]]

InStart(w) ==
    /\ pc[w] \in StartBody
    /\ pc[w] \in {"xray", "xreg"} => op[w] = "start"

\* A Start left alone works on a tunnel that is not running ...
StartFresh ==
    \A w \in Workers : InStart(w) /\ tun[w] \notin tainted => tun[w] \notin running

\* ... and adds the forward rules to an attached chain.
StartGuarded ==
    \A w \in Workers :
        pc[w] = "fwd" /\ tun[w] \notin tainted => chain[tun[w]] = "jumped"

\* Why a tunnel may have forward rules.
ForwardExplained ==
    \A t \in Tunnels \ tainted : fwd[t] =>
        \/ t \in running
        \/ PendingDrain(t)
        \/ \E w \in Workers : tun[w] = t /\ HoldsForward(w)

ForwardGuarded == \A t \in Tunnels \ tainted : fwd[t] => chain[t] = "jumped"

BypassInv ==
    /\ NodesOp /\ OverlapSeen /\ DrainSeen /\ OverlapTaints
    /\ TeardownClosed /\ StartFresh /\ StartGuarded /\ ForwardExplained /\ ForwardGuarded
=============================================================================
