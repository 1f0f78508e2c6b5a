# TLA+ verification of xray2wg

xray2wg is an appliance that terminates WireGuard tunnels and sends the clients'
traffic, intercepted with TPROXY, through VLESS nodes with an embedded xray. This
directory holds TLA+ models of its control plane, TLC configurations that check
them on small instances, and TLAPS proofs of what matters most for every
instance. `PROJECT.json` lists components, runs, mutants, the map from
definitions to source lines, findings, hazards and theorems. Paths below are
relative to `src/backend/internal/` unless they start with another directory.

## 1. The system

| Part | Source | State | Operations | Why it is hard |
|---|---|---|---|---|
| Tunnel lifecycle | `service/tunnel.go`, `service/tunnel_runtime.go`, `app/tunnels_api.go`, `app/tunnel_merge.go` | RunSet in memory; rows `wg_interfaces`, `tunnel_nodes` | Start, Stop, Delete, PUT, create, SetTunnelNodes + ReloadNodes, RestoreRunning, ShutdownAll | no lock per tunnel: every request is some fifteen calls, any of which may fail, and requests for one tunnel interleave; hand-written rollback; the process may die anywhere |
| Network configuration | `infrastructure/netconf/*_linux.go` | kernel: TUN link, ip rule, local route, mangle chain, FORWARD pair, MASQUERADE | one setup and one teardown function per object | partial failure, order of removal |
| WireGuard manager | `infrastructure/wireguard/manager.go` | map of devices | Create, Destroy, ReloadPeers, stats | link created outside the lock |
| xray manager, config | `infrastructure/xrayinfra/` | map of instances | Start, Stop, node health; BuildXrayConfig | instance built outside the lock; routing of the generated configuration |
| Subscription refresh | `service/subscription.go`, `infrastructure/db/subscription_repo.go` | rows `subscriptions`, `vless_nodes`, references from tunnels | FetchAndUpdate, Add, delete, periodic loops | wipes and re-creates nodes in separate transactions while tunnels refer to them |
| Refresh loops | `service/subscription.go`, `cmd/server/startup.go`, `app/subscriptions_api.go` | map of cancel functions, goroutines | StartRefreshLoop, StopRefreshLoop, boot, SIGTERM | Add/DELETE overlap, refused DELETE, random `select` |
| Manual nodes | `service/subscription.go` | nodes of the `__manual__` subscription | add, edit, delete, import/export | check-then-insert, in-use check on one of two references |
| Peers and traffic | `service/peer.go`, `service/stats.go`, `infrastructure/db/peer_repo.go` | rows `wg_peers`, raw counters, snapshots | create (address allocation), edit, delete, stats tick | counters restart with the device; read-modify-write races |
| Sessions | `service/auth.go`, `service/refreshtoken/store.go`, `app/auth_public_api.go` | refresh sessions, login attempts, password hash | login, bootstrap, rotate, revoke, purge, password change | concurrent rotation, process restart forgets sessions |
| Websocket hub | `ws/hub.go`, `api/mount/websocket.go` | clients, three channels | register, unregister, broadcast, shutdown | messages overtake each other; nobody may block when the hub ends |
| Key files and TLS | `tls/manager.go`, `cmd/server/` (master and signing key) | four files, current certificate | load, create, generate, renew | files are truncated and then written, removed and made again; the process may die in between |
| Node health | `service/node_health.go` | snapshots per node | probeAll every 60 s | nodes deleted during a probe |
| Event log | `service/eventlog.go` | ring of 128 entries, audit table | Add, list | wrap-around |
| VLESS URIs | `vless/` | none | parse, build, transport and security registries | round trip |
| Frontend | `frontend/src/services/api.ts`, `frontend/src/hooks/` | tokens in cookies, stream state | refresh on 401, reconnect | several 401s at once |
| The rest | middleware, crypto, telemetry, exports, sysctl | none of its own | - | stateless plumbing, text layout, cryptography, pure I/O |

**How the parts interact.** HTTP handlers (one goroutine per request) call the
tunnel service, which calls the repositories, netconf and both managers; nothing
serialises requests. `main()` starts the refresh loops, then restores the tunnels
whose row says running, then serves; on SIGTERM it cancels the root context, closes
the hub, tears the tunnels down with a 15 s deadline while HTTP is still served,
and then stops HTTP. The refresh loops and the tunnel service share the node tables.
The statistics collector samples the tunnels the tunnel service tracks and sends to
the hub.

**What makes each part correct** (see the hazards in `PROJECT.json`, each at its line):
clients' packets are never forwarded unproxied; a tunnel that is not running holds no
kernel objects and one that is running holds all; the row says what a restart must
restore; a refresh keeps every tunnel's nodes and touches no other subscription;
every loop can be stopped and ends, and no other ends; the hub loses no connection and
blocks nobody; no byte is counted twice; the device has the table's peers and addresses are
unique; one use per refresh token; no crash costs the key that sealed the stored secrets;
no generated configuration lets a packet out directly.

## 2. Modules

| Module | Models | Checked by | Proofs |
|---|---|---|---|
| `TunnelLifecycle` | tunnel service, netconf, both managers, boot and shutdown | `MCTunnelLifecycle`, `tunnel_*.cfg` | `TunnelLifecycleProofs`, `TunnelPlaneProofs` |
| `SubscriptionRefresh` | FetchAndUpdate and the edits it races with | `MCSubscriptionRefresh`, `refresh_*.cfg` | `SubscriptionRefreshProofs` |
| `RefreshLoops` | the goroutines that refresh, Add, DELETE, boot, SIGTERM | `MCRefreshLoops`, `loops.cfg` | `RefreshLoopsProofs` |
| `WsHub` | the hub's goroutine and everything that talks to it | `MCWsHub`, `hub.cfg` | `WsHubProofs` |
| `Sessions` | login, bootstrap, refresh tokens, logout, change of password, a browser's cookies | `MCServices`, `services.cfg` | `ServicesProofs` |
| `TokenChain` | abstract: what rotating refresh tokens promise; `Sessions` implements it | the same | the same |
| `KeyMaterial` | master key, signing key and TLS pair on disk, renewal, crashes | `MCServices`, `services.cfg` | `ServicesProofs` |
| `NodeHealth` | the monitor's cycles, probes, semaphore and cache | `MCServices`, `services.cfg` | `ServicesProofs` |
| `Peers` | rows of peers, their addresses and the device's copy | `MCTables`, `tables.cfg`, `peers_routed.cfg` | `TablesProofs` |
| `Traffic` | a peer's counters, totals and rates | `MCTables`, `tables.cfg` | `TablesProofs` |
| `ManualNodes` | add, edit, delete and import of nodes by hand | `MCTables`, `tables.cfg` | `TablesProofs` |
| `XrayConfig` | BuildXrayConfig, where xray sends a packet under it, the health shown | `MCTables`, `tables.cfg` | `XrayConfigProofs` |

`MCServices` and `MCTables` put components side by side that share no state. A behaviour of
all of them is an interleaving of one behaviour of each, so the product would show nothing
new: the variable `part`, chosen initially, says which component is explored, and the others
stay at an initial state.

Definitions named "Mutation of X" are plausible bugs in X. They are not part of a
specification: they show, one per checked property, that the property notices.

### TunnelLifecycle

State: the process (`phase` of `main()`, `queue` of tunnels it still has to restore or
tear down), memory (`running` = RunSet, `tracked` = StatsCollector, `wg`, `xray` = the
managers' maps), the database (`row`, `nodes`), the network namespace (`dev`, `rule`,
`route`, `chain`, `fwd`, `nat`), and per goroutine the request in progress (`pc`, `op`,
`tun`, the row it has read `snap`, the node list it has read `cfg`, `cancelled`).

One action is one call of the code: a database operation, a netconf function, or a
manager call, split at its lock (`StartCreateTUN`/`StartRegister`,
`XrayInstance`/`XrayRegister`). Failures are further outcomes of the call and contain
what it has already done: the ip rule may be left behind when the route fails, the chain
may be partial. `RollbackStatus` and the `rb_*` steps are the branch of Start that
failed; `AfterTeardown` gives the order of `stopInternal` and of the rollbacks. Whole rows
read earlier are written back (`Written`), stale or not.

Decisions: database calls fail because the request's context ends (client gone, 15 s
of the shutdown), `RestoreRunning` uses a background context; other SQLite errors are not
modelled. The end of a context is a step just before a call that looks at it (`UsesContext`); earlier it
changes nothing. The teardown's deletes succeed. Creating a TUN link that exists fails (kernel).
`KeepNetns` distinguishes the two deployments: with docker-compose the namespace dies
with the container, in a shared namespace it survives and the entrypoint flushes
the mangle chains only. Ids are never reused. A row also names a link (`tun_name`; `Links`, own or another):
a PUT may change it while the tunnel is up, Start writes the tunnel's own name again, and every teardown but the
rollback of a Start goes by the name in the row it read (`Link`). With another name it leaves the tunnel's ACCEPT
rules and may remove those of the tunnel that has the link. (The statistics poll goes by the same name and then finds no
device, service/stats.go:93; `Traffic` has a poll without a device.)
`overlap` and `tainted` are history: a request that overlapped another for the same tunnel or tears down by
another link's name, and a tunnel that this, an expired shutdown or a crash in a surviving namespace
may have left in disorder. One undisturbed teardown by the tunnel's own name clears it. Properties that the code
only keeps for undisturbed tunnels say so with `tainted`; `tunnel_bypass` shows the proviso is needed. `Events` selects the kinds of
request a run allows.

### SubscriptionRefresh

State: `sub` rows, the nodes ever created (`node`, those that exist are `live`), `links`
(tunnel_nodes), the tunnels' `active` node and subscription, and per goroutine the
refresh in progress with its two snapshots. One action per transaction of
FetchAndUpdate: read, download (any of `Bodies`, or a failure, recorded or not), the two
snapshots, DeleteNodes, InsertNodes, RemapActive, RestoreLinks, FinalUpdate. A cancelled
context or a crash ends it between any two. It runs against SetNodes, PUT of a tunnel
(`PutTunnel`: subscription and active node), and the deletion of tunnels and subscriptions.
The tables are sequences in rowid order and `Where` is what a query selects of them.
`before` and `disturbed` are history for the
properties. An URI is a model value; nodes are matched by URI as in the code. A tunnel
whose active node belongs to another subscription than its own loses it in a refresh:
`RefreshKeepsBindings` speaks of tunnels bound to the subscription. It also says what the junction holds between two
transactions: the rows of tunnel_nodes for the nodes of this subscription are the old ones, none, or
those that stay, in order. This is no promise to a tunnel that starts in that window. RemapActive comes before
RestoreLinks, and a Start that finds no rows falls back to `active_node_id` or to the only node of the subscription
(service/tunnel.go:185-212), so a tunnel with several nodes may come up with one; a tunnel with nodes of two
subscriptions finds those of the other one.

### RefreshLoops

State: row status, the rows nothing is fetched for (`blank`: no URL, or the manual subscription), which subscriptions
tunnels use, and the loop of each: its goroutine, whether its context is cancelled or derives from the root
context, whether its cancel function is in the map. A FetchAndUpdate is two steps here, the read of the row
(`ReadRow`) and what it leaves (`FetchEnds`), so that it may write back a status a PUT has changed. It is run by
a loop, by Add and by POST refresh, which starts no loop; PUT may change status, URL and name and
touches no loop either. Ids are never reused and a loop is started once per id and process, so one loop per id is
enough, and the branch of StartRefreshLoop that replaces an entry is not taken. The client may go away before
the row is deleted. `skipped` (history) are the rows the last boot started no loop for: an inactive row, left by a
PUT or by an Add that died before its first download, stays without a loop until the next boot, even after a
requested refresh has made it active. The import (a sequence of Adds) is left out.

### WsHub

State: per connection its socket and the goroutine serving it (handler, then reader), the
three channels with their capacities, the client set, the hub's goroutine, Close. Each
ready case of a `select` is an action. A broadcast writes to all clients in one step,
because only the hub's goroutine uses the set; a write fails on a connection we closed and
may fail on any other.

### Sessions and TokenChain

State: the refresh sessions in memory (`sess`), the login each goes back to (`root`,
history), the password hash in the database, the failed attempts of one client address, the
two cookies of one browser, and the requests being served. Requests are split where the code
releases a lock or answers: the limiter looks, the password is compared, the attempt is
counted; the hash is looked for and later written; a session is entered, the tokens are signed, the
answer reaches the browser or is lost. Rotation is one step, as it is under the store's lock.
There is no clock: a session, an access token or an attempt may grow old at any moment, a
restart forgets sessions and attempts. A browser does not send the refresh cookie to the
logout endpoint (its Path is the refresh endpoint), a client with another cookie jar may:
`Logout` has both. An identifier is drawn once (`Jtis` bounds the draws).

`TokenChain` says what such a store promises: a login starts a chain, at most one token of a
chain is good, a token is handed out once, a chain that has ended never continues. The
refinement mapping takes the session still in the store for the chain's current token
(`CurrentOf`) and the drawn identifiers for the issued ones.

### KeyMaterial

State: the four files, each absent, torn, or holding a key, by name; the keys in memory; the
days the certificate in memory and the one on disk have left; the step of `main()` and of a
generation or renewal. `os.WriteFile` is two steps (truncate, write), since a death in
between leaves a torn file; the errors of `os.Remove` are ignored as in the code. What `main()` does with
a file it cannot use differs per file, and is kept: a master key of the wrong length is
replaced, a signing key that does not parse ends the process, a TLS pair is loaded when both
files are there and generated when one is missing. `sealed` and `kept` are history: the master
key that sealed the stored secrets, and a renewal that left the old key file behind.

### NodeHealth

State: the nodes in the table, the cycle of the monitor (what it listed, has still to look
at, is dialling), the places of the semaphore, the cache. Probes end in any order; nodes come
and go; nodes without an address are skipped; a cycle that cannot read the list or finds it
empty returns early and keeps the cache.

### Peers and Traffic

`Peers`: rows by id with client address and what they give the device (`Configs`: allowed_ips that are 0.0.0.0/0, the
peer's own address or unparsable, or an unparsable public key, which POST and PUT store unchecked), the device's copy, and
requests in progress. Choosing an address, inserting the row, listing the peers and configuring the device
are separate steps, and so are those of Start (read the peers, make the device, mark) and of Stop (destroy, clear the mark).
A request's context may end before each of its reads (`GiveUp`): after the row is written this leaves the reload
out. POST goes on with an empty list when only its list fails. `buildIPC` refuses a list with a key
that does not parse, and the device keeps its old peers; an allowed_ips that does not parse stops `IpcSet` half way
(`Applied`). PUT changes the row only. `crossed` (the device's list is out of date by another's write), `missed` (a
request's reload did not come about, or in part) and `shared` (an address was chosen by hand or by two
requests at once) are history for the provisos of the properties. Preshared keys are left out.

`Traffic`: one peer's row, the device's counter, which restarts with the device and with every
reload of its peers, and the collector's tick in three steps (poll, update with the sample of
the peer, sample of the tunnel). The `CASE` of the SQL update, which guesses from a smaller
value that the counter has restarted, is `Delta`. The bytes really transferred (`total`) and the most the row has
shown (`top`) are history. A PUT writes the body's counters: a value the caller read earlier, at most `top`, which is less
than the row has or, after another's PUT, more; or zero. That no caller makes up a number is an assumption; the code
checks nothing.

### ManualNodes

State: the subscriptions named `__manual__` (the code looks one up by name, or creates it, for
each request and once per process), their nodes, the tunnels' references and the requests in
progress, one step per transaction: look up, create, check, write, count. Foreign keys from tunnels to nodes refuse
the deletion of a node in use, whatever was checked before. There is none from a node to its subscription: deleting the
subscription leaves its nodes, and a request that has looked it up, or the process that holds its id, goes on inserting under it.
A tunnel created from a URI inserts its node without a check, and is itself refused when that subscription is
gone (the tunnel's subscription_id is a foreign key). `copied` and `sure` are history.

### XrayConfig

`BuildXrayConfig` as an operator on a list of nodes, the gateway and the strategy: inbounds,
tagged outbounds with the direct one behind them, rules, balancer with its fallback, observatory selector. Transports and
securities no registry knows fall back to tcp and none. How xray applies it (first rule that
names the inbound, the balancer's candidates, the fallback tag when none is alive, the first
outbound when no rule matches) is external and modelled as `config.go` relies on it. The state is the
running instance, the rows it was built from and the rows there are now, and what the
observatory has reported per outbound.

## 3. Runs

| Run | Instance | Shows |
|---|---|---|
| `tunnel_overlap` | 1 tunnel, 2 handlers; start, stop, delete | every link has one owner (`DeviceOwned`); between requests a tunnel not running holds nothing (`StoppedIsDown`) |
| `tunnel_shutdown` | 1 handler and main, every kind of request, PUT of `tun_name` included, cancelled requests, SIGTERM, a shutdown that runs out of time | `NoBypass`, `RunningIsUp`, `StoppedIsDown` |
| `tunnel_liveness` | 1 handler and main, death at any step, 1 restart, a namespace that survives the process, fairness | `RestartRestores`; requests return, boot serves, shutdown ends |
| `tunnel_bypass` | 2 handlers | **violated**: a Stop overlapping a Start leaves forwarding without TPROXY |
| `refresh_sequential` | 1 refresher, 2 subscriptions that may offer the same URI, empty and duplicate lists, up to 2 nodes per tunnel, failures and cancellation | `RefreshKeepsBindings`, `RefreshTouchesOwn` |
| `refresh_races` | 2 refreshers; assignment, edit and deletion of tunnels, deletion of the subscription | `NoDangling` |
| `refresh_overlap_loss` | 2 refreshers | **violated**: two overlapping refreshes leave a tunnel without nodes |
| `loops` | 1 subscription, 2 handlers that add, delete, refresh and edit, 1 restart, fairness | `LoopsReachable`, `NoOrphanLoop`, `DeletedLoopEnds`, `KeepsRefreshing` |
| `hub` | 2 connections, capacities 1, fairness | `Accounted`, `CloseMeansClosed`, `LeaversForgotten`, `NobodyBlocks` |
| `services` | sessions, key files and health monitor, each by itself, fairness | a login has one session (`LoginHasOneSession`) and the store implements `TokenChain` (`SessionsAreChains`); `SecretsSurvive`, `FilesMatch` and `BootServes` through crashes and file faults; every node that stays is probed |
| `tables` | peers, counters, manual nodes and xray configuration, each by itself | `DeviceFollowsTable`, `DistinctAddresses`; `NoOvercount`, `ExactCount`, `RateIsTraffic`; `ManualUrisDistinct`, `ManualNoDangling`, `CountRepaired`; `NeverDirect`, `HealthBelongs` |
| `peers_routed` | 2 requests, 3 peers | **violated**: with the allowed_ips every peer is given, only the last one configured is served (`EveryPeerServed`) |

Types are checked by `tunnel_overlap`, `services` and `tables`, and proved; those of `SubscriptionRefresh`,
`RefreshLoops` and `WsHub` are part of their proved invariants. `MCSubscriptionRefresh` also checks
`Where` against `SelectSeq` on every list of up to three rows.

The violated runs state what a comment or the README says; the findings in `PROJECT.json`
quote it. `BindingsSurvive` is violated in two more ways, listed as hazards: a tunnel deleted during
a refresh makes the one transaction that restores all tunnels' nodes fail, and a refresh
cancelled after DeleteNodes restores nothing.

Some behaviours are in the models, or known from the code, without a property, because the code makes no
claim about them or because they are the exceptions a property names:

* Tunnels: a PUT of `tun_name` followed by a Stop leaves the ACCEPT rules of the tunnel and an emptied chain; a PUT that read
  "stopped" before a Start writes it back afterwards, and the next boot does not restore the tunnel; a list changed by
  SetTunnelNodes or by a refresh while an instance is built from the old one stays unnoticed until the next reload; after a
  PUT of a tunnel's address the old MASQUERADE rule stays.
* Subscriptions: a refresh writes back an older name, URL, interval or status and wins over an assignment made meanwhile;
  a death before the first download leaves a subscription inactive, and without a loop until the boot after
  a requested refresh; a DELETE that is refused has already stopped the loop; nodes of a deleted subscription stay in the
  table; two manual subscriptions may be created at once after the first was deleted.
* Peers: one stored key that does not parse makes every later reload and every later Start of the tunnel fail; one
  allowed_ips that does not parse leaves the device with a part of its peers; the rate of a tunnel may be negative.
* Sessions and keys: a logout in a browser revokes nothing and may be undone by the answer of an earlier refresh; two
  bootstraps at once both succeed; requests that passed the login limiter together all get their attempt; renewal looks at
  the certificate in memory once a day of uptime.

Several properties hold only with a proviso, which a history variable states: `tainted` (above), `raced`, `refused` and
`skipped` (a DELETE that overlapped the Add, one that failed after stopping the loop, a boot that passed over the row),
`kept` (a TLS pair may be mixed after a removal that failed or a death between the two removals),
`inexact` (the four ways bytes get lost), no earlier sample (`sampleAt`: the first rate of a process, and
one after a PUT that raised the total), `crossed`, `missed` and `shared` (overlapping, unfinished or unparsable requests about
peers), `copied` and `sure` (overlapping requests about manual nodes). Each is set only in the
case its comment names, so the property also says that nothing else causes the disorder; the races themselves are not
ruled out by these properties, and the hazards in `PROJECT.json` say which of them stay open. `SecretsSurvive` and
`FilesMatch` speak of deaths of the process: what was written is on disk afterwards, a loss of power is not modelled.
`StayingNodesProbed` speaks of the first probe of a node.

**Bounds.** Tunnels do not share state except through the restore and shutdown queues and a row that names another
tunnel's link (the proofs have any number of tunnels), so one tunnel, a link that is not its own (`OtherLink`) and two goroutines reach every interleaving of two requests; `main()` is a further actor where
boot and shutdown matter. Subscriptions share no loop state, and the theorems of `RefreshLoops`
and `WsHub` cover any number of subscriptions and connections. One restart shows what a restart makes of every state. Two
nodes per list, with duplicates, distinguish order, position and multiplicity; `MaxId`
allows at least one full refresh by each refresher. With one subscription `refresh_races` has no
tunnel that moves from one to another; the proofs have it. Channel capacities are small so
that full channels occur; the hub's liveness needs two connections, one in the full
channel and one waiting. `services`: three tokens allow a login and two rotations, or two logins and one,
of two requests at once; a limit of one failed attempt is reached; three faults are one more than a
mixed TLS pair needs; a certificate of three days is renewed in its last two; three nodes,
one of them undialable, and one place in the semaphore make probes wait. `tables`: three peers with two
addresses run out of addresses and reuse one, one row at a time is not as POST fills it in (`MaxOdd`), and a
PUT makes it unparsable (`PutConfigs`; `peers_routed` has every other value, the proofs all); three bytes let a counter restart and pass its last value;
two manual subscriptions, two nodes and two URIs allow duplicates, both references to a node and a
deleted subscription; node lists of up to three reach a tunnel without nodes, the single-node and the balanced
configuration. Requests and URIs are interchangeable there (SYMMETRY), and only invariants are checked.
Deadlock checking is off where the process may end or bounded counters run out; `services` and
`tables` are checked for deadlock.

**Fairness.** Weak fairness on the steps of each goroutine: the Go runtime schedules
every runnable goroutine, and the calls modelled as steps return. Strong fairness where a
`select` chooses among ready cases at random (a cancelled loop whose timer keeps firing,
the hub's channels): a case that is ready again and again is taken. The 2 s ticker of the
collector keeps broadcasting. In `services` the supervisor restarts the process and `main()` runs on
(`BootStep`), the monitor's ticker fires and its loop goes on, and every dial ends because it has
a timeout. Nothing is assumed of users, signals and failures.

## 4. Proofs

All theorems hold for any sets of tunnels, handlers, subscriptions, connections, tokens,
requests or nodes, any events, any number of bytes, restarts and faults. The assumptions are those on
the constants in each module: distinct model values, natural bounds, at least one subnet, a non-empty range
of addresses, and finite sets of clients, subscriptions and tunnels (they are rows of a database).
None of the invariants below is weakened to a run's bounds; each was first checked by TLC as an invariant.

Tunnels.

* `TunnelLifecycleProofs!TypeCorrect`: `TypeOK` is inductive; one step per action.
* `DeviceOwnedAlways`: `DeviceOwned` is inductive with the types. A Start that finds the link
  absent creates it and is alone until it registers the device, because the kernel refuses
  a second creation.
* `NoBypassAlways`: `NoBypass` is not inductive. A Start adds the forward rules several calls after the
  chain and a teardown removes them several calls before it, so the proof needs to know
  where an undisturbed request stands. `BypassInv` says that overlapping requests know
  of each other and taint the tunnel, that an undisturbed teardown past its first call has no
  forward rules (undisturbed: also by the tunnel's own link name), that an undisturbed Start works on a tunnel that is not running and has its
  chain attached when it adds the rules, and who may hold forward rules at all (the RunSet, a
  pending drain, or a request at one of five steps).
* `TunnelPlaneProofs!StoppedIsDownAlways`, `RunningIsUpAlways`: both speak of moments at which no request
  is half way, so their invariant has to speak of all the others. `PlaneInv` says, for every step of a Start,
  a rollback and a teardown left alone, exactly which of the device, route, chain, forward rules, MASQUERADE,
  instance and collector entry are in place. A step touches its own tunnel only (`SameElsewhere`), so two facts per
  step are enough: the request's own account holds afterwards, and the tunnel is in order when it returns.
* `RestartRestoresAlways`: whole rows read earlier are written back, so `PersistInv`
  says of each request what it may rely on of the row it holds, and of `main()` that what it has still to drain is
  recorded, and that an undisturbed tunnel in the RunSet is stored as running. The theorem is an action property
  of the step in which the process dies.
* `TunnelLifecycleProofs!RequestsDescendAlways`: `CallsLeft` numbers the steps of a request so that each call, a
  failure or the first of a rollback too, leads to a smaller number; it starts at 25 or less. `MainListShrinksAlways`: the
  list of `main()` only gets shorter until its phase is over. Together they are what `RequestsReturn`, `BootServes`
  and `ShutdownEnds` need besides the fairness of each call.

Refresh.

* `SubscriptionRefreshProofs!NoDanglingAlways`, `RefreshTypesAlways`: `DbInv` states the property on the
  sequences of rows and is inductive with the types of the refreshes' locals (`JobInv`): the foreign keys refuse what
  became stale between the snapshot and its restoration.
* `RefreshTouchesOwnAlways`: `OwnInv` says that the ids a refresh has inserted are those of its own subscription,
  one for each URI (`FreshInv`), that two refreshes of one subscription know of each other (`AloneInv`), and
  that what an undisturbed refresh has copied of active nodes is still so (`BoundInv`).
* `RefreshKeepsBindingsAlways`: the property compares the end of a refresh with its beginning, ten transactions
  earlier. `KeepsInv` says what stands at each of them: the references as they were, then also the copies, then
  only the copies, then the restored ones, `Where` the URI is offered; active nodes one by one, as they are remapped.
  Steps of other refreshes leave all that alone (`Frame`) by the previous theorem; requests disturb it by definition.
  What the junction holds of the subscription in between (`Readable`) follows from the same invariant at every one of its stages.
  The proof rests on what `Where` selects of a longer, a restricted or a concatenated table.

The other parts.

* `RefreshLoopsProofs!LoopsReachableAlways`, `NoOrphanLoopAlways`: `LoopInv` adds `Handshake`:
  between the two steps of a DELETE no Add starts the loop again, and an Add that no DELETE
  overlapped finds its row.
* `HasLoopAlways`, the converse: until SIGTERM every subscription has a loop that goes on, or an Add about to start it,
  except those the last boot passed over and those with a DELETE that overlapped, failed or is under way. It needs
  that nothing was cancelled or registered before the Add (`AddsStartAfresh`).
* `WsHubProofs!AccountedAlways`, `CloseMeansClosedAlways`: `HubInv` adds that Close waits for the
  goroutine and that the goroutine leaves no clients. `WaitersReleasedAlways`: whoever waits for a full channel, or in
  Close, waits while the goroutine still runs and has something to take out, or the context is cancelled.
  `LeaversExpectedAlways`, `StayForgottenAlways`: each connection is registered once and unregistered by its own
  reader (`OncePerConn`), so a client that left is expected to go, and once it is forgotten nothing takes it up again.
* `ServicesProofs!LoginHasOneSessionAlways`: `SessInv` adds to the types that no session goes back to a token
  that was never drawn (`RootsUsed`) and that a request holds only drawn tokens (`TokensUsed`),
  so a new login cannot meet an old session.
* `ImplementsTokenChain`: every step is of one of three kinds, sessions end, one begins, or one
  replaces another; each kind is shown once to be a step of `TokenChain` (`End`, `Issue`, `Advance`)
  under the refinement mapping, or to leave its variables alone.
* `ServicesProofs!SecretsSurviveAlways`: `MasterInv` says that the master key file keeps its key
  once something is sealed, whatever the process is doing. `FilesMatchAlways`: `PairInv` says which step of a generation
  may find which files, so that only a key file left behind by a renewal can meet a new certificate.
  `BootAdvancesAlways`: `StepsLeft` numbers the steps of a boot, and only a fault or damaged files lead to a larger number.
* `ServicesProofs!PlacesAreProbesAlways`: the occupied places of the monitor's semaphore are as many as the probes in the
  air, and a node is launched once per cycle; that the count never leaves its bounds rests on it.
  `CycleMissesNobodyAlways`: each listed node is to be looked at, in the air, answered or undialable (`OnlyDialable`).
* `ServicesTypesAlways`, `TablesTypesAlways`: `EachPart` shows that a behaviour of the composed specification is one of
  each part, so the types of the whole follow from those of the parts. The counters of `Traffic` stay natural
  numbers because `NoOvercount`'s invariant bounds what a tick adds.
* `TablesProofs!DistinctAddressesAlways`: the address a request has chosen must still be free when its row is
  stored (`FreeAddress`), and no address is free that a row has. `DeviceFollowsTableAlways`: `SomeoneReloads` says that what a
  Start has read and built is the table, and that whenever the device of a running tunnel differs from the table some
  request has yet to list and reload it, unless a list was crossed or a reload missed.
* `ManualNoDanglingAlways`, `ManualUrisDistinctAlways`, `CountRepairedAlways`: a request looks in one transaction
  and writes in a later one; `ManualShape` and `Sound` say what of the look still holds then, `NewUri` that a
  URI found to be new still is while no other request is between look and write, `CountsAlone` that the
  number a request counted is right while it runs alone, `SubsKnown` that no node names a subscription that has not been yet.
* `TablesProofs!NoOvercountAlways`: `rx <= total` is not inductive; what the tick in progress and
  the next one will add must be covered by what was transferred. `ExactCountAlways` and
  `RateIsTrafficAlways` use the same invariant with the history of restarts and polls; a PUT that raises the total ends
  the comparison with the last sample.
* `XrayConfigProofs!NeverDirectAlways`, `HealthBelongsAlways`: the instance is always the configuration
  built from the list in `from` (`BuiltFrom`); the rest are lemmas about the built configuration: every inbound is routed,
  the selected outbounds are exactly those to nodes, and the fallback is one of them.

Only model-checked: liveness, since fairness and ENABLED are out of the prover's reach. Every invariant and every action
property a passing run checks is proved; what remains are `RequestsReturn`, `BootServes` and `ShutdownEnds` of
the tunnels, `DeletedLoopEnds`, `KeepsRefreshing`, `LeaversForgotten`, `NobodyBlocks`, `BootServes` of the key files and
`StayingNodesProbed`. Of each of them the part that does not speak of time is a theorem: `RequestsDescend` and
`MainListShrinks`; `NoOrphanLoop` and `HasLoop`; `LeaversExpected`, `StayForgotten` and `WaitersReleased`;
`BootAdvances`; `CycleMissesNobody`. The library's induction theorems take an operator and cannot be used; where a proof needs
induction over numbers or sequences it takes the least element of a set of counterexamples (`Least`, `SeqInduction`),
and `Where` is a recursive function for that reason.

## 5. Plan

In this order:

1. An abstract tunnel (down, up, in between) which `TunnelLifecycle` implements when requests do
   not overlap; an abstract refresh that replaces all nodes atomically, implemented by
   undisturbed refreshes.
2. Composition of the tunnel and refresh models over the shared node tables: which node a Start or a restore
   at boot falls back to between DeleteNodes and RestoreLinks, and a stale `active_node_id` written back against the
   foreign key. `RefreshKeepsBindings` has only the rows of one subscription. The product is too large for a run as the
   models stand; it needs a coarser tunnel, the one of point 1.

## 6. Not modelled

* The event log: an append-only table and a list capped in memory; no other part reads it.
* VLESS URI parsing and building: what it accepts is a matter of characters. The models know whether
  two URIs are equal.
* Middleware, exports, telemetry, endpoint lookup and sysctl: stateless, text layout or best-effort I/O.
* Cryptography: signatures and sealing are taken to be sound; `KeyMaterial` has which key sealed what.
* The rules inside the TPROXY chain and the IPC text of the device: fixed text for the kernel and for
  wireguard-go. The models have when a chain is attached and which peers a device is given.
* The history of traffic samples, its pruning and the sums over peers; one peer stands for all.
* A subscription's interval, the renaming of the manual subscription, and the import of subscriptions, a
  sequence of Adds. (`RefreshLoops` has a PUT of status, URL and name, `ManualNodes` one of the node count.)
* Preshared keys of peers, and a refresh that changes a tunnel's node list while `ReloadNodes` builds an instance.
* Pages and components of the frontend: layout. Its cookies and its refresh after a 401 are the browser of `Sessions`.
