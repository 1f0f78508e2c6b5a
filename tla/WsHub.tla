------------------------------- MODULE WsHub -------------------------------
(***************************************************************************)
(* The websocket hub: one goroutine, Hub.run, owns the set of clients; the *)
(* request handlers, one reader per connection and the statistics          *)
(* collector talk to it over three buffered channels.  A select with       *)
(* several ready cases takes any of them, so each case is an action.       *)
(* Only Hub.run uses the client set, so a whole case is one step.          *)
(***************************************************************************)
EXTENDS Naturals, Sequences, FiniteSets

CONSTANTS
    Conns,         \* websocket connections
    CapRegister,   \* capacities of the channels (32, 32 and 64 in the code)
    CapUnregister,
    CapBroadcast

ASSUME CapAssumption ==
    CapRegister \in Nat /\ CapUnregister \in Nat /\ CapBroadcast \in Nat

VARIABLES
    conn,        \* "none", "open", "gone" (the client left), "closed" (by us)
    pc,          \* the handler of a connection, then its reader goroutine
    register, unregister,   \* channels of connections
    broadcast,   \* messages in the channel
    clients,     \* h.clients; empty for ever once it is nil
    hub,         \* goroutine Hub.run
    cancelled,   \* h.ctx
    closer       \* the call of Close in main()

chanVars == <<register, unregister, broadcast>>
vars == <<conn, pc, chanVars, clients, hub, cancelled, closer>>

TypeOK ==
    /\ conn \in [Conns -> {"none", "open", "gone", "closed"}]
    /\ pc \in [Conns -> {"none", "register", "reading", "unregister", "done"}]
    /\ register \in Seq(Conns) /\ Len(register) <= CapRegister
    /\ unregister \in Seq(Conns) /\ Len(unregister) <= CapUnregister
    /\ broadcast \in 0 .. CapBroadcast
    /\ clients \subseteq Conns
    /\ hub \in {"running", "ended"}
    /\ cancelled \in BOOLEAN
    /\ closer \in {"idle", "waiting", "ok", "timeout"}

Close(S) == conn' = [c \in Conns |-> IF c \in S THEN "closed" ELSE conn[c]]
Goto(c, p) == pc' = [pc EXCEPT ![c] = p]

-----------------------------------------------------------------------------
(* Connections *)

\* GET /ws/stats is upgraded; the handler calls Register.
Upgrade(c) ==
    /\ conn[c] = "none"
    /\ conn' = [conn EXCEPT ![c] = "open"]
    /\ Goto(c, "register")
    /\ UNCHANGED <<chanVars, clients, hub, cancelled, closer>>

\* Register: the connection is queued and its reader starts.
RegisterSend(c) ==
    /\ pc[c] = "register" /\ Len(register) < CapRegister
    /\ register' = Append(register, c)
    /\ Goto(c, "reading")
    /\ UNCHANGED <<conn, unregister, broadcast, clients, hub, cancelled, closer>>

\* Register after cancellation closes it instead; the reader starts all the same.
RegisterDone(c) ==
    /\ pc[c] = "register" /\ cancelled
    /\ Close({c})
    /\ Goto(c, "reading")
    /\ UNCHANGED <<chanVars, clients, hub, cancelled, closer>>

ClientLeaves(c) ==
    /\ conn[c] = "open"
    /\ conn' = [conn EXCEPT ![c] = "gone"]
    /\ UNCHANGED <<pc, chanVars, clients, hub, cancelled, closer>>

\* ReadMessage fails: the deferred Unregister runs.
ReadFails(c) ==
    /\ pc[c] = "reading" /\ conn[c] \in {"gone", "closed"}
    /\ Goto(c, "unregister")
    /\ UNCHANGED <<conn, chanVars, clients, hub, cancelled, closer>>

UnregisterSend(c) ==
    /\ pc[c] = "unregister" /\ Len(unregister) < CapUnregister
    /\ unregister' = Append(unregister, c)
    /\ Goto(c, "done")
    /\ UNCHANGED <<conn, register, broadcast, clients, hub, cancelled, closer>>

\* Mutation of UnregisterDone: a plain send, which nobody may receive.
UnregisterDoneNever(c) == pc[c] = "unregister" /\ FALSE /\ UNCHANGED vars

UnregisterDone(c) ==
    /\ pc[c] = "unregister" /\ cancelled
    /\ Goto(c, "done")
    /\ UNCHANGED <<conn, chanVars, clients, hub, cancelled, closer>>

\* The collector's tick, every two seconds: a message is queued (dropped when
\* the channel is full, perhaps dropped when the hub is cancelled).
Broadcast ==
    /\ broadcast < CapBroadcast
    /\ broadcast' = broadcast + 1
    /\ UNCHANGED <<conn, pc, register, unregister, clients, hub, cancelled, closer>>

-----------------------------------------------------------------------------
(* Hub.run *)

HubRegister ==
    /\ hub = "running" /\ register # <<>>
    /\ register' = Tail(register)
    /\ clients' = clients \cup {Head(register)}
    /\ UNCHANGED <<conn, pc, unregister, broadcast, hub, cancelled, closer>>

HubUnregister ==
    /\ hub = "running" /\ unregister # <<>>
    /\ unregister' = Tail(unregister)
    /\ clients' = clients \ {Head(unregister)}
    /\ Close({Head(unregister)})
    /\ UNCHANGED <<pc, register, broadcast, hub, cancelled, closer>>

\* Mutation of HubBroadcast: a client that cannot be written to is kept.
HubBroadcastKeeps ==
    /\ hub = "running" /\ broadcast > 0
    /\ broadcast' = broadcast - 1
    /\ \E failed \in SUBSET clients :
          /\ {c \in clients : conn[c] = "closed"} \subseteq failed
          /\ Close(failed)
    /\ UNCHANGED <<pc, register, unregister, clients, hub, cancelled, closer>>

\* A write fails on a connection we have closed, and may fail on any other.
HubBroadcast ==
    /\ hub = "running" /\ broadcast > 0
    /\ broadcast' = broadcast - 1
    /\ \E failed \in SUBSET clients :
          /\ {c \in clients : conn[c] = "closed"} \subseteq failed
          /\ Close(failed)
          /\ clients' = clients \ failed
    /\ UNCHANGED <<pc, register, unregister, hub, cancelled, closer>>

\* Mutation of HubDone: the loop returns without the call of shutdown.
HubDoneAtOnce ==
    /\ hub = "running" /\ cancelled
    /\ clients' = {} /\ hub' = "ended"
    /\ UNCHANGED <<conn, pc, chanVars, cancelled, closer>>

\* ctx.Done(): shutdown closes every client and the loop returns.
HubDone ==
    /\ hub = "running" /\ cancelled
    /\ Close(clients)
    /\ clients' = {} /\ hub' = "ended"
    /\ UNCHANGED <<pc, chanVars, cancelled, closer>>

-----------------------------------------------------------------------------
(* Shutdown of the process *)

\* main() cancels the parent context.
RootCancel ==
    /\ ~cancelled /\ cancelled' = TRUE
    /\ UNCHANGED <<conn, pc, chanVars, clients, hub, closer>>

\* Some calls later it calls Close.
CloseCall ==
    /\ closer = "idle" /\ cancelled
    /\ closer' = "waiting"
    /\ UNCHANGED <<conn, pc, chanVars, clients, hub, cancelled>>

\* Mutation of CloseReturn: it does not wait for the goroutine.
CloseReturnEarly ==
    /\ closer = "waiting"
    /\ closer' = "ok"
    /\ UNCHANGED <<conn, pc, chanVars, clients, hub, cancelled>>

CloseReturn ==
    /\ closer = "waiting"
    /\ \/ hub = "ended" /\ closer' = "ok"
       \/ closer' = "timeout"
    /\ UNCHANGED <<conn, pc, chanVars, clients, hub, cancelled>>

Init ==
    /\ conn = [c \in Conns |-> "none"] /\ pc = [c \in Conns |-> "none"]
    /\ register = <<>> /\ unregister = <<>> /\ broadcast = 0
    /\ clients = {} /\ hub = "running" /\ cancelled = FALSE /\ closer = "idle"

ConnStep(c) ==
    RegisterSend(c) \/ RegisterDone(c) \/ ReadFails(c) \/ UnregisterSend(c) \/ UnregisterDone(c)

Next ==
    \/ \E c \in Conns : Upgrade(c) \/ ClientLeaves(c) \/ ConnStep(c)
    \/ Broadcast \/ HubRegister \/ HubUnregister \/ HubBroadcast \/ HubDone
    \/ RootCancel \/ CloseCall \/ CloseReturn

\* Goroutines are scheduled, the collector ticks, and select chooses at random:
\* a case that is ready again and again is taken.
Fairness ==
    /\ \A c \in Conns : SF_vars(ConnStep(c))
    /\ WF_vars(Broadcast) /\ WF_vars(CloseReturn)
    /\ SF_vars(HubRegister) /\ SF_vars(HubUnregister) /\ SF_vars(HubBroadcast)
    /\ SF_vars(HubDone)

Spec == Init /\ [][Next]_vars
FairSpec == Spec /\ Fairness
-----------------------------------------------------------------------------
(* Properties *)

Queued(c) == \E i \in 1 .. Len(register) : register[i] = c

\* The hub loses no connection: one that has passed Register and that we have
\* not closed is a client or waits to become one.
Accounted ==
    \A c \in Conns :
        pc[c] \notin {"none", "register"} /\ conn[c] # "closed"
            => c \in clients \/ Queued(c)

\* When Close reports success, every connection that got past Register is
\* closed, except for those the hub never took from the channel.
CloseMeansClosed ==
    closer = "ok" =>
        \A c \in Conns : \/ pc[c] \in {"none", "register"} \/ conn[c] = "closed"
                        \/ Queued(c)

\* A client that left is forgotten for good, although its unregistration may
\* overtake its registration: the next broadcast then drops it.
LeaversForgotten ==
    \A c \in Conns : conn[c] = "gone" ~> [](c \notin clients)

\* Neither a handler nor a reader waits for ever for a full channel, also not
\* when the hub has ended, and Close returns.
NobodyBlocks ==
    /\ \A c \in Conns : pc[c] = "register" ~> pc[c] # "register"
    /\ \A c \in Conns : pc[c] = "unregister" ~> pc[c] = "done"
    /\ closer = "waiting" ~> closer \in {"ok", "timeout"}
=============================================================================
