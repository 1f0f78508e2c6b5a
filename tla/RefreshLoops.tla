---------------------------- MODULE RefreshLoops ----------------------------
(***************************************************************************)
(* The goroutines that refresh subscriptions: which of them run, how they  *)
(* are started by main() and by SubscriptionService.Add, and how DELETE    *)
(* and shutdown stop them, next to requests that fetch or edit the row.    *)
(* StartRefreshLoop and StopRefreshLoop hold the service's mutex and are   *)
(* one step; a FetchAndUpdate is two, its read of the row and what it      *)
(* leaves (SubscriptionRefresh has its transactions).                      *)
(*                                                                         *)
(* An id is used for one subscription only, and main() and Add start a     *)
(* loop at most once for it, so the state of "the loop of s" is enough.    *)
(***************************************************************************)
EXTENDS Naturals, FiniteSets

CONSTANTS
    Subs,         \* subscription ids
    Handlers,     \* goroutines serving requests
    NoSub,
    MaxRestarts   \* bound on process restarts

ASSUME NoSubAssumption == NoSub \notin Subs
ASSUME MaxRestartsAssumption == MaxRestarts \in Nat

VARIABLES
    row,          \* status in the subscriptions table
    blank,        \* rows nothing is fetched for: no url, or named __manual__
    used,         \* subscriptions some tunnel refers to (foreign key)
    up,           \* FALSE from SIGTERM on
    restarts,
    loop,         \* goroutine refreshLoop of the subscription
    root,         \* loops whose context derives from rootCtx
    cancelled,    \* loops whose context is cancelled
    registered,   \* ids in the map "stopped"
    pc, on,       \* requests in progress
    seen, read,   \* the status a loop, a request has read and may write back
    raced,        \* history: an Add and a DELETE of the id overlapped
    refused,      \* history: a DELETE failed since boot
    skipped       \* history: boot found the row and started no loop for it

rowVars  == <<row, blank>>
loopVars == <<loop, root, cancelled, registered, seen>>
jobVars  == <<pc, on, read>>
histVars == <<raced, refused, skipped>>
vars     == <<rowVars, used, up, restarts, loopVars, jobVars, histVars>>

Stored == {"inactive", "active", "error"}
Unread == "unread"

TypeOK ==
    /\ row \in [Subs -> Stored \cup {"unborn", "deleted"}]
    /\ blank \subseteq Subs /\ used \subseteq Subs
    /\ up \in BOOLEAN /\ restarts \in 0 .. MaxRestarts
    /\ loop \in [Subs -> {"none", "waiting", "fetching", "ended"}]
    /\ root \subseteq Subs /\ cancelled \subseteq Subs /\ registered \subseteq Subs
    /\ pc \in [Handlers -> {"idle", "add_fetch", "add_loop", "delete", "refresh"}]
    /\ on \in [Handlers -> Subs \cup {NoSub}]
    /\ seen \in [Subs -> Stored \cup {Unread}]
    /\ read \in [Handlers -> Stored \cup {Unread}]
    /\ raced \subseteq Subs /\ refused \subseteq Subs /\ skipped \subseteq Subs

Exists(s) == row[s] \in Stored
Running(s) == loop[s] \in {"waiting", "fetching"}

\* FetchAndUpdate reads the row first; it does nothing for one that is not there
\* or has nothing to fetch.
ReadRow(s) == IF Exists(s) /\ s \notin blank THEN row[s] ELSE Unread

\* What FetchAndUpdate leaves after it has read the status st: success, a failure
\* that is recorded (as an error while there are no nodes), or nothing.  The whole
\* row is written, with the url and name it had then.
FetchEnds(s, st) ==
    \/ UNCHANGED rowVars
    \/ /\ st # Unread /\ Exists(s)
       /\ \E new \in {st, "active", "error"} : row' = [row EXCEPT ![s] = new]
       /\ blank' = blank \ {s}

Adding(s) == \E h \in Handlers : on[h] = s /\ pc[h] \in {"add_fetch", "add_loop"}
Deleting(s) == \E h \in Handlers : on[h] = s /\ pc[h] = "delete"

-----------------------------------------------------------------------------
(* The loops *)

\* The subscriptions startSubscriptionLoops starts a loop for.
BootLoops == {s \in Subs : row[s] \in {"active", "error"} /\ s \notin blank}

\* The timer fires.  select picks any ready case, so also after a cancel, with
\* which FetchAndUpdate cannot read the row.
LoopTick(s) ==
    /\ loop[s] = "waiting"
    /\ loop' = [loop EXCEPT ![s] = "fetching"]
    /\ seen' = [seen EXCEPT ![s] = IF s \in cancelled THEN Unread ELSE ReadRow(s)]
    /\ UNCHANGED <<rowVars, used, up, restarts, root, cancelled, registered, jobVars,
                   histVars>>

\* Mutation of LoopFetch: a fetch that writes nothing ends the loop.
LoopFetchGivesUp(s) ==
    /\ loop[s] = "fetching"
    /\ FetchEnds(s, seen[s])
    /\ loop' = [loop EXCEPT ![s] = IF row' = row THEN "ended" ELSE "waiting"]
    /\ seen' = [seen EXCEPT ![s] = Unread]
    /\ UNCHANGED <<used, up, restarts, root, cancelled, registered, jobVars, histVars>>

\* The end of FetchAndUpdate and the reset of the timer, whatever the outcome.
LoopFetch(s) ==
    /\ loop[s] = "fetching"
    /\ IF s \in cancelled THEN UNCHANGED rowVars ELSE FetchEnds(s, seen[s])
    /\ loop' = [loop EXCEPT ![s] = "waiting"]
    /\ seen' = [seen EXCEPT ![s] = Unread]
    /\ UNCHANGED <<used, up, restarts, root, cancelled, registered, jobVars, histVars>>

\* Mutation of LoopEnd: the loop looks itself up in the map of cancel functions,
\* from which StopRefreshLoop has just removed it.
LoopEndByMap(s) ==
    /\ loop[s] = "waiting" /\ s \in cancelled \cap registered
    /\ loop' = [loop EXCEPT ![s] = "ended"]
    /\ UNCHANGED <<rowVars, used, up, restarts, root, cancelled, registered, seen,
                   jobVars, histVars>>

\* ctx.Done().
LoopEnd(s) ==
    /\ loop[s] = "waiting" /\ s \in cancelled
    /\ loop' = [loop EXCEPT ![s] = "ended"]
    /\ UNCHANGED <<rowVars, used, up, restarts, root, cancelled, registered, seen,
                   jobVars, histVars>>

-----------------------------------------------------------------------------
(* Requests *)

\* Request h goes on at p, on s, holding the status st.
Step(h, p, s, st) ==
    /\ pc' = [pc EXCEPT ![h] = p]
    /\ on' = [on EXCEPT ![h] = s]
    /\ read' = [read EXCEPT ![h] = st]

\* SubscriptionService.Add: the row is created inactive, with any url, and read
\* at once for the first fetch.
AddCreate(h, s) ==
    /\ pc[h] = "idle" /\ row[s] = "unborn"
    /\ row' = [row EXCEPT ![s] = "inactive"]
    /\ \/ UNCHANGED blank /\ Step(h, "add_fetch", s, "inactive")
       \/ blank' = blank \cup {s} /\ Step(h, "add_fetch", s, Unread)
    /\ raced' = IF Deleting(s) THEN raced \cup {s} ELSE raced
    /\ UNCHANGED <<used, up, restarts, loopVars, refused, skipped>>

\* The end of the first fetch, in the context of the request.
AddFetch(h) ==
    /\ pc[h] = "add_fetch"
    /\ FetchEnds(on[h], read[h])
    /\ Step(h, "add_loop", on[h], Unread)
    /\ UNCHANGED <<used, up, restarts, loopVars, histVars>>

\* POST /subscriptions/:id/refresh: a fetch in the context of the request, for
\* any subscription, which starts no loop.
RefreshBegin(h, s) ==
    /\ pc[h] = "idle"
    /\ Step(h, "refresh", s, ReadRow(s))
    /\ UNCHANGED <<rowVars, used, up, restarts, loopVars, histVars>>

RefreshEnd(h) ==
    /\ pc[h] = "refresh"
    /\ FetchEnds(on[h], read[h])
    /\ Step(h, "idle", NoSub, Unread)
    /\ UNCHANGED <<used, up, restarts, loopVars, histVars>>

\* PUT /subscriptions/:id: status, url and name are what the body says.  Loops
\* are neither started nor stopped.
PutSub(s) ==
    /\ Exists(s)
    /\ \E st \in Stored : row' = [row EXCEPT ![s] = st]
    /\ blank' \in {blank \ {s}, blank \cup {s}}
    /\ UNCHANGED <<used, up, restarts, loopVars, jobVars, histVars>>

\* Mutation of AddLoop: the cancel function is not kept.
AddLoopUnregistered(h) ==
    LET s == on[h] IN
    /\ pc[h] = "add_loop"
    /\ loop' = [loop EXCEPT ![s] = "waiting"]
    /\ Step(h, "idle", NoSub, Unread)
    /\ UNCHANGED <<rowVars, used, up, restarts, root, cancelled, registered, seen,
                   histVars>>

\* StartRefreshLoop with context.Background().
AddLoop(h) ==
    LET s == on[h] IN
    /\ pc[h] = "add_loop"
    /\ loop' = [loop EXCEPT ![s] = "waiting"]
    /\ registered' = registered \cup {s}
    /\ Step(h, "idle", NoSub, Unread)
    /\ UNCHANGED <<rowVars, used, up, restarts, root, cancelled, seen, histVars>>

\* Mutation of DeleteStop: the loop is not stopped.
DeleteStopMissing(h, s) ==
    /\ pc[h] = "idle"
    /\ raced' = IF Adding(s) THEN raced \cup {s} ELSE raced
    /\ Step(h, "delete", s, Unread)
    /\ UNCHANGED <<rowVars, used, up, restarts, loopVars, refused, skipped>>

\* DELETE: StopRefreshLoop first, whether or not the row exists.
DeleteStop(h, s) ==
    /\ pc[h] = "idle"
    /\ cancelled' = IF s \in registered THEN cancelled \cup {s} ELSE cancelled
    /\ registered' = registered \ {s}
    /\ raced' = IF Adding(s) THEN raced \cup {s} ELSE raced
    /\ Step(h, "delete", s, Unread)
    /\ UNCHANGED <<rowVars, used, up, restarts, loop, root, seen, refused, skipped>>

\* Then the row.  The foreign key protects it while a tunnel refers to it, and
\* the statement fails when the client has gone.
DeleteSub(h) ==
    LET s == on[h] IN
    /\ pc[h] = "delete"
    /\ \/ UNCHANGED row /\ refused' = refused \cup {s}
       \/ /\ s \notin used
          /\ row' = [row EXCEPT ![s] = IF Exists(s) THEN "deleted" ELSE @]
          /\ UNCHANGED refused
    /\ Step(h, "idle", NoSub, Unread)
    /\ UNCHANGED <<blank, used, up, restarts, loopVars, raced, skipped>>

\* Tunnels are bound to a subscription and released again.
Bind(s) ==
    /\ Exists(s)
    /\ used' = IF s \in used THEN used \ {s} ELSE used \cup {s}
    /\ UNCHANGED <<rowVars, up, restarts, loopVars, jobVars, histVars>>

-----------------------------------------------------------------------------
(* The process *)

\* SIGTERM: rootCtx is cancelled.
Sigterm ==
    /\ up /\ up' = FALSE
    /\ cancelled' = cancelled \cup root
    /\ UNCHANGED <<rowVars, used, restarts, loop, root, registered, seen, jobVars,
                   histVars>>

\* The process ends, gracefully or not, and boots again.  A row that an Add left
\* inactive when the process died is passed over, like one a PUT set to inactive
\* or blank; a later refresh or PUT may make it active without a loop.
Restart ==
    /\ restarts < MaxRestarts
    /\ restarts' = restarts + 1
    /\ up' = TRUE
    /\ loop' = [s \in Subs |-> IF s \in BootLoops THEN "waiting" ELSE "none"]
    /\ root' = BootLoops /\ registered' = BootLoops
    /\ cancelled' = {} /\ seen' = [s \in Subs |-> Unread]
    /\ pc' = [h \in Handlers |-> "idle"] /\ on' = [h \in Handlers |-> NoSub]
    /\ read' = [h \in Handlers |-> Unread]
    /\ raced' = {} /\ refused' = {}
    /\ skipped' = {s \in Subs : Exists(s)} \ BootLoops
    /\ UNCHANGED <<rowVars, used>>

Init ==
    /\ row = [s \in Subs |-> "unborn"]
    /\ blank = {} /\ used = {} /\ up = TRUE /\ restarts = 0
    /\ loop = [s \in Subs |-> "none"] /\ seen = [s \in Subs |-> Unread]
    /\ root = {} /\ cancelled = {} /\ registered = {}
    /\ pc = [h \in Handlers |-> "idle"] /\ on = [h \in Handlers |-> NoSub]
    /\ read = [h \in Handlers |-> Unread]
    /\ raced = {} /\ refused = {} /\ skipped = {}

HandlerStep(h) == AddFetch(h) \/ AddLoop(h) \/ DeleteSub(h) \/ RefreshEnd(h)
LoopStep(s) == LoopTick(s) \/ LoopFetch(s)

Next ==
    \/ \E h \in Handlers, s \in Subs :
          AddCreate(h, s) \/ DeleteStop(h, s) \/ RefreshBegin(h, s)
    \/ \E h \in Handlers : HandlerStep(h)
    \/ \E s \in Subs : LoopStep(s) \/ LoopEnd(s) \/ Bind(s) \/ PutSub(s)
    \/ Sigterm \/ Restart

\* Goroutines are scheduled and timers fire.  select chooses among ready cases
\* at random: a cancelled loop does not pick its timer for ever.
Fairness ==
    /\ \A h \in Handlers : WF_vars(HandlerStep(h))
    /\ \A s \in Subs : WF_vars(LoopStep(s)) /\ SF_vars(LoopEnd(s))

Spec == Init /\ [][Next]_vars
FairSpec == Spec /\ Fairness
-----------------------------------------------------------------------------
(* Properties *)

\* StopRefreshLoop finds every loop that has not been told to stop: no DELETE
\* leaves one behind that nothing can reach, also not across an Add whose
\* fetch takes its time.
LoopsReachable ==
    \A s \in Subs : Running(s) /\ s \notin cancelled => s \in registered

\* A loop that goes on belongs to a subscription that exists, or is about to
\* be deleted, unless its DELETE overlapped its Add.
NoOrphanLoop ==
    \A s \in Subs \ raced : Running(s) /\ s \notin cancelled => Exists(s)

\* The loop of a deleted subscription ends.
DeletedLoopEnds ==
    \A s \in Subs : row[s] = "deleted" /\ s \notin raced ~> ~Running(s) \/ s \in raced

\* A subscription is fetched again and again, through failures, edits and
\* restarts.  Not so when the last boot passed over its row, whatever a refresh or
\* PUT made of it since, when a DELETE has failed after stopping the loop, or when
\* one overlapped the Add.
KeepsRefreshing ==
    \A s \in Subs :
        <>[](/\ up /\ Exists(s) /\ ~Deleting(s)
             /\ s \notin refused \cup raced \cup skipped)
            => []<>(loop[s] = "fetching")
=============================================================================
