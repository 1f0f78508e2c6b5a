------------------------- MODULE RefreshLoopsProofs -------------------------
(***************************************************************************)
(* Proofs that, for any number of subscriptions and of concurrent requests, *)
(* every refresh loop can be stopped and none outlives its subscription.    *)
(*                                                                         *)
(* NoOrphanLoop is not inductive: a DELETE removes the row one step after   *)
(* it has stopped the loop, so the proof needs to know that between the two *)
(* steps no Add starts the loop again (Handshake).  The last theorem is the *)
(* converse: whatever is to be refreshed has a loop.                        *)
(***************************************************************************)
EXTENDS RefreshLoops, TLAPS

\* A request that is under way works on a subscription.
BusyOn == \A h \in Handlers : pc[h] # "idle" => on[h] \in Subs

\* A loop that has not been told to stop.
Alive(s) == Running(s) /\ s \notin cancelled

\* Between the two steps of a DELETE the loop stays stopped, and an Add that no
\* DELETE has overlapped finds its row when it starts the loop.
Handshake ==
    \A s \in Subs \ raced :
        /\ Deleting(s) => ~Adding(s) /\ ~Alive(s)
        /\ Adding(s) => Exists(s)

LoopInv == TypeOK /\ BusyOn /\ LoopsReachable /\ Handshake /\ NoOrphanLoop

\* However a fetch ends, the row keeps its type and its subscription exists or not
\* as before.
LEMMA FetchEndsRow ==
    ASSUME TypeOK, NEW s \in Subs, NEW st \in Stored \cup {Unread}, FetchEnds(s, st)
    PROVE  /\ row' \in [Subs -> Stored \cup {"unborn", "deleted"}] /\ blank' \subseteq Subs
           /\ \A x \in Subs : /\ (Exists(x)' <=> Exists(x))
                             /\ (row'[x] = "unborn" <=> row[x] = "unborn")
BY DEF TypeOK, FetchEnds, rowVars, Exists, Stored, Unread

\* The initial states, in which no subscription exists, satisfy the invariant.
LEMMA InitLoopInv == Init => LoopInv
  BY NoSubAssumption, MaxRestartsAssumption
  DEF Init, LoopInv, TypeOK, BusyOn, LoopsReachable, Handshake, NoOrphanLoop, Adding,
      Deleting, Alive, Running, Exists, Stored, Unread

\* Every step of a loop, a request or the process keeps types, and the requests'
\* subscription with them.
LEMMA TypeStep == TypeOK /\ BusyOn /\ [Next]_vars => TypeOK' /\ BusyOn'
<1> SUFFICES ASSUME TypeOK, BusyOn, [Next]_vars
             PROVE  TypeOK' /\ BusyOn'
  OBVIOUS
<1> USE NoSubAssumption, MaxRestartsAssumption
    DEF TypeOK, BusyOn, Stored, Unread, rowVars, loopVars, jobVars, histVars, Step
<1>1. ASSUME NEW h \in Handlers, NEW s \in Subs, AddCreate(h, s)
      PROVE  TypeOK' /\ BusyOn'
  BY <1>1 DEF AddCreate
<1>2. ASSUME NEW h \in Handlers, NEW s \in Subs, DeleteStop(h, s)
      PROVE  TypeOK' /\ BusyOn'
  BY <1>2 DEF DeleteStop
<1>3. ASSUME NEW h \in Handlers, AddFetch(h) PROVE TypeOK' /\ BusyOn'
  <2>1. on[h] \in Subs /\ read[h] \in Stored \cup {Unread} /\ FetchEnds(on[h], read[h])
    BY <1>3 DEF AddFetch
  <2> QED
    BY <1>3, <2>1, FetchEndsRow DEF AddFetch
<1>4. ASSUME NEW h \in Handlers, AddLoop(h) PROVE TypeOK' /\ BusyOn'
  BY <1>4 DEF AddLoop
<1>5. ASSUME NEW h \in Handlers, DeleteSub(h) PROVE TypeOK' /\ BusyOn'
  BY <1>5 DEF DeleteSub, Exists
<1>6. ASSUME NEW s \in Subs, LoopTick(s) \/ LoopEnd(s) \/ Bind(s) \/ PutSub(s)
      PROVE  TypeOK' /\ BusyOn'
  BY <1>6 DEF LoopTick, LoopEnd, Bind, PutSub, ReadRow, Exists
<1>7. ASSUME NEW s \in Subs, LoopFetch(s) PROVE TypeOK' /\ BusyOn'
  <2>1. CASE s \in cancelled
    BY <1>7, <2>1 DEF LoopFetch
  <2>2. CASE s \notin cancelled
    <3>1. seen[s] \in Stored \cup {Unread} /\ FetchEnds(s, seen[s])
      BY <1>7, <2>2 DEF LoopFetch
    <3> QED
      BY <1>7, <3>1, FetchEndsRow DEF LoopFetch
  <2> QED
    BY <2>1, <2>2
<1>8. CASE Sigterm
  BY <1>8 DEF Sigterm
<1>9. CASE Restart
  BY <1>9 DEF Restart, BootLoops
<1>10. CASE UNCHANGED vars
  BY <1>10 DEF vars
<1>11. ASSUME NEW h \in Handlers, NEW s \in Subs, RefreshBegin(h, s)
       PROVE  TypeOK' /\ BusyOn'
  BY <1>11 DEF RefreshBegin, ReadRow, Exists
<1>12. ASSUME NEW h \in Handlers, RefreshEnd(h) PROVE TypeOK' /\ BusyOn'
  <2>1. on[h] \in Subs /\ read[h] \in Stored \cup {Unread} /\ FetchEnds(on[h], read[h])
    BY <1>12 DEF RefreshEnd
  <2> QED
    BY <1>12, <2>1, FetchEndsRow DEF RefreshEnd
<1> QED
  BY <1>1, <1>2, <1>3, <1>4, <1>5, <1>6, <1>7, <1>8, <1>9, <1>10, <1>11, <1>12
  DEF Next, HandlerStep, LoopStep

\* A step that starts and stops no loop, brings or takes away no subscription and
\* begins or ends neither an Add nor a DELETE: the end of a fetch.
FetchOnly ==
    /\ UNCHANGED <<up, root, cancelled, registered, raced, refused, skipped>>
    /\ \A s \in Subs :
          /\ Exists(s)' <=> Exists(s)
          /\ row'[s] = "unborn" <=> row[s] = "unborn"
          /\ Running(s)' <=> Running(s)
          /\ Adding(s)' <=> Adding(s)
          /\ Deleting(s)' <=> Deleting(s)

\* The three fetches, of a loop, an Add and a request, are such steps.
LEMMA FetchesOnly ==
    ASSUME TypeOK, BusyOn,
           \/ \E h \in Handlers : AddFetch(h) \/ RefreshEnd(h)
           \/ \E s \in Subs : LoopFetch(s)
    PROVE  FetchOnly
<1> USE DEF TypeOK, loopVars, histVars, Step
<1>1. ASSUME NEW h \in Handlers, AddFetch(h) \/ RefreshEnd(h) PROVE FetchOnly
  <2>1. /\ on[h] \in Subs /\ read[h] \in Stored \cup {Unread} /\ FetchEnds(on[h], read[h])
        /\ UNCHANGED <<up, root, cancelled, registered, loop, raced, refused, skipped>>
    BY <1>1 DEF AddFetch, RefreshEnd, BusyOn
  <2>2. \A s \in Subs : (Adding(s)' <=> Adding(s)) /\ (Deleting(s)' <=> Deleting(s))
    <3>1. CASE AddFetch(h)
      BY <3>1 DEF AddFetch, Adding, Deleting
    <3>2. CASE RefreshEnd(h)
      BY <3>2 DEF RefreshEnd, Adding, Deleting
    <3> QED
      BY <1>1, <3>1, <3>2
  <2> QED
    BY <2>1, <2>2, FetchEndsRow DEF FetchOnly, Running
<1>2. ASSUME NEW u \in Subs, LoopFetch(u) PROVE FetchOnly
  <2>1. /\ UNCHANGED <<up, root, cancelled, registered, raced, refused, skipped, pc, on>>
        /\ loop[u] = "fetching" /\ loop' = [loop EXCEPT ![u] = "waiting"]
        /\ seen[u] \in Stored \cup {Unread}
        /\ UNCHANGED rowVars \/ FetchEnds(u, seen[u])
    BY <1>2 DEF LoopFetch, jobVars
  <2>2. ASSUME NEW s \in Subs
        PROVE  (Exists(s)' <=> Exists(s)) /\ (row'[s] = "unborn" <=> row[s] = "unborn")
    BY <2>1, FetchEndsRow DEF rowVars, Exists
  <2>3. ASSUME NEW s \in Subs PROVE Running(s)' <=> Running(s)
    BY <2>1 DEF Running
  <2>4. ASSUME NEW s \in Subs
        PROVE  (Adding(s)' <=> Adding(s)) /\ (Deleting(s)' <=> Deleting(s))
    BY <2>1 DEF Adding, Deleting
  <2> QED
    BY <2>1, <2>2, <2>3, <2>4 DEF FetchOnly
<1> QED
  BY <1>1, <1>2

\* Every step keeps all four statements about loops.
LEMMA LoopStepInv == LoopInv /\ [Next]_vars => LoopInv'
<1> SUFFICES ASSUME LoopInv, [Next]_vars
             PROVE  LoopInv'
  OBVIOUS
<1>t. TypeOK' /\ BusyOn'
  BY TypeStep DEF LoopInv
<1> DEFINE Goal == LoopsReachable' /\ Handshake' /\ NoOrphanLoop'
<1> USE <1>t DEF LoopInv, TypeOK, BusyOn, LoopsReachable, Handshake, NoOrphanLoop,
               Adding, Deleting, Alive, Running, Exists, Stored, Unread,
               rowVars, loopVars, jobVars, histVars, Step
<1>1. ASSUME NEW h \in Handlers, NEW s \in Subs, AddCreate(h, s) PROVE Goal
  BY <1>1 DEF AddCreate
<1>2. ASSUME NEW h \in Handlers, NEW s \in Subs, DeleteStop(h, s) PROVE Goal
  BY <1>2 DEF DeleteStop
<1>3. FetchOnly => Goal
  BY DEF FetchOnly
<1>4. ASSUME NEW h \in Handlers, AddLoop(h) PROVE Goal
  BY <1>4 DEF AddLoop
<1>5. ASSUME NEW h \in Handlers, DeleteSub(h) PROVE Goal
  BY <1>5 DEF DeleteSub
<1>6. ASSUME NEW s \in Subs, LoopTick(s) \/ LoopEnd(s) \/ Bind(s) \/ PutSub(s)
      PROVE  Goal
  BY <1>6 DEF LoopTick, LoopEnd, Bind, PutSub
<1>7. ASSUME NEW h \in Handlers, NEW s \in Subs, RefreshBegin(h, s) PROVE Goal
  BY <1>7 DEF RefreshBegin
<1>8. CASE Sigterm
  BY <1>8 DEF Sigterm
<1>9. CASE Restart
  BY <1>9, NoSubAssumption DEF Restart, BootLoops
<1>10. CASE UNCHANGED vars
  BY <1>10 DEF vars
<1> QED
  BY <1>1, <1>2, <1>3, <1>4, <1>5, <1>6, <1>7, <1>8, <1>9, <1>10, FetchesOnly
  DEF Next, HandlerStep, LoopStep

\* The invariant holds in every reachable state.
LEMMA LoopInvAlways == Spec => []LoopInv
  BY InitLoopInv, LoopStepInv, PTL DEF Spec

\* StopRefreshLoop reaches every loop that goes on, for any number of
\* subscriptions and requests.
THEOREM LoopsReachableAlways == Spec => []LoopsReachable
<1>1. LoopInv => LoopsReachable
  BY DEF LoopInv
<1> QED
  BY <1>1, LoopInvAlways, PTL

\* No refresh loop outlives its subscription, except when its Add and its DELETE
\* overlapped.
THEOREM NoOrphanLoopAlways == Spec => []NoOrphanLoop
<1>1. LoopInv => NoOrphanLoop
  BY DEF LoopInv
<1> QED
  BY <1>1, LoopInvAlways, PTL
-----------------------------------------------------------------------------
(* Why subscriptions go on being refreshed: the part of KeepsRefreshing that *)
(* does not speak of time.                                                   *)

\* Nothing is left over of a subscription before its Add, and a loop that an Add
\* is about to start has not been cancelled in advance.
AddsStartAfresh ==
    \A s \in Subs :
        /\ row[s] = "unborn" => ~Adding(s) /\ s \notin registered \cup cancelled \cup root
        /\ up /\ s \notin raced /\ Adding(s) => s \notin cancelled

\* Until SIGTERM every subscription has a loop that nobody has told to stop, or an
\* Add about to start it, unless the last boot passed over its row, or a DELETE of
\* it is under way, overlapped the Add, or failed since boot.
HasLoop ==
    up => \A s \in Subs \ (raced \cup refused \cup skipped) :
              Exists(s) /\ ~Deleting(s) => Adding(s) \/ Alive(s)

KeptInv == AddsStartAfresh /\ HasLoop

\* At first there are no subscriptions.
LEMMA InitKeptInv == Init => KeptInv
  BY DEF Init, KeptInv, AddsStartAfresh, HasLoop, Adding, Exists, Stored

\* No fetch, failed or not, ends its loop; only what HasLoop excepts does.
LEMMA KeptStep == LoopInv /\ KeptInv /\ [Next]_vars => KeptInv'
<1> SUFFICES ASSUME LoopInv, KeptInv, [Next]_vars PROVE KeptInv'
  OBVIOUS
<1> USE DEF LoopInv, KeptInv, AddsStartAfresh, HasLoop, TypeOK, BusyOn, Adding,
            Deleting, Alive, Running, Exists, Stored, Unread, rowVars, loopVars,
            jobVars, histVars, Step
<1>1. ASSUME NEW h \in Handlers, NEW s \in Subs, AddCreate(h, s) PROVE KeptInv'
  BY <1>1 DEF AddCreate
<1>2. ASSUME NEW h \in Handlers, NEW s \in Subs, DeleteStop(h, s) PROVE KeptInv'
  BY <1>2 DEF DeleteStop
<1>3. FetchOnly => KeptInv'
  BY DEF FetchOnly
<1>4. ASSUME NEW h \in Handlers, AddLoop(h) PROVE KeptInv'
  BY <1>4 DEF AddLoop
<1>5. ASSUME NEW h \in Handlers, DeleteSub(h) PROVE KeptInv'
  BY <1>5 DEF DeleteSub
<1>6. ASSUME NEW s \in Subs, LoopTick(s) \/ LoopEnd(s) \/ Bind(s) \/ PutSub(s)
      PROVE  KeptInv'
  BY <1>6 DEF LoopTick, LoopEnd, Bind, PutSub
<1>7. ASSUME NEW h \in Handlers, NEW s \in Subs, RefreshBegin(h, s) PROVE KeptInv'
  BY <1>7 DEF RefreshBegin
<1>8. CASE Sigterm
  BY <1>8 DEF Sigterm
<1>9. CASE Restart
  BY <1>9, NoSubAssumption DEF Restart, BootLoops
<1>10. CASE UNCHANGED vars
  BY <1>10 DEF vars
<1> QED
  BY <1>1, <1>2, <1>3, <1>4, <1>5, <1>6, <1>7, <1>8, <1>9, <1>10, FetchesOnly
  DEF Next, HandlerStep, LoopStep

\* While the server is up, a subscription that boot did not pass over keeps a loop,
\* through failed fetches, refreshes by request, edits and restarts: what
\* KeepsRefreshing needs besides fair scheduling (refreshLoop, Add and
\* startSubscriptionLoops).
THEOREM HasLoopAlways == Spec => []HasLoop
<1>1. KeptInv => HasLoop
  BY DEF KeptInv
<1> QED
  BY <1>1, InitKeptInv, KeptStep, LoopInvAlways, PTL DEF Spec
=============================================================================
