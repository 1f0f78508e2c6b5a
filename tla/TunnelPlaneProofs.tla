------------------------- MODULE TunnelPlaneProofs -------------------------
(***************************************************************************)
(* Theorems about what a tunnel has in the kernel, in memory and in the    *)
(* database: for any set of tunnels, handlers, node lists and subnets, any *)
(* set of events and any number of restarts.                               *)
(*                                                                         *)
(* Each rests on an invariant that says, for every step of a request left  *)
(* alone, what it has done so far.  A step of a request touches its own    *)
(* tunnel only, so two things are to be shown of it: that the invariant    *)
(* holds of the request afterwards, and that the tunnel is in order when   *)
(* the request returns.                                                    *)
(***************************************************************************)
EXTENDS TunnelLifecycleProofs

USE DEF procVars, memVars, dbVars, netVars, jobVars, histVars

-----------------------------------------------------------------------------
(* The frame of a request's step *)

\* A step of w leaves the locals of other requests and everything of other
\* tunnels as they are, but for the forward rules of a link its row names, the
\* loss of which taints the other tunnel.
SameElsewhere(w) ==
    /\ restarts' = restarts
    /\ \A v \in Workers \ {w} :
          snap'[v] = snap[v] /\ cfg'[v] = cfg[v] /\ cancelled'[v] = cancelled[v]
    /\ \A t \in Tunnels \ {tun[w]} :
          /\ t \in running' <=> t \in running
          /\ t \in tracked' <=> t \in tracked
          /\ t \in tainted => t \in tainted'
          /\ wg'[t] = wg[t] /\ xray'[t] = xray[t]
          /\ row'[t] = row[t] /\ nodes'[t] = nodes[t]
          /\ dev'[t] = dev[t] /\ route'[t] = route[t] /\ chain'[t] = chain[t]
          /\ nat'[t] = nat[t] /\ (fwd'[t] => fwd[t])
          /\ t \notin tainted' => fwd'[t] = fwd[t]

\* A request that goes on keeps its locals.
LEMMA ContinueElse ==
    ASSUME JobTypeOK, NEW w \in Workers, NEW p, Continue(w, p)
    PROVE  /\ snap' = snap /\ cfg' = cfg /\ cancelled' = cancelled
BY DEF Continue

\* One that returns leaves the locals of the others alone.
LEMMA FinishElse ==
    ASSUME JobTypeOK, NEW w \in Workers, Finish(w)
    PROVE  \A v \in Workers \ {w} :
             snap'[v] = snap[v] /\ cfg'[v] = cfg[v] /\ cancelled'[v] = cancelled[v]
BY DEF JobTypeOK, Finish, Goto

\* No step of a request reaches beyond its locals and its tunnel.
LEMMA Elsewhere ==
    ASSUME TypeOK, NEW w \in Workers, WorkerStep(w)
    PROVE  SameElsewhere(w)
<1> USE ContinueElse, FinishElse
<1>0. /\ JobTypeOK /\ MemTypeOK /\ DbTypeOK /\ NetTypeOK /\ tun[w] \in Tunnels
  BY DEF TypeOK, JobTypeOK
<1>1. CASE StartContains(w)
  BY <1>0, <1>1 DEF StartContains, SameElsewhere, JobTypeOK, MemTypeOK, DbTypeOK,
     NetTypeOK
<1>2. CASE StartGet(w)
  BY <1>0, <1>2 DEF StartGet, SameElsewhere, JobTypeOK, MemTypeOK, DbTypeOK, NetTypeOK
<1>3. CASE StartNodes(w)
  BY <1>0, <1>3 DEF StartNodes, SameElsewhere, JobTypeOK, MemTypeOK, DbTypeOK, NetTypeOK
<1>4. CASE StartRestoreNode(w)
  BY <1>0, <1>4 DEF StartRestoreNode, SameElsewhere, JobTypeOK, MemTypeOK, DbTypeOK,
     NetTypeOK
<1>5. CASE StartCreateTUN(w)
  BY <1>0, <1>5 DEF StartCreateTUN, SameElsewhere, JobTypeOK, MemTypeOK, DbTypeOK,
     NetTypeOK
<1>6. CASE StartRegister(w)
  BY <1>0, <1>6 DEF StartRegister, SameElsewhere, JobTypeOK, MemTypeOK, DbTypeOK,
     NetTypeOK
<1>7. CASE StartAssignTUN(w)
  BY <1>0, <1>7 DEF StartAssignTUN, SameElsewhere, JobTypeOK, MemTypeOK, DbTypeOK,
     NetTypeOK
<1>8. CASE StartReturnRoute(w)
  BY <1>0, <1>8 DEF StartReturnRoute, SameElsewhere, JobTypeOK, MemTypeOK, DbTypeOK,
     NetTypeOK
<1>9. CASE XrayInstance(w)
  BY <1>0, <1>9 DEF XrayInstance, SameElsewhere, JobTypeOK, MemTypeOK, DbTypeOK,
     NetTypeOK
<1>10. CASE XrayRegister(w)
  BY <1>0, <1>10 DEF XrayRegister, SameElsewhere, JobTypeOK, MemTypeOK, DbTypeOK,
     NetTypeOK
<1>11. CASE StartTProxy(w)
  BY <1>0, <1>11 DEF StartTProxy, SameElsewhere, JobTypeOK, MemTypeOK, DbTypeOK,
     NetTypeOK
<1>12. CASE StartForward(w)
  BY <1>0, <1>12 DEF StartForward, SameElsewhere, JobTypeOK, MemTypeOK, DbTypeOK,
     NetTypeOK
<1>13. CASE StartMasquerade(w)
  BY <1>0, <1>13 DEF StartMasquerade, SameElsewhere, JobTypeOK, MemTypeOK, DbTypeOK,
     NetTypeOK
<1>14. CASE StartUpdate(w)
  BY <1>0, <1>14 DEF StartUpdate, SameElsewhere, JobTypeOK, MemTypeOK, DbTypeOK,
     NetTypeOK
<1>15. CASE StartMark(w)
  BY <1>0, <1>15 DEF StartMark, SameElsewhere, JobTypeOK, MemTypeOK, DbTypeOK, NetTypeOK
<1>16. CASE StartTrack(w)
  BY <1>0, <1>16 DEF StartTrack, SameElsewhere, JobTypeOK, MemTypeOK, DbTypeOK,
     NetTypeOK
<1>17. CASE RollbackStatus(w)
  BY <1>0, <1>17 DEF RollbackStatus, SameElsewhere, JobTypeOK, MemTypeOK, DbTypeOK,
     NetTypeOK
<1>18. CASE TeardownForward(w)
  BY <1>0, <1>18 DEF TeardownForward, SameElsewhere, JobTypeOK, MemTypeOK, DbTypeOK,
     NetTypeOK
<1>19. CASE TeardownMasquerade(w)
  BY <1>0, <1>19 DEF TeardownMasquerade, SameElsewhere, JobTypeOK, MemTypeOK,
     DbTypeOK, NetTypeOK
<1>20. CASE TeardownTProxy(w)
  BY <1>0, <1>20 DEF TeardownTProxy, SameElsewhere, JobTypeOK, MemTypeOK, DbTypeOK,
     NetTypeOK
<1>21. CASE TeardownReturnRoute(w)
  BY <1>0, <1>21 DEF TeardownReturnRoute, SameElsewhere, JobTypeOK, MemTypeOK,
     DbTypeOK, NetTypeOK
<1>22. CASE TeardownDevice(w)
  BY <1>0, <1>22 DEF TeardownDevice, SameElsewhere, JobTypeOK, MemTypeOK, DbTypeOK,
     NetTypeOK
<1>23. CASE TeardownXray(w)
  BY <1>0, <1>23 DEF TeardownXray, SameElsewhere, JobTypeOK, MemTypeOK, DbTypeOK,
     NetTypeOK
<1>24. CASE TeardownClear(w)
  BY <1>0, <1>24 DEF TeardownClear, SameElsewhere, JobTypeOK, MemTypeOK, DbTypeOK,
     NetTypeOK
<1>25. CASE TeardownUntrack(w)
  BY <1>0, <1>25 DEF TeardownUntrack, SameElsewhere, JobTypeOK, MemTypeOK, DbTypeOK,
     NetTypeOK
<1>26. CASE StopGet(w)
  BY <1>0, <1>26 DEF StopGet, SameElsewhere, JobTypeOK, MemTypeOK, DbTypeOK, NetTypeOK
<1>27. CASE StopUpdate(w)
  BY <1>0, <1>27 DEF StopUpdate, SameElsewhere, JobTypeOK, MemTypeOK, DbTypeOK,
     NetTypeOK
<1>28. CASE StopStatus(w)
  BY <1>0, <1>28 DEF StopStatus, SameElsewhere, JobTypeOK, MemTypeOK, DbTypeOK,
     NetTypeOK
<1>29. CASE DeleteRow(w)
  BY <1>0, <1>29 DEF DeleteRow, SameElsewhere, JobTypeOK, MemTypeOK, DbTypeOK, NetTypeOK
<1>30. CASE NodesSet(w)
  BY <1>0, <1>30 DEF NodesSet, SameElsewhere, JobTypeOK, MemTypeOK, DbTypeOK, NetTypeOK
<1>31. CASE NodesGet(w)
  BY <1>0, <1>31 DEF NodesGet, SameElsewhere, JobTypeOK, MemTypeOK, DbTypeOK, NetTypeOK
<1>32. CASE NodesUpdate(w)
  BY <1>0, <1>32 DEF NodesUpdate, SameElsewhere, JobTypeOK, MemTypeOK, DbTypeOK,
     NetTypeOK
<1>33. CASE ReloadContains(w)
  BY <1>0, <1>33 DEF ReloadContains, SameElsewhere, JobTypeOK, MemTypeOK, DbTypeOK,
     NetTypeOK
<1>34. CASE ReloadList(w)
  BY <1>0, <1>34 DEF ReloadList, SameElsewhere, JobTypeOK, MemTypeOK, DbTypeOK,
     NetTypeOK
<1>35. CASE PutGet(w)
  BY <1>0, <1>35 DEF PutGet, SameElsewhere, JobTypeOK, MemTypeOK, DbTypeOK, NetTypeOK
<1>36. CASE PutPrepare(w)
  BY <1>0, <1>36 DEF PutPrepare, SameElsewhere, JobTypeOK, MemTypeOK, DbTypeOK,
     NetTypeOK
<1>37. CASE PutUpdate(w)
  BY <1>0, <1>37 DEF PutUpdate, SameElsewhere, JobTypeOK, MemTypeOK, DbTypeOK, NetTypeOK
<1>38. CASE CreateInsert(w)
  BY <1>0, <1>38 DEF CreateInsert, SameElsewhere, JobTypeOK, MemTypeOK, DbTypeOK,
     NetTypeOK
<1>39. CASE CreateUpdate(w)
  BY <1>0, <1>39 DEF CreateUpdate, SameElsewhere, JobTypeOK, MemTypeOK, DbTypeOK,
     NetTypeOK
<1>40. CASE CreateNodes(w)
  BY <1>0, <1>40 DEF CreateNodes, SameElsewhere, JobTypeOK, MemTypeOK, DbTypeOK,
     NetTypeOK
<1> QED
  BY <1>1, <1>2, <1>3, <1>4, <1>5, <1>6, <1>7, <1>8, <1>9, <1>10, <1>11, <1>12,
     <1>13, <1>14, <1>15, <1>16, <1>17, <1>18, <1>19, <1>20, <1>21, <1>22, <1>23,
     <1>24, <1>25, <1>26, <1>27, <1>28, <1>29, <1>30, <1>31, <1>32, <1>33, <1>34,
     <1>35, <1>36, <1>37, <1>38, <1>39, <1>40
     DEF WorkerStep, StartStep, TeardownStep, StopStep, NodesStep, EditStep

-----------------------------------------------------------------------------
(* The data plane *)

\* A tunnel nobody works on: in the RunSet with all its objects, or with none.
Rested(t) == IF t \in running THEN AllUp(t) ELSE AllDown(t)

\* What a Start left alone has set up when it is about to make its next call,
\* and what its rollback has still to remove: exactly these objects.
Built(w) ==
    LET t == tun[w] IN
    /\ t \notin running /\ t \notin tracked /\ chain[t] # "empty"
    /\ wg[t] <=> pc[w] \in {"assign", "route", "xray", "xreg", "tproxy", "fwd", "nat",
                            "update", "mark", "rb_fwd", "rb_tproxy", "rb_xray",
                            "rb_route", "rb_wg"}
    /\ pc[w] \in {"route", "xray", "xreg", "tproxy", "fwd", "nat", "update", "mark"}
         => dev[t] = "up"
    /\ route[t] <=> pc[w] \in {"xray", "xreg", "tproxy", "fwd", "nat", "update", "mark",
                               "rb_fwd", "rb_tproxy", "rb_xray", "rb_route"}
    /\ xray[t] # NoNodes <=> pc[w] \in {"tproxy", "fwd", "nat", "update", "mark",
                                        "rb_fwd", "rb_tproxy", "rb_xray"}
    /\ chain[t] = "jumped" <=> pc[w] \in {"fwd", "nat", "update", "mark", "rb_fwd",
                                          "rb_tproxy"}
    /\ fwd[t] <=> pc[w] \in {"nat", "update", "mark", "rb_fwd"}
    /\ pc[w] \in {"update", "mark"} => nat[t] # {}

\* What stopInternal left alone has removed so far, whatever it found.
Removed(w) ==
    LET t == tun[w] IN
    /\ Link(w) = t /\ ~fwd[t]
    /\ pc[w] \in {"st_route", "st_wg", "st_xray", "st_clear", "st_untrack"}
         => chain[t] = "none"
    /\ pc[w] \in {"st_wg", "st_xray", "st_clear", "st_untrack"} => ~route[t]
    /\ pc[w] \in {"st_xray", "st_clear", "st_untrack"} => ~wg[t]
    /\ pc[w] \in {"st_clear", "st_untrack"} => xray[t] = NoNodes
    /\ pc[w] = "st_untrack" => t \notin running

\* A request at a step before or after which the data plane is as it was.
Passive(w) ==
    \/ pc[w] \in {"contains", "n_set", "n_get", "n_update", "n_contains", "n_list",
                  "p_get", "p_prepare", "p_update", "c_insert", "c_update", "c_nodes",
                  "stop_update", "stop_status", "delete"}
    \/ pc[w] = "stop_get" /\ op[w] # "shutdown"
    \/ pc[w] \in {"xray", "xreg"} /\ op[w] = "nodes"

\* How far a request on an undisturbed tunnel has come.
Course(w) ==
    LET t == tun[w] IN
    /\ Passive(w) => Rested(t)
    /\ InStart(w) => Built(w)
    /\ pc[w] = "track" => t \in running
    /\ pc[w] \in {"track", "st_fwd"} /\ t \in running => AllUp(t)
    /\ op[w] = "nodes" /\ pc[w] \in {"n_list", "xray", "xreg"} => t \in running
    /\ pc[w] = "stop_get" /\ op[w] = "shutdown" => t \notin running

\* What holds of a request, disturbed or not.
PlaneOf(w) ==
    /\ pc[w] # "idle" /\ tun[w] \notin tainted => Course(w)
    /\ pc[w] \in StopTail /\ ~overlap[w] => Removed(w)
    /\ pc[w] \in {"xray", "xreg"} => op[w] \in {"start", "nodes"}
    /\ pc[w] \in {"contains"} \cup (StartBody \ {"xray", "xreg"}) => op[w] = "start"
    /\ pc[w] \in {"restore", "wg", "reg", "assign", "route", "xray", "xreg"}
         => cfg[w] # NoNodes

\* And of a tunnel nobody works on.
PlaneAt(t) ==
    t \notin tainted =>
        /\ Quiet(t) => Rested(t)
        /\ PendingDrain(t) => t \notin running

\* The inductive strengthening of StoppedIsDown and RunningIsUp.
PlaneInv == (\A w \in Workers : PlaneOf(w)) /\ (\A t \in Tunnels : PlaneAt(t))

\* A link on an undisturbed tunnel without a device belongs to the Start that is
\* about to register one.
LEMMA NoDeviceNoLink ==
    ASSUME JobTypeOK, BypassInv, DeviceOwned, NEW w \in Workers,
           pc[w] \notin {"idle", "reg"}, tun[w] \notin tainted \/ ~overlap[w], ~wg[tun[w]]
    PROVE  dev[tun[w]] = "absent"
<1>1. tun[w] \in Tunnels
  BY DEF JobTypeOK
<1>2. \A v \in Workers : ~(pc[v] = "reg" /\ tun[v] = tun[w])
  BY Alone
<1> QED
  BY <1>1, <1>2 DEF DeviceOwned

\* What remains to be shown of a step of w: how far w has come, and that it
\* leaves the tunnel at rest when it returns.
LEMMA PlaneStep ==
    ASSUME TypeOK, BypassInv, PlaneInv, NEW w \in Workers, Frame(w), SameElsewhere(w),
           tun[w] \in tainted /\ overlap[w] => tun[w] \in tainted',
           PlaneOf(w)',
           pc'[w] = "idle" /\ tun[w] \notin tainted' => Rested(tun[w])'
    PROVE  PlaneInv'
<1>0. /\ JobTypeOK /\ tun \in [Workers -> Tunnels] /\ tun[w] \in Tunnels /\ tun' = tun
      /\ pc[w] # "idle" /\ phase' = phase /\ queue' = queue
      /\ \A v \in Workers \ {w} :
            pc'[v] = pc[v] /\ op'[v] = op[v] /\ (overlap'[v] <=> overlap[v])
  BY DEF TypeOK, JobTypeOK, Frame
<1>1. ASSUME NEW v \in Workers, v # w PROVE PlaneOf(v)'
  <2>0. /\ pc'[v] = pc[v] /\ op'[v] = op[v] /\ cfg'[v] = cfg[v] /\ tun'[v] = tun[v]
        /\ (overlap'[v] <=> overlap[v]) /\ tun[v] \in Tunnels /\ PlaneOf(v)
    BY <1>0, <1>1 DEF SameElsewhere, PlaneInv
  <2>1. CASE tun[v] # tun[w]
    <3>1. tun[v] \notin tainted' =>
            /\ Rested(tun[v])' = Rested(tun[v]) /\ AllUp(tun[v])' = AllUp(tun[v])
            /\ Built(v)' = Built(v)
      BY <1>0, <2>0, <2>1 DEF SameElsewhere, Rested, AllUp, AllDown, Built
    <3>4. Removed(v) => Removed(v)'
      BY <1>0, <2>0, <2>1 DEF SameElsewhere, Removed, Link
    <3>2. Passive(v)' = Passive(v) /\ InStart(v)' = InStart(v)
      BY <2>0 DEF Passive, InStart
    <3>3. (tun[v] \in running' <=> tun[v] \in running) /\ (tun[v] \in tainted => tun[v] \in tainted')
      BY <2>0, <2>1 DEF SameElsewhere
    <3> QED
      BY <2>0, <3>1, <3>2, <3>3, <3>4 DEF PlaneOf, Course
  <2>2. CASE tun[v] = tun[w] /\ pc[v] # "idle"
    <3>1. overlap[v] /\ overlap[w] /\ tun[v] \in tainted'
      BY <1>0, <1>1, <2>2 DEF BypassInv, OverlapSeen, OverlapTaints
    <3> QED
      BY <2>0, <3>1 DEF PlaneOf
  <2>3. CASE pc[v] = "idle"
    BY <2>0, <2>3 DEF PlaneOf, StopTail, StartBody
  <2> QED
    BY <2>1, <2>2, <2>3
<1>2. ASSUME NEW t \in Tunnels PROVE PlaneAt(t)'
  <2>1. CASE t # tun[w]
    <3>1. Quiet(t)' = Quiet(t) /\ PendingDrain(t)' = PendingDrain(t)
      BY <1>0, <2>1 DEF Quiet, Active, PendingDrain
    <3>2. t \notin tainted' => Rested(t)' = Rested(t)
      BY <2>1 DEF SameElsewhere, Rested, AllUp, AllDown
    <3>3. (t \in running' <=> t \in running) /\ (t \in tainted => t \in tainted')
      BY <2>1 DEF SameElsewhere
    <3> QED
      BY <3>1, <3>2, <3>3 DEF PlaneInv, PlaneAt
  <2>2. CASE t = tun[w]
    <3>1. PendingDrain(t)' => t \in tainted'
      BY <1>0, <2>2 DEF BypassInv, DrainSeen, OverlapTaints, PendingDrain
    <3>2. Quiet(t)' => pc'[w] = "idle"
      BY <1>0, <2>2 DEF Quiet, Active
    <3> QED
      BY <1>0, <2>2, <3>1, <3>2 DEF PlaneAt, Rested, AllUp, AllDown
  <2> QED
    BY <2>1, <2>2
<1> QED
  BY <1>1, <1>2 DEF PlaneInv

\* A step that touches nothing of the data plane, before and after which the
\* tunnel is at rest.
LEMMA PassiveStep ==
    ASSUME TypeOK, BypassInv, PlaneInv, NEW w \in Workers, Frame(w), SameElsewhere(w),
           UNCHANGED <<running, tracked, wg, xray, dev, route, chain, fwd, nat, tainted>>,
           Passive(w), Passive(w)' \/ pc'[w] = "idle", pc'[w] # "contains",
           pc'[w] = "n_list" => tun[w] \in running,
           pc'[w] \in {"xray", "xreg"} =>
                pc[w] \in {"n_list", "xray"} /\ op[w] = "nodes" /\ op'[w] = "nodes" /\ cfg'[w] # NoNodes
    PROVE  PlaneInv'
<1>0. PlaneOf(w) /\ pc[w] # "idle" /\ tun'[w] = tun[w] /\ (overlap[w] => overlap'[w])
  BY DEF PlaneInv, Frame
<1>1. Rested(tun[w])' = Rested(tun[w])
  BY <1>0 DEF Rested, AllUp, AllDown
<1>2. tun[w] \notin tainted => Rested(tun[w])
  BY <1>0 DEF PlaneOf, Course
<1>3. PlaneOf(w)'
  BY <1>0, <1>1, <1>2 DEF PlaneOf, Course, Passive, InStart, StartBody, StopTail
<1> QED
  BY <1>0, <1>1, <1>2, <1>3, PlaneStep


\* Every step of a request keeps the data plane in order: for a step of Start,
\* of its rollback or of stopInternal, what the step does, how far the request
\* has come then, and what it leaves behind if it returns.
LEMMA PlaneWorkerStep ==
    ASSUME TypeOK, BypassInv, DeviceOwned, PlaneInv, NEW w \in Workers, WorkerStep(w)
    PROVE  PlaneInv'
<1> USE ContinueFrame, FinishFrame, GotoFrame
<1> DEFINE t == tun[w]
<1>0. /\ JobTypeOK /\ MemTypeOK /\ DbTypeOK /\ NetTypeOK /\ Frame(w) /\ SameElsewhere(w)
      /\ HistTypeOK
      /\ t \in Tunnels /\ tun' = tun /\ (overlap[w] => overlap'[w]) /\ PlaneOf(w)
      /\ pc[w] # "idle" /\ w \in Workers
  BY WorkerFrame, Elsewhere DEF TypeOK, JobTypeOK, PlaneInv, Frame
<1>a. t \notin tainted => ~overlap[w]
  BY <1>0 DEF BypassInv, OverlapTaints
<1>b. /\ pc[w] # "reg" /\ (t \notin tainted \/ ~overlap[w]) /\ ~wg[t] => dev[t] = "absent"
      /\ chain[t] \in {"none", "partial", "jumped", "empty"}
  BY <1>0, NoDeviceNoLink DEF NetTypeOK
<1>c. /\ NodesAssumption /\ (pc[w] \in NodeSteps => op[w] = "nodes")
  BY NodesAssumption DEF BypassInv, NodesOp

<1>1. CASE StartContains(w)
  <2>1. /\ UNCHANGED <<running, tracked, wg, xray, dev, route, chain, fwd, nat, tainted, overlap>>
        /\ pc[w] = "contains"
        /\ \/ pc'[w] = "idle" /\ t \in running
           \/ pc'[w] = "get" /\ op'[w] = op[w] /\ t \notin running
    BY <1>0, <1>1 DEF StartContains
  <2>2. PlaneOf(w)'
    BY <1>0, <1>a, <1>b, <2>1 DEF PlaneOf, Course, Passive, InStart, StartBody,
       StopTail, Rested, AllUp, AllDown, Built, Removed
  <2>3. pc'[w] = "idle" /\ t \notin tainted' => Rested(t)'
    BY <1>0, <1>a, <1>b, <2>1 DEF PlaneOf, Course, Passive, InStart, StartBody,
       StopTail, Rested, AllUp, AllDown, Built, Removed
  <2> QED
    BY <1>0, <1>a, <2>1, <2>2, <2>3, PlaneStep
<1>2. CASE StartGet(w)
  <2>1. /\ UNCHANGED <<running, tracked, wg, xray, dev, route, chain, fwd, nat, tainted, overlap>>
        /\ pc[w] = "get" /\ ((pc'[w] = "nodes" /\ op'[w] = op[w]) \/ pc'[w] = "idle")
    BY <1>0, <1>2 DEF StartGet
  <2>2. PlaneOf(w)'
    BY <1>0, <1>a, <1>b, <2>1 DEF PlaneOf, Course, Passive, InStart, StartBody,
       StopTail, Rested, AllUp, AllDown, Built, Removed
  <2>3. pc'[w] = "idle" /\ t \notin tainted' => Rested(t)'
    BY <1>0, <1>a, <1>b, <2>1 DEF PlaneOf, Course, Passive, InStart, StartBody,
       StopTail, Rested, AllUp, AllDown, Built, Removed
  <2> QED
    BY <1>0, <1>a, <2>1, <2>2, <2>3, PlaneStep
<1>3. CASE StartNodes(w)
  <2>1. /\ UNCHANGED <<running, tracked, wg, xray, dev, route, chain, fwd, nat, tainted, overlap>>
        /\ pc[w] = "nodes" /\ ((pc'[w] \in {"wg", "restore"} /\ op'[w] = op[w] /\ cfg'[w] # NoNodes) \/ pc'[w] = "idle")
    BY <1>0, <1>3, <1>c DEF StartNodes, JobTypeOK, Goto, Configs
  <2>2. PlaneOf(w)'
    BY <1>0, <1>a, <1>b, <2>1 DEF PlaneOf, Course, Passive, InStart, StartBody,
       StopTail, Rested, AllUp, AllDown, Built, Removed
  <2>3. pc'[w] = "idle" /\ t \notin tainted' => Rested(t)'
    BY <1>0, <1>a, <1>b, <2>1 DEF PlaneOf, Course, Passive, InStart, StartBody,
       StopTail, Rested, AllUp, AllDown, Built, Removed
  <2> QED
    BY <1>0, <1>a, <2>1, <2>2, <2>3, PlaneStep
<1>4. CASE StartRestoreNode(w)
  <2>1. /\ UNCHANGED <<running, tracked, wg, xray, dev, route, chain, fwd, nat, tainted, overlap>>
        /\ pc[w] = "restore" /\ ((pc'[w] = "wg" /\ op'[w] = op[w] /\ cfg' = cfg) \/ pc'[w] = "idle")
    BY <1>0, <1>4 DEF StartRestoreNode, JobTypeOK, Continue, Goto
  <2>2. PlaneOf(w)'
    BY <1>0, <1>a, <1>b, <2>1 DEF PlaneOf, Course, Passive, InStart, StartBody,
       StopTail, Rested, AllUp, AllDown, Built, Removed
  <2>3. pc'[w] = "idle" /\ t \notin tainted' => Rested(t)'
    BY <1>0, <1>a, <1>b, <2>1 DEF PlaneOf, Course, Passive, InStart, StartBody,
       StopTail, Rested, AllUp, AllDown, Built, Removed
  <2> QED
    BY <1>0, <1>a, <2>1, <2>2, <2>3, PlaneStep
<1>5. CASE StartCreateTUN(w)
  <2>1. /\ UNCHANGED <<running, tracked, wg, xray, route, chain, fwd, nat, tainted, overlap>>
        /\ pc[w] = "wg" /\ pc'[w] \in {"reg", "rb_status"} /\ op'[w] = op[w] /\ cfg' = cfg
    BY <1>0, <1>5 DEF StartCreateTUN, JobTypeOK, NetTypeOK, Continue, Goto
  <2>2. PlaneOf(w)'
    BY <1>0, <1>a, <1>b, <2>1 DEF PlaneOf, Course, Passive, InStart, StartBody,
       StopTail, Rested, AllUp, AllDown, Built, Removed
  <2>3. pc'[w] = "idle" /\ t \notin tainted' => Rested(t)'
    BY <1>0, <1>a, <1>b, <2>1 DEF PlaneOf, Course, Passive, InStart, StartBody,
       StopTail, Rested, AllUp, AllDown, Built, Removed
  <2> QED
    BY <1>0, <1>a, <2>1, <2>2, <2>3, PlaneStep
<1>6. CASE StartRegister(w)
  <2>1. /\ UNCHANGED <<running, tracked, xray, dev, route, chain, fwd, nat, tainted, overlap>>
        /\ pc[w] = "reg" /\ pc'[w] = "assign" /\ op'[w] = op[w] /\ cfg' = cfg /\ wg'[t]
    BY <1>0, <1>6 DEF StartRegister, JobTypeOK, MemTypeOK, Continue, Goto
  <2>2. PlaneOf(w)'
    BY <1>0, <1>a, <1>b, <2>1 DEF PlaneOf, Course, Passive, InStart, StartBody,
       StopTail, Rested, AllUp, AllDown, Built, Removed
  <2>3. pc'[w] = "idle" /\ t \notin tainted' => Rested(t)'
    BY <1>0, <1>a, <1>b, <2>1 DEF PlaneOf, Course, Passive, InStart, StartBody,
       StopTail, Rested, AllUp, AllDown, Built, Removed
  <2> QED
    BY <1>0, <1>a, <2>1, <2>2, <2>3, PlaneStep
<1>7. CASE StartAssignTUN(w)
  <2>1. /\ UNCHANGED <<running, tracked, wg, xray, route, chain, fwd, nat, tainted, overlap>>
        /\ pc[w] = "assign" /\ op'[w] = op[w] /\ cfg' = cfg
        /\ \/ pc'[w] = "route" /\ dev'[t] = "up"
           \/ pc'[w] = "rb_wg"
    BY <1>0, <1>7 DEF StartAssignTUN, JobTypeOK, NetTypeOK, Continue, Goto
  <2>2. PlaneOf(w)'
    BY <1>0, <1>a, <1>b, <2>1 DEF PlaneOf, Course, Passive, InStart, StartBody,
       StopTail, Rested, AllUp, AllDown, Built, Removed
  <2>3. pc'[w] = "idle" /\ t \notin tainted' => Rested(t)'
    BY <1>0, <1>a, <1>b, <2>1 DEF PlaneOf, Course, Passive, InStart, StartBody,
       StopTail, Rested, AllUp, AllDown, Built, Removed
  <2> QED
    BY <1>0, <1>a, <2>1, <2>2, <2>3, PlaneStep
<1>8. CASE StartReturnRoute(w)
  <2>1. /\ UNCHANGED <<running, tracked, wg, xray, dev, chain, fwd, nat, tainted, overlap>>
        /\ pc[w] = "route" /\ op'[w] = op[w] /\ cfg' = cfg
        /\ \/ pc'[w] = "xray" /\ route'[t]
           \/ pc'[w] = "rb_wg" /\ route' = route
    BY <1>0, <1>8 DEF StartReturnRoute, JobTypeOK, NetTypeOK, Continue, Goto
  <2>2. PlaneOf(w)'
    BY <1>0, <1>a, <1>b, <2>1 DEF PlaneOf, Course, Passive, InStart, StartBody,
       StopTail, Rested, AllUp, AllDown, Built, Removed
  <2>3. pc'[w] = "idle" /\ t \notin tainted' => Rested(t)'
    BY <1>0, <1>a, <1>b, <2>1 DEF PlaneOf, Course, Passive, InStart, StartBody,
       StopTail, Rested, AllUp, AllDown, Built, Removed
  <2> QED
    BY <1>0, <1>a, <2>1, <2>2, <2>3, PlaneStep
<1>9. CASE XrayInstance(w)
  <2>1. /\ UNCHANGED <<running, tracked, wg, xray, dev, route, chain, fwd, nat, tainted, overlap>>
        /\ pc[w] = "xray"
        /\ \/ pc'[w] = "xreg" /\ op'[w] = op[w] /\ cfg' = cfg
           \/ pc'[w] = "rb_route" /\ op'[w] = op[w] /\ op[w] = "start"
           \/ pc'[w] = "idle" /\ op[w] # "start"
    BY <1>0, <1>9 DEF XrayInstance, JobTypeOK, Continue, Goto
  <2>2. PlaneOf(w)'
    BY <1>0, <1>a, <1>b, <2>1 DEF PlaneOf, Course, Passive, InStart, StartBody,
       StopTail, Rested, AllUp, AllDown, Built, Removed
  <2>3. pc'[w] = "idle" /\ t \notin tainted' => Rested(t)'
    BY <1>0, <1>a, <1>b, <2>1 DEF PlaneOf, Course, Passive, InStart, StartBody,
       StopTail, Rested, AllUp, AllDown, Built, Removed
  <2> QED
    BY <1>0, <1>a, <2>1, <2>2, <2>3, PlaneStep
<1>10. CASE XrayRegister(w)
  <2>1. /\ UNCHANGED <<running, tracked, wg, dev, route, chain, fwd, nat, tainted, overlap>>
        /\ pc[w] = "xreg" /\ xray'[t] = cfg[w]
        /\ \/ pc'[w] = "tproxy" /\ op'[w] = op[w] /\ op[w] = "start"
           \/ pc'[w] = "idle" /\ op[w] # "start"
    BY <1>0, <1>10 DEF XrayRegister, JobTypeOK, MemTypeOK
  <2>2. PlaneOf(w)'
    BY <1>0, <1>a, <1>b, <2>1 DEF PlaneOf, Course, Passive, InStart, StartBody,
       StopTail, Rested, AllUp, AllDown, Built, Removed
  <2>3. pc'[w] = "idle" /\ t \notin tainted' => Rested(t)'
    BY <1>0, <1>a, <1>b, <2>1 DEF PlaneOf, Course, Passive, InStart, StartBody,
       StopTail, Rested, AllUp, AllDown, Built, Removed
  <2> QED
    BY <1>0, <1>a, <2>1, <2>2, <2>3, PlaneStep
<1>11. CASE StartTProxy(w)
  <2>1. /\ UNCHANGED <<running, tracked, wg, xray, dev, route, fwd, nat, tainted, overlap>>
        /\ pc[w] = "tproxy" /\ op'[w] = op[w]
        /\ \/ pc'[w] = "fwd" /\ chain'[t] = "jumped"
           \/ pc'[w] = "rb_xray" /\ chain'[t] \in {chain[t], "partial"}
    BY <1>0, <1>11 DEF StartTProxy, NetTypeOK
  <2>2. PlaneOf(w)'
    BY <1>0, <1>a, <1>b, <2>1 DEF PlaneOf, Course, Passive, InStart, StartBody,
       StopTail, Rested, AllUp, AllDown, Built, Removed
  <2>3. pc'[w] = "idle" /\ t \notin tainted' => Rested(t)'
    BY <1>0, <1>a, <1>b, <2>1 DEF PlaneOf, Course, Passive, InStart, StartBody,
       StopTail, Rested, AllUp, AllDown, Built, Removed
  <2> QED
    BY <1>0, <1>a, <2>1, <2>2, <2>3, PlaneStep
<1>12. CASE StartForward(w)
  <2>1. /\ UNCHANGED <<running, tracked, wg, xray, dev, route, chain, nat, tainted, overlap>>
        /\ pc[w] = "fwd" /\ op'[w] = op[w]
        /\ \/ pc'[w] = "nat" /\ fwd'[t]
           \/ pc'[w] = "rb_tproxy" /\ (fwd'[t] => fwd[t])
    BY <1>0, <1>12 DEF StartForward, NetTypeOK
  <2>2. PlaneOf(w)'
    BY <1>0, <1>a, <1>b, <2>1 DEF PlaneOf, Course, Passive, InStart, StartBody,
       StopTail, Rested, AllUp, AllDown, Built, Removed
  <2>3. pc'[w] = "idle" /\ t \notin tainted' => Rested(t)'
    BY <1>0, <1>a, <1>b, <2>1 DEF PlaneOf, Course, Passive, InStart, StartBody,
       StopTail, Rested, AllUp, AllDown, Built, Removed
  <2> QED
    BY <1>0, <1>a, <2>1, <2>2, <2>3, PlaneStep
<1>13. CASE StartMasquerade(w)
  <2>1. /\ UNCHANGED <<running, tracked, wg, xray, dev, route, chain, fwd, tainted, overlap>>
        /\ pc[w] = "nat" /\ op'[w] = op[w]
        /\ \/ pc'[w] = "update" /\ nat'[t] # {}
           \/ pc'[w] = "rb_fwd"
    <3>1. nat' = [nat EXCEPT ![t] = @ \cup {snap[w].addr}] => snap[w].addr \in nat'[t]
      BY <1>0 DEF NetTypeOK
    <3> QED
      BY <1>0, <1>13, <3>1 DEF StartMasquerade
  <2>2. PlaneOf(w)'
    BY <1>0, <1>a, <1>b, <2>1 DEF PlaneOf, Course, Passive, InStart, StartBody,
       StopTail, Rested, AllUp, AllDown, Built, Removed
  <2>3. pc'[w] = "idle" /\ t \notin tainted' => Rested(t)'
    BY <1>0, <1>a, <1>b, <2>1 DEF PlaneOf, Course, Passive, InStart, StartBody,
       StopTail, Rested, AllUp, AllDown, Built, Removed
  <2> QED
    BY <1>0, <1>a, <2>1, <2>2, <2>3, PlaneStep
<1>14. CASE StartUpdate(w)
  <2>1. /\ UNCHANGED <<running, tracked, wg, xray, dev, route, chain, fwd, nat, tainted, overlap>>
        /\ pc[w] = "update" /\ op'[w] = op[w] /\ pc'[w] \in {"mark", "st_fwd"}
    BY <1>0, <1>14 DEF StartUpdate
  <2>2. PlaneOf(w)'
    BY <1>0, <1>a, <1>b, <2>1 DEF PlaneOf, Course, Passive, InStart, StartBody,
       StopTail, Rested, AllUp, AllDown, Built, Removed
  <2>3. pc'[w] = "idle" /\ t \notin tainted' => Rested(t)'
    BY <1>0, <1>a, <1>b, <2>1 DEF PlaneOf, Course, Passive, InStart, StartBody,
       StopTail, Rested, AllUp, AllDown, Built, Removed
  <2> QED
    BY <1>0, <1>a, <2>1, <2>2, <2>3, PlaneStep
<1>15. CASE StartMark(w)
  <2>1. /\ UNCHANGED <<tracked, wg, xray, dev, route, chain, fwd, nat, tainted, overlap>>
        /\ pc[w] = "mark" /\ pc'[w] = "track" /\ op'[w] = op[w] /\ t \in running'
    BY <1>0, <1>15 DEF StartMark
  <2>2. PlaneOf(w)'
    BY <1>0, <1>a, <1>b, <2>1 DEF PlaneOf, Course, Passive, InStart, StartBody,
       StopTail, Rested, AllUp, AllDown, Built, Removed
  <2>3. pc'[w] = "idle" /\ t \notin tainted' => Rested(t)'
    BY <1>0, <1>a, <1>b, <2>1 DEF PlaneOf, Course, Passive, InStart, StartBody,
       StopTail, Rested, AllUp, AllDown, Built, Removed
  <2> QED
    BY <1>0, <1>a, <2>1, <2>2, <2>3, PlaneStep
<1>16. CASE StartTrack(w)
  <2>1. /\ UNCHANGED <<running, wg, xray, dev, route, chain, fwd, nat, tainted, overlap>>
        /\ pc[w] = "track" /\ pc'[w] = "idle"
    BY <1>0, <1>16 DEF StartTrack
  <2>2. PlaneOf(w)'
    BY <1>0, <1>a, <1>b, <2>1 DEF PlaneOf, Course, Passive, InStart, StartBody,
       StopTail, Rested, AllUp, AllDown, Built, Removed
  <2>3. pc'[w] = "idle" /\ t \notin tainted' => Rested(t)'
    BY <1>0, <1>a, <1>b, <2>1 DEF PlaneOf, Course, Passive, InStart, StartBody,
       StopTail, Rested, AllUp, AllDown, Built, Removed
  <2> QED
    BY <1>0, <1>a, <2>1, <2>2, <2>3, PlaneStep
<1>17. CASE RollbackStatus(w)
  <2>1. /\ UNCHANGED <<running, tracked, wg, xray, dev, route, chain, fwd, nat, tainted, overlap>>
        /\ pc[w] = "rb_status" /\ pc'[w] = "idle"
    BY <1>0, <1>17 DEF RollbackStatus
  <2>2. PlaneOf(w)'
    BY <1>0, <1>a, <1>b, <2>1 DEF PlaneOf, Course, Passive, InStart, StartBody,
       StopTail, Rested, AllUp, AllDown, Built, Removed
  <2>3. pc'[w] = "idle" /\ t \notin tainted' => Rested(t)'
    BY <1>0, <1>a, <1>b, <2>1 DEF PlaneOf, Course, Passive, InStart, StartBody,
       StopTail, Rested, AllUp, AllDown, Built, Removed
  <2> QED
    BY <1>0, <1>a, <2>1, <2>2, <2>3, PlaneStep
<1>18. CASE TeardownForward(w)
  <2>1. /\ UNCHANGED <<running, tracked, wg, xray, dev, route, chain, nat>>
        /\ t \in tainted => t \in tainted'
        /\ t \notin tainted' \/ ~overlap'[w] => ~fwd'[t] /\ Link(w) = t
        /\ op'[w] = op[w] /\ snap' = snap
        /\ \/ pc[w] = "st_fwd" /\ pc'[w] = "st_nat"
           \/ pc[w] = "rb_fwd" /\ pc'[w] = "rb_tproxy"
    <3>1. /\ pc[w] \in {"st_fwd", "rb_fwd"} /\ Continue(w, AfterTeardown[pc[w]])
          /\ UNCHANGED <<procVars, memVars, dbVars, dev, rule, route, chain, nat>>
      BY <1>18 DEF TeardownForward
    <3>2. snap' = snap /\ op'[w] = op[w] /\ pc'[w] = AfterTeardown[pc[w]]
      BY <1>0, <3>1, ContinueElse
    <3>3. /\ AfterTeardown["st_fwd"] = "st_nat" /\ AfterTeardown["rb_fwd"] = "rb_tproxy"
      BY DEF AfterTeardown
    <3>4. t \in tainted => t \in tainted'
      BY <1>0, <1>18 DEF TeardownForward
    <3>5. t \notin tainted' \/ ~overlap'[w] => ~fwd'[t] /\ Link(w) = t
      BY <1>0, <1>18 DEF TeardownForward, NetTypeOK, HistTypeOK
    <3> QED
      BY <3>1, <3>2, <3>3, <3>4, <3>5
  <2>2. PlaneOf(w)'
    BY <1>0, <1>a, <1>b, <2>1 DEF PlaneOf, Course, Passive, InStart, StartBody,
       StopTail, Rested, AllUp, AllDown, Built, Removed, Link
  <2>3. pc'[w] = "idle" /\ t \notin tainted' => Rested(t)'
    BY <1>0, <1>a, <1>b, <2>1 DEF PlaneOf, Course, Passive, InStart, StartBody,
       StopTail, Rested, AllUp, AllDown, Built, Removed
  <2> QED
    BY <1>0, <1>a, <2>1, <2>2, <2>3, PlaneStep
<1>19. CASE TeardownMasquerade(w)
  <2>1. /\ UNCHANGED <<running, tracked, wg, xray, dev, route, chain, fwd, tainted, overlap>>
        /\ pc[w] = "st_nat" /\ pc'[w] = "st_tproxy" /\ op'[w] = op[w] /\ snap' = snap
    BY <1>0, <1>19, ContinueElse DEF TeardownMasquerade, NetTypeOK, AfterTeardown
  <2>2. PlaneOf(w)'
    BY <1>0, <1>a, <1>b, <2>1 DEF PlaneOf, Course, Passive, InStart, StartBody,
       StopTail, Rested, AllUp, AllDown, Built, Removed, Link
  <2>3. pc'[w] = "idle" /\ t \notin tainted' => Rested(t)'
    BY <1>0, <1>a, <1>b, <2>1 DEF PlaneOf, Course, Passive, InStart, StartBody,
       StopTail, Rested, AllUp, AllDown, Built, Removed
  <2> QED
    BY <1>0, <1>a, <2>1, <2>2, <2>3, PlaneStep
<1>20. CASE TeardownTProxy(w)
  <2>1. /\ UNCHANGED <<running, tracked, wg, xray, dev, route, fwd, nat, tainted, overlap>>
        /\ Link(w) = t => chain'[t] = "none"
        /\ op'[w] = op[w] /\ snap' = snap
        /\ \/ pc[w] = "st_tproxy" /\ pc'[w] = "st_route"
           \/ pc[w] = "rb_tproxy" /\ pc'[w] = "rb_xray"
    BY <1>0, <1>20, ContinueElse DEF TeardownTProxy, NetTypeOK, AfterTeardown
  <2>4. pc[w] = "rb_tproxy" => Link(w) = t
    BY <1>0 DEF PlaneOf, StartBody, Link
  <2>2. PlaneOf(w)'
    BY <1>0, <1>a, <1>b, <2>1, <2>4 DEF PlaneOf, Course, Passive, InStart, StartBody,
       StopTail, Rested, AllUp, AllDown, Built, Removed, Link
  <2>3. pc'[w] = "idle" /\ t \notin tainted' => Rested(t)'
    BY <1>0, <1>a, <1>b, <2>1, <2>4 DEF PlaneOf, Course, Passive, InStart, StartBody,
       StopTail, Rested, AllUp, AllDown, Built, Removed
  <2> QED
    BY <1>0, <1>a, <2>1, <2>2, <2>3, PlaneStep
<1>21. CASE TeardownReturnRoute(w)
  <2>1. /\ UNCHANGED <<running, tracked, wg, xray, dev, chain, fwd, nat, tainted, overlap>>
        /\ ~route'[t] /\ op'[w] = op[w] /\ snap' = snap
        /\ \/ pc[w] = "st_route" /\ pc'[w] = "st_wg"
           \/ pc[w] = "rb_route" /\ pc'[w] = "rb_wg"
    BY <1>0, <1>21, ContinueElse DEF TeardownReturnRoute, NetTypeOK, AfterTeardown
  <2>2. PlaneOf(w)'
    BY <1>0, <1>a, <1>b, <2>1 DEF PlaneOf, Course, Passive, InStart, StartBody,
       StopTail, Rested, AllUp, AllDown, Built, Removed, Link
  <2>3. pc'[w] = "idle" /\ t \notin tainted' => Rested(t)'
    BY <1>0, <1>a, <1>b, <2>1 DEF PlaneOf, Course, Passive, InStart, StartBody,
       StopTail, Rested, AllUp, AllDown, Built, Removed
  <2> QED
    BY <1>0, <1>a, <2>1, <2>2, <2>3, PlaneStep
<1>22. CASE TeardownDevice(w)
  <2>1. /\ UNCHANGED <<running, tracked, xray, route, chain, fwd, nat, tainted, overlap>>
        /\ ~wg'[t] /\ op'[w] = op[w] /\ snap' = snap
        /\ \/ pc[w] = "st_wg" /\ pc'[w] = "st_xray"
           \/ pc[w] = "rb_wg" /\ pc'[w] = "rb_status"
    BY <1>0, <1>22, ContinueElse DEF TeardownDevice, MemTypeOK, NetTypeOK, AfterTeardown
  <2>2. PlaneOf(w)'
    BY <1>0, <1>a, <1>b, <2>1 DEF PlaneOf, Course, Passive, InStart, StartBody,
       StopTail, Rested, AllUp, AllDown, Built, Removed, Link
  <2>3. pc'[w] = "idle" /\ t \notin tainted' => Rested(t)'
    BY <1>0, <1>a, <1>b, <2>1 DEF PlaneOf, Course, Passive, InStart, StartBody,
       StopTail, Rested, AllUp, AllDown, Built, Removed
  <2> QED
    BY <1>0, <1>a, <2>1, <2>2, <2>3, PlaneStep
<1>23. CASE TeardownXray(w)
  <2>1. /\ UNCHANGED <<running, tracked, wg, dev, route, chain, fwd, nat, tainted, overlap>>
        /\ xray'[t] = NoNodes /\ op'[w] = op[w] /\ snap' = snap
        /\ \/ pc[w] = "st_xray" /\ pc'[w] = "st_clear"
           \/ pc[w] = "rb_xray" /\ pc'[w] = "rb_route"
    BY <1>0, <1>23, ContinueElse DEF TeardownXray, MemTypeOK, AfterTeardown
  <2>2. PlaneOf(w)'
    BY <1>0, <1>a, <1>b, <2>1 DEF PlaneOf, Course, Passive, InStart, StartBody,
       StopTail, Rested, AllUp, AllDown, Built, Removed, Link
  <2>3. pc'[w] = "idle" /\ t \notin tainted' => Rested(t)'
    BY <1>0, <1>a, <1>b, <2>1 DEF PlaneOf, Course, Passive, InStart, StartBody,
       StopTail, Rested, AllUp, AllDown, Built, Removed
  <2> QED
    BY <1>0, <1>a, <2>1, <2>2, <2>3, PlaneStep
<1>24. CASE TeardownClear(w)
  <2>1. /\ UNCHANGED <<tracked, wg, xray, dev, route, chain, fwd, nat, tainted, overlap>>
        /\ pc[w] = "st_clear" /\ pc'[w] = "st_untrack" /\ op'[w] = op[w] /\ snap' = snap /\ t \notin running'
    BY <1>0, <1>24, ContinueElse DEF TeardownClear, AfterTeardown
  <2>2. PlaneOf(w)'
    BY <1>0, <1>a, <1>b, <2>1 DEF PlaneOf, Course, Passive, InStart, StartBody,
       StopTail, Rested, AllUp, AllDown, Built, Removed, Link
  <2>3. pc'[w] = "idle" /\ t \notin tainted' => Rested(t)'
    BY <1>0, <1>a, <1>b, <2>1 DEF PlaneOf, Course, Passive, InStart, StartBody,
       StopTail, Rested, AllUp, AllDown, Built, Removed
  <2> QED
    BY <1>0, <1>a, <2>1, <2>2, <2>3, PlaneStep
<1>25. CASE TeardownUntrack(w)
  <2>1. /\ UNCHANGED <<running, wg, xray, dev, route, chain, fwd, nat>>
        /\ pc[w] = "st_untrack" /\ t \notin tracked'
        /\ tainted' = IF overlap[w] THEN tainted ELSE tainted \ {t}
        /\ (pc'[w] = "stop_update" /\ op'[w] = op[w]) \/ pc'[w] = "idle"
    BY <1>0, <1>25 DEF TeardownUntrack
  <2>2. PlaneOf(w)'
    BY <1>0, <1>a, <1>b, <2>1 DEF PlaneOf, Course, Passive, InStart, StartBody,
       StopTail, Rested, AllUp, AllDown, Built, Removed
  <2>3. pc'[w] = "idle" /\ t \notin tainted' => Rested(t)'
    BY <1>0, <1>a, <1>b, <2>1 DEF PlaneOf, Course, Passive, InStart, StartBody,
       StopTail, Rested, AllUp, AllDown, Built, Removed
  <2> QED
    BY <1>0, <1>a, <2>1, <2>2, <2>3, PlaneStep
<1>26. CASE StopGet(w)
  <2>1. /\ UNCHANGED <<running, tracked, wg, xray, dev, route, chain, fwd, nat>>
        /\ pc[w] = "stop_get"
        /\ \/ pc'[w] = "st_fwd" /\ op'[w] = op[w] /\ tainted' = tainted
           \/ /\ (pc'[w] = "delete" /\ op'[w] = op[w]) \/ pc'[w] = "idle"
              /\ tainted' = IF op[w] = "shutdown" THEN tainted \cup {t} ELSE tainted
    BY <1>0, <1>26 DEF StopGet
  <2>2. PlaneOf(w)'
    BY <1>0, <1>a, <1>b, <2>1 DEF PlaneOf, Course, Passive, InStart, StartBody,
       StopTail, Rested, AllUp, AllDown, Built, Removed
  <2>3. pc'[w] = "idle" /\ t \notin tainted' => Rested(t)'
    BY <1>0, <1>a, <1>b, <2>1 DEF PlaneOf, Course, Passive, InStart, StartBody,
       StopTail, Rested, AllUp, AllDown, Built, Removed
  <2> QED
    BY <1>0, <1>a, <2>1, <2>2, <2>3, PlaneStep
<1>27. CASE StopUpdate(w)
  BY <1>0, <1>c, <1>27, PassiveStep DEF StopUpdate, Passive, NodeSteps, JobTypeOK
<1>28. CASE StopStatus(w)
  BY <1>0, <1>c, <1>28, PassiveStep DEF StopStatus, Passive, NodeSteps, JobTypeOK
<1>29. CASE DeleteRow(w)
  BY <1>0, <1>c, <1>29, PassiveStep DEF DeleteRow, Passive, NodeSteps, JobTypeOK
<1>30. CASE NodesSet(w)
  BY <1>0, <1>c, <1>30, PassiveStep DEF NodesSet, Passive, NodeSteps, JobTypeOK
<1>31. CASE NodesGet(w)
  BY <1>0, <1>c, <1>31, PassiveStep DEF NodesGet, Passive, NodeSteps, JobTypeOK
<1>32. CASE NodesUpdate(w)
  BY <1>0, <1>c, <1>32, PassiveStep DEF NodesUpdate, Passive, NodeSteps, JobTypeOK
<1>33. CASE ReloadContains(w)
  BY <1>0, <1>c, <1>33, PassiveStep DEF ReloadContains, Passive, NodeSteps, JobTypeOK
<1>34. CASE ReloadList(w)
  BY <1>0, <1>c, <1>34, PassiveStep DEF ReloadList, Passive, NodeSteps, JobTypeOK
<1>35. CASE PutGet(w)
  BY <1>0, <1>c, <1>35, PassiveStep DEF PutGet, Passive, NodeSteps, JobTypeOK
<1>36. CASE PutPrepare(w)
  BY <1>0, <1>c, <1>36, PassiveStep DEF PutPrepare, Passive, NodeSteps, JobTypeOK
<1>37. CASE PutUpdate(w)
  BY <1>0, <1>c, <1>37, PassiveStep DEF PutUpdate, Passive, NodeSteps, JobTypeOK
<1>38. CASE CreateInsert(w)
  BY <1>0, <1>c, <1>38, PassiveStep DEF CreateInsert, Passive, NodeSteps, JobTypeOK
<1>39. CASE CreateUpdate(w)
  BY <1>0, <1>c, <1>39, PassiveStep DEF CreateUpdate, Passive, NodeSteps, JobTypeOK
<1>40. CASE CreateNodes(w)
  BY <1>0, <1>c, <1>40, PassiveStep DEF CreateNodes, Passive, NodeSteps, JobTypeOK
<1> QED
  BY <1>1, <1>2, <1>3, <1>4, <1>5, <1>6, <1>7, <1>8, <1>9, <1>10, <1>11, <1>12,
     <1>13, <1>14, <1>15, <1>16, <1>17, <1>18, <1>19, <1>20, <1>21, <1>22, <1>23,
     <1>24, <1>25, <1>26, <1>27, <1>28, <1>29, <1>30, <1>31, <1>32, <1>33, <1>34,
     <1>35, <1>36, <1>37, <1>38, <1>39, <1>40
     DEF WorkerStep, StartStep, TeardownStep, StopStep, NodesStep, EditStep

\* A request that begins undisturbed finds the tunnel at rest.
LEMMA PlaneBegin ==
    ASSUME TypeOK, BypassInv, PlaneInv, NEW w \in Workers, NEW o \in Ops \ {"none"},
           NEW t \in Tunnels, BeginJob(w, o, t),
           UNCHANGED <<phase, memVars, netVars>>,
           \/ queue' = queue /\ w # Main /\ o # "shutdown"
           \/ /\ queue' = queue \ {t} /\ t \in queue /\ w = Main
              /\ \/ phase = "boot" /\ o = "start"
                 \/ phase = "draining" /\ o = "shutdown"
    PROVE  PlaneInv'
<1>0. /\ JobTypeOK /\ tun \in [Workers -> Tunnels]
      /\ running' = running /\ UNCHANGED <<tracked, wg, xray, dev, route, chain, fwd, nat>>
  BY DEF TypeOK, JobTypeOK
<1>1. /\ pc[w] = "idle" /\ pc'[w] = FirstStep[o] /\ tun'[w] = t /\ op'[w] = o
      /\ pc'[w] \in {"contains", "stop_get", "n_set", "p_get", "c_insert"}
      /\ (pc'[w] = "contains" => o = "start") /\ (o = "shutdown" => pc'[w] = "stop_get")
      /\ o = "shutdown" <=> w = Main /\ phase = "draining"
      /\ cfg' = cfg /\ snap' = snap
      /\ \A v \in Workers \ {w} : /\ pc'[v] = pc[v] /\ tun'[v] = tun[v]
                                  /\ op'[v] = op[v]
  BY <1>0 DEF BeginJob, JobTypeOK, FirstStep, Ops, HandlerOps
<1>2. /\ \A v \in Workers \ {w} : overlap'[v] <=> overlap[v] \/ Active(v, t)
      /\ tainted' = IF Busy(w, t) THEN tainted \cup {t} ELSE tainted
  BY DEF BeginJob
<1>3. \A x \in Tunnels : /\ Rested(x)' = Rested(x) /\ AllUp(x)' = AllUp(x)
  BY <1>0 DEF Rested, AllUp, AllDown
<1>4. t \notin tainted' =>
         /\ t \notin tainted /\ \A v \in Workers : ~Active(v, t)
         /\ PendingDrain(t) => w = Main
  BY <1>1, <1>2 DEF Busy, Active, PendingDrain
<1>5. t \notin tainted' => IF o = "shutdown" THEN t \notin running ELSE Rested(t)
  <2>1. PlaneAt(t)
    BY DEF PlaneInv
  <2>2. CASE o = "shutdown"
    BY <1>4, <2>1, <2>2 DEF PlaneAt, PendingDrain
  <2>3. CASE o # "shutdown"
    BY <1>4, <2>1, <2>3 DEF PlaneAt, Quiet, PendingDrain
  <2> QED
    BY <2>2, <2>3
<1>6. PlaneOf(w)'
  <2>1. Rested(tun[w])' = Rested(t)
    BY <1>0, <1>1 DEF Rested, AllUp, AllDown
  <2> QED
    BY <1>0, <1>1, <1>5, <2>1 DEF PlaneOf, Course, Passive, InStart, StartBody, StopTail
<1>7. ASSUME NEW v \in Workers, v # w PROVE PlaneOf(v)'
  <2>1. /\ pc'[v] = pc[v] /\ tun'[v] = tun[v] /\ op'[v] = op[v] /\ cfg'[v] = cfg[v]
        /\ tun[v] \in Tunnels /\ PlaneOf(v) /\ snap' = snap
        /\ (~overlap'[v] => ~overlap[v]) /\ (tun[v] \notin tainted' => tun[v] \notin tainted)
    BY <1>0, <1>1, <1>2, <1>7 DEF PlaneInv
  <2>2. /\ Passive(v)' = Passive(v) /\ InStart(v)' = InStart(v)
        /\ Built(v)' = Built(v) /\ Removed(v)' = Removed(v)
    BY <1>0, <2>1 DEF Passive, InStart, Built, Removed, Link
  <2>3. Rested(tun[v])' = Rested(tun[v]) /\ AllUp(tun[v])' = AllUp(tun[v])
    BY <1>0, <2>1 DEF Rested, AllUp, AllDown
  <2> QED
    BY <1>0, <2>1, <2>2, <2>3 DEF PlaneOf, Course
<1>8. ASSUME NEW x \in Tunnels PROVE PlaneAt(x)'
  <2>1. CASE x = t
    BY <1>1, <1>4, <1>0, <2>1 DEF PlaneAt, Quiet, Active, PendingDrain, PlaneInv
  <2>2. CASE x # t
    <3>1. Quiet(x)' => Quiet(x)
      BY <1>1, <2>2 DEF Quiet, Active
    <3>2. PendingDrain(x)' => PendingDrain(x)
      BY <2>2 DEF PendingDrain
    <3> QED
      BY <1>0, <1>2, <1>3, <2>2, <3>1, <3>2 DEF PlaneAt, PlaneInv
  <2> QED
    BY <2>1, <2>2
<1> QED
  BY <1>6, <1>7, <1>8 DEF PlaneInv

\* Every step of the system keeps the data plane in order.
LEMMA PlaneNext ==
    TypeOK /\ BypassInv /\ DeviceOwned /\ PlaneInv /\ [Next]_vars => PlaneInv'
<1> SUFFICES ASSUME TypeOK, BypassInv, DeviceOwned, PlaneInv, [Next]_vars
             PROVE  PlaneInv'
  OBVIOUS
<1>0. JobTypeOK /\ tun \in [Workers -> Tunnels]
  BY DEF TypeOK, JobTypeOK
<1>1. ASSUME NEW w \in Handlers, NEW o \in Events \cap HandlerOps,
             NEW t \in Tunnels, Request(w, o, t)
      PROVE  PlaneInv'
  <2>1. w \in Workers /\ w # Main /\ o \in Ops \ {"none"} /\ o # "shutdown"
    BY MainAssumption DEF Workers, Ops, HandlerOps
  <2>2. BeginJob(w, o, t) /\ UNCHANGED <<phase, queue, memVars, netVars>>
    BY <1>1 DEF Request
  <2> QED
    BY <2>1, <2>2, PlaneBegin
<1>2. ASSUME NEW t \in Tunnels, MainNext(t) PROVE PlaneInv'
  <2>1. Main \in Workers /\ "start" \in Ops \ {"none"} /\ "shutdown" \in Ops \ {"none"}
    BY DEF Workers, Ops, HandlerOps
  <2>2. /\ queue' = queue \ {t} /\ t \in queue /\ UNCHANGED <<phase, memVars, netVars>>
        /\ \/ phase = "boot" /\ BeginJob(Main, "start", t)
           \/ phase = "draining" /\ BeginJob(Main, "shutdown", t)
    BY <1>2 DEF MainNext
  <2> QED
    BY <2>1, <2>2, PlaneBegin
<1>3. ASSUME NEW w \in Workers, Cancel(w) PROVE PlaneInv'
  BY <1>3 DEF Cancel, PlaneInv, PlaneOf, PlaneAt, Course, Passive, InStart, Built,
     Removed, Link,
     Rested, AllUp, AllDown, Quiet, Active, PendingDrain
<1>4. ASSUME NEW w \in Workers, WorkerStep(w) PROVE PlaneInv'
  BY <1>4, PlaneWorkerStep
<1>5. CASE MainDone
  <2>1. /\ queue = {} /\ UNCHANGED <<queue, pc, op, tun, snap, cfg, overlap, tainted>>
        /\ UNCHANGED <<running, tracked, wg, xray, dev, route, chain, fwd, nat>>
    BY <1>5 DEF MainDone
  <2>2. \A w \in Workers : PlaneOf(w)'
    BY <2>1 DEF PlaneInv, PlaneOf, Course, Passive, InStart, Built, Removed, Link, Rested,
       AllUp, AllDown
  <2>3. \A t \in Tunnels : PlaneAt(t)'
    BY <2>1 DEF PlaneInv, PlaneAt, Rested, AllUp, AllDown, Quiet, Active, PendingDrain
  <2> QED
    BY <2>2, <2>3 DEF PlaneInv
<1>6. CASE Drain
  <2>1. /\ phase' = "draining" /\ queue' = running /\ running' = {}
        /\ UNCHANGED <<pc, op, tun, snap, cfg>>
        /\ UNCHANGED <<tracked, wg, xray, dev, route, chain, fwd, nat>>
        /\ tainted' = tainted \cup {t \in running : \E v \in Workers : Active(v, t)}
        /\ \A v \in Workers : overlap[v] => overlap'[v]
        /\ phase = "serving"
    BY <1>6 DEF Drain
  <2>2. ASSUME NEW w \in Workers PROVE PlaneOf(w)'
    <3>1. /\ PlaneOf(w) /\ tun[w] \in Tunnels /\ (Passive(w)' <=> Passive(w))
          /\ (InStart(w)' <=> InStart(w)) /\ (Removed(w) => Removed(w)')
      BY <1>0, <2>1 DEF PlaneInv, Passive, InStart, Removed, Link
    <3>2. pc[w] # "idle" /\ tun[w] \notin tainted' => tun[w] \notin tainted /\ tun[w] \notin running
      BY <1>0, <2>1, <3>1 DEF Active, TypeOK, MemTypeOK
    <3>3. Built(w) => Built(w)'
      BY <2>1 DEF Built
    <3>4. tun[w] \notin running => (Rested(tun[w])' <=> Rested(tun[w]))
      BY <2>1 DEF Rested, AllDown
    <3> QED
      BY <2>1, <3>1, <3>2, <3>3, <3>4 DEF PlaneOf, Course
  <2>3. ASSUME NEW t \in Tunnels PROVE PlaneAt(t)'
    BY <2>1 DEF PlaneInv, PlaneAt, Rested, AllDown, Quiet, Active, PendingDrain
  <2> QED
    BY <2>2, <2>3 DEF PlaneInv
<1>7. CASE Restart
  <2>1. /\ \A v \in Workers : pc'[v] = "idle"
        /\ phase' = "boot" /\ running' = {}
        /\ \A x \in Tunnels : x \notin tainted' => AllDown(x)'
    BY <1>7, ConstantsAssumption DEF Restart, AllDown
  <2> QED
    BY <2>1 DEF PlaneInv, PlaneOf, PlaneAt, Rested, StopTail, StartBody, PendingDrain
<1>8. CASE UNCHANGED vars
  BY <1>8 DEF vars, PlaneInv, PlaneOf, PlaneAt, Course, Passive, InStart, Built,
     Removed, Link,
     Rested, AllUp, AllDown, Quiet, Active, PendingDrain
<1> QED
  BY <1>1, <1>2, <1>3, <1>4, <1>5, <1>6, <1>7, <1>8 DEF Next

\* Exactly what a Start, a rollback or a teardown has got to is in place, on every
\* tunnel where requests did not overlap, at every moment: for any number of
\* tunnels and handlers, and through every failure of every call.
THEOREM PlaneAlways == Spec => []PlaneInv
<1>1. Init => PlaneInv
  <2>1. Init => \A t \in Tunnels : t \notin running /\ AllDown(t)
    BY DEF Init, AllDown
  <2>2. Init => \A w \in Workers : pc[w] = "idle"
    BY DEF Init
  <2>3. Init => phase = "boot"
    BY DEF Init
  <2> QED
    BY <2>1, <2>2, <2>3 DEF PlaneInv, PlaneOf, PlaneAt, Rested, StopTail, StartBody,
       PendingDrain
<1> QED
  BY <1>1, TypeCorrect, BypassAlways, DeviceOwnedAlways, PlaneNext, PTL DEF Spec

\* A failed Start rolls back whatever it had done, and Stop, Delete and ShutdownAll
\* remove everything: between requests a tunnel outside the RunSet holds nothing,
\* unless requests overlapped or a PUT had changed the tun_name the teardown used,
\* and since then no undisturbed teardown has come.
THEOREM StoppedIsDownAlways == Spec => []StoppedIsDown
<1>1. PlaneInv => StoppedIsDown
  BY DEF PlaneInv, PlaneAt, Rested, StoppedIsDown
<1> QED
  BY <1>1, PlaneAlways, PTL

\* A tunnel in the RunSet has its whole data plane, from Mark to the first call of
\* a teardown, whatever edits and reloads come in between.
THEOREM RunningIsUpAlways == Spec => []RunningIsUp
<1>1. TypeOK /\ PlaneInv /\ BypassInv => RunningIsUp
  <2> SUFFICES ASSUME TypeOK, PlaneInv, BypassInv, NEW t \in Tunnels, t \notin tainted, t \in running,
                      \A w \in Workers : Active(w, t) => ~InTeardown(w)
               PROVE  AllUp(t)
    BY DEF RunningIsUp
  <2>1. CASE \A w \in Workers : ~Active(w, t)
    <3>1. Quiet(t)
      BY <2>1 DEF PlaneInv, PlaneAt, Quiet, PendingDrain
    <3> QED
      BY <3>1 DEF PlaneInv, PlaneAt, Rested
  <2>2. ASSUME NEW w \in Workers, Active(w, t) PROVE AllUp(t)
    <3>1. /\ pc[w] # "idle" /\ tun[w] = t /\ PlaneOf(w) /\ pc[w] \in Steps /\ op[w] \in Ops
          /\ ~overlap[w]
      BY <2>2 DEF Active, PlaneInv, TypeOK, JobTypeOK, BypassInv, OverlapTaints
    <3>2. Course(w) /\ ~InTeardown(w)
      BY <2>2, <3>1 DEF PlaneOf
    <3>3. ~InStart(w) /\ pc[w] # "st_untrack" /\ ~(pc[w] = "stop_get" /\ op[w] = "shutdown")
      BY <3>1, <3>2 DEF Course, Built, PlaneOf, StopTail, Removed, Link
    <3>4. CASE Passive(w)
      BY <3>1, <3>2, <3>4 DEF Course, Rested
    <3>5. CASE pc[w] \in {"track", "st_fwd"}
      BY <3>1, <3>2, <3>5 DEF Course
    <3>6. Passive(w) \/ pc[w] \in {"track", "st_fwd"}
      BY <3>1, <3>2, <3>3 DEF Steps, Passive, InStart, StartBody, InTeardown, PlaneOf
    <3> QED
      BY <3>4, <3>5, <3>6
  <2> QED
    BY <2>1, <2>2
<1> QED
  BY <1>1, PlaneAlways, BypassAlways, TypeCorrect, PTL

-----------------------------------------------------------------------------
(* The rows *)

\* The row a request is about to write back has the status of the table.
FreshSnap(w) ==
    pc[w] \in {"n_update", "p_prepare", "p_update", "c_update"} =>
        snap[w].st = row[tun[w]].st

\* What a request on an undisturbed tunnel knows when it is about to write the
\* row.  A delete that skipped the teardown was cancelled, or there is no row.
RowOf(w) ==
    pc[w] # "idle" /\ tun[w] \notin tainted =>
        /\ pc[w] = "mark" => row[tun[w]].st = "running"
        /\ FreshSnap(w)
        /\ pc[w] \in {"stop_update", "stop_status"} => tun[w] \notin running
        /\ pc[w] = "delete" => tun[w] \notin running \/ cancelled[w]

\* main() rests while requests are served, and at shutdown only tears down.
MainSteps == {"stop_get", "st_fwd"} \cup StopTail
MainWorks ==
    /\ phase \in {"serving", "closing"} => pc[Main] = "idle"
    /\ phase = "draining" /\ pc[Main] # "idle" =>
          pc[Main] \in MainSteps /\ op[Main] = "shutdown"

\* The row of a tunnel that is up, or was when the shutdown began.
RowAt(t) ==
    /\ t \notin tainted
    /\ t \in running \/ (phase = "draining" /\ (t \in queue \/ Active(Main, t)))
    => row[t].st = "running"

\* The inductive strengthening of RestartRestores.
PersistInv ==
    /\ \A w \in Workers : RowOf(w)
    /\ \A t \in Tunnels : RowAt(t)
    /\ MainWorks

\* What is written back keeps its own status.
LEMMA WrittenStatus ==
    ASSUME NEW old \in Row, NEW new \in Row
    PROVE  Written(old, new).st = new.st
BY DEF Written, Row

\* ShutdownAll only runs stopInternal, and never goes on to write the row.
LEMMA MainWorkerStep ==
    ASSUME TypeOK, MainWorks, NEW w \in Workers, WorkerStep(w)
    PROVE  MainWorks'
<1> USE ContinueFrame, FinishFrame, GotoFrame
<1>0. JobTypeOK /\ Frame(w)
  BY WorkerFrame DEF TypeOK
<1>1. CASE w # Main
  BY <1>0, <1>1 DEF MainWorks, Frame, Workers
<1>2. CASE w = Main /\ phase # "draining"
  BY <1>0, <1>2 DEF MainWorks, Frame
<1>3. CASE w = Main /\ phase = "draining"
  <2>1. pc[w] \in MainSteps /\ op[w] = "shutdown" /\ phase' = phase
    BY <1>0, <1>3 DEF MainWorks, Frame
  <2>2. TeardownStep(w) \/ StopGet(w)
    BY <2>1 DEF MainSteps, StopTail, WorkerStep, StartStep, StopStep, NodesStep,
       EditStep,
       StartContains, StartGet, StartNodes, StartRestoreNode, StartCreateTUN, StartRegister,
       StartAssignTUN, StartReturnRoute, XrayInstance, XrayRegister, StartTProxy,
       StartForward, StartMasquerade, StartUpdate, StartMark, StartTrack, RollbackStatus,
       StopUpdate, StopStatus, DeleteRow, NodesSet, NodesGet, NodesUpdate, ReloadContains,
       ReloadList, PutGet, PutPrepare, PutUpdate, CreateInsert, CreateUpdate, CreateNodes
  <2>3. pc'[w] = "idle" \/ (pc'[w] \in MainSteps /\ op'[w] = "shutdown")
    <3>1. CASE StopGet(w)
      BY <1>0, <2>1, <3>1 DEF StopGet, MainSteps
    <3>2. CASE TeardownUntrack(w)
      BY <1>0, <2>1, <3>2 DEF TeardownUntrack
    <3>3. CASE TeardownStep(w) /\ ~TeardownUntrack(w)
      <4>1. \E p \in {"st_fwd", "st_nat", "st_tproxy", "st_route", "st_wg", "st_xray",
                     "st_clear"} : pc[w] = p /\ Continue(w, AfterTeardown[p])
        BY <2>1, <3>3 DEF TeardownStep, MainSteps, StopTail,
           TeardownForward, TeardownMasquerade, TeardownTProxy, TeardownReturnRoute,
           TeardownDevice, TeardownXray, TeardownClear
      <4> QED
        BY <1>0, <2>1, <4>1 DEF AfterTeardown, MainSteps, StopTail
    <3> QED
      BY <2>2, <3>1, <3>2, <3>3
  <2> QED
    BY <1>3, <2>1, <2>3 DEF MainWorks
<1> QED
  BY <1>1, <1>2, <1>3

\* What remains to be shown of a step of w: what w knows of the row, and that
\* the row of its tunnel stays in order.
LEMMA RowStep ==
    ASSUME TypeOK, BypassInv, PersistInv, NEW w \in Workers, WorkerStep(w),
           tun[w] \in tainted /\ overlap[w] => tun[w] \in tainted',
           RowOf(w)', RowAt(tun[w])'
    PROVE  PersistInv'
<1>0. /\ JobTypeOK /\ tun \in [Workers -> Tunnels] /\ tun[w] \in Tunnels /\ tun' = tun
      /\ pc[w] # "idle" /\ phase' = phase /\ queue' = queue /\ SameElsewhere(w)
      /\ \A v \in Workers \ {w} : pc'[v] = pc[v]
  BY WorkerFrame, Elsewhere DEF TypeOK, JobTypeOK, Frame
<1>1. MainWorks'
  BY MainWorkerStep DEF PersistInv
<1>2. ASSUME NEW v \in Workers, v # w PROVE RowOf(v)'
  <2>0. /\ pc'[v] = pc[v] /\ snap'[v] = snap[v] /\ cancelled'[v] = cancelled[v]
        /\ tun'[v] = tun[v] /\ tun[v] \in Tunnels /\ RowOf(v)
    BY <1>0, <1>2 DEF SameElsewhere, PersistInv
  <2>1. CASE tun[v] # tun[w]
    BY <1>0, <2>0, <2>1 DEF SameElsewhere, RowOf, FreshSnap
  <2>2. CASE tun[v] = tun[w] /\ pc[v] # "idle"
    <3>1. tun[v] \in tainted'
      BY <1>0, <1>2, <2>2 DEF BypassInv, OverlapSeen, OverlapTaints
    <3> QED
      BY <2>0, <3>1 DEF RowOf
  <2>3. CASE pc[v] = "idle"
    BY <2>0, <2>3 DEF RowOf
  <2> QED
    BY <2>1, <2>2, <2>3
<1>3. ASSUME NEW t \in Tunnels PROVE RowAt(t)'
  <2>1. CASE t # tun[w]
    <3>1. Active(Main, t)' => Active(Main, t)
      BY <1>0, <2>1 DEF Active, Workers
    <3> QED
      BY <1>0, <2>1, <3>1 DEF SameElsewhere, PersistInv, RowAt
  <2>2. CASE t = tun[w]
    BY <1>0, <2>2 DEF RowAt, Active
  <2> QED
    BY <2>1, <2>2
<1> QED
  BY <1>1, <1>2, <1>3 DEF PersistInv

\* A step that leaves the row's status alone.
LEMMA QuietRow ==
    ASSUME TypeOK, BypassInv, PersistInv, NEW w \in Workers, WorkerStep(w),
           UNCHANGED running, tun[w] \in tainted => tun[w] \in tainted',
           row'[tun[w]].st = row[tun[w]].st, RowOf(w)'
    PROVE  PersistInv'
<1>0. /\ JobTypeOK /\ tun[w] \in Tunnels /\ tun' = tun /\ pc[w] # "idle" /\ w \in Workers
      /\ phase' = phase /\ queue' = queue /\ \A v \in Workers \ {w} : pc'[v] = pc[v]
  BY WorkerFrame DEF TypeOK, JobTypeOK, Frame
<1>1. Active(Main, tun[w])' => Active(Main, tun[w])
  BY <1>0 DEF Active, Workers
<1>2. RowAt(tun[w])'
  BY <1>0, <1>1 DEF PersistInv, RowAt, Active
<1> QED
  BY <1>2, RowStep

\* A request that is neither main()'s nor overlapped may write the row of a
\* tunnel that is not running.
LEMMA FreeRow ==
    ASSUME TypeOK, BypassInv, PersistInv, NEW w \in Workers, WorkerStep(w),
           tun[w] \notin tainted', tun[w] \notin running',
           tun[w] \in tainted => ~overlap[w],
           w = Main => phase # "draining" \/ pc'[w] = "idle"
    PROVE  RowAt(tun[w])'
<1>0. /\ JobTypeOK /\ tun[w] \in Tunnels /\ tun' = tun /\ pc[w] # "idle" /\ w \in Workers
      /\ phase' = phase /\ queue' = queue /\ \A v \in Workers \ {w} : pc'[v] = pc[v]
      /\ Main \in Workers
  BY WorkerFrame DEF TypeOK, JobTypeOK, Frame, Workers
<1>1. /\ \A v \in Workers \ {w} : pc[v] # "idle" => tun[v] # tun[w]
      /\ ~PendingDrain(tun[w])
  BY <1>0, Alone
<1> QED
  BY <1>0, <1>1 DEF RowAt, Active, PendingDrain

\* Every step of a request keeps the rows in order.
LEMMA PersistWorkerStep ==
    ASSUME TypeOK, BypassInv, PlaneInv, PersistInv, NEW w \in Workers, WorkerStep(w)
    PROVE  PersistInv'
<1> USE ContinueFrame, FinishFrame, GotoFrame
<1> DEFINE t == tun[w]
<1>0. /\ JobTypeOK /\ MemTypeOK /\ DbTypeOK /\ NetTypeOK /\ Frame(w) /\ w \in Workers
      /\ t \in Tunnels /\ tun' = tun /\ PlaneOf(w) /\ RowOf(w)
      /\ pc[w] # "idle" /\ RowAt(t) /\ phase' = phase
  BY WorkerFrame DEF TypeOK, JobTypeOK, PlaneInv, PersistInv, Frame
<1>1. t \notin tainted => ~overlap[w]
  BY <1>0 DEF BypassInv, OverlapTaints
<1>2. w = Main /\ phase = "draining" => pc[w] \in MainSteps /\ op[w] = "shutdown"
  BY <1>0 DEF PersistInv, MainWorks
<1>3. InStart(w) /\ t \notin tainted => t \notin running
  BY <1>0 DEF BypassInv, StartFresh

<1>4. CASE StartContains(w)
  <2>1. /\ UNCHANGED <<row, running, tainted>>
        /\ pc'[w] \in {"idle", "get"}
    BY <1>0, <1>4 DEF StartContains
  <2>2. RowOf(w)'
    BY <2>1 DEF RowOf, FreshSnap
  <2> QED
    BY <2>1, <2>2, QuietRow
<1>5. CASE StartGet(w)
  <2>1. /\ UNCHANGED <<row, running, tainted>>
        /\ pc'[w] \in {"nodes", "idle"}
    BY <1>0, <1>5 DEF StartGet
  <2>2. RowOf(w)'
    BY <2>1 DEF RowOf, FreshSnap
  <2> QED
    BY <2>1, <2>2, QuietRow
<1>6. CASE StartNodes(w)
  <2>1. /\ UNCHANGED <<row, running, tainted>>
        /\ pc'[w] \in {"wg", "restore", "idle"}
    BY <1>0, <1>6 DEF StartNodes
  <2>2. RowOf(w)'
    BY <2>1 DEF RowOf, FreshSnap
  <2> QED
    BY <2>1, <2>2, QuietRow
<1>7. CASE StartRestoreNode(w)
  <2>1. /\ UNCHANGED <<running, tainted>> /\ pc[w] = "restore" /\ pc'[w] \in {"wg", "idle"}
    BY <1>0, <1>7 DEF StartRestoreNode
  <2>2. RowOf(w)'
    BY <2>1 DEF RowOf, FreshSnap
  <2>3. t \notin tainted => RowAt(t)'
    BY <1>0, <1>1, <1>2, <1>3, <2>1, FreeRow DEF InStart, StartBody, MainSteps, StopTail
  <2> QED
    BY <1>0, <2>1, <2>2, <2>3, RowStep DEF RowAt
<1>8. CASE StartCreateTUN(w)
  <2>1. /\ UNCHANGED <<row, running, tainted>>
        /\ pc'[w] \in {"reg", "rb_status"}
    BY <1>0, <1>8 DEF StartCreateTUN
  <2>2. RowOf(w)'
    BY <2>1 DEF RowOf, FreshSnap
  <2> QED
    BY <2>1, <2>2, QuietRow
<1>9. CASE StartRegister(w)
  <2>1. /\ UNCHANGED <<row, running, tainted>>
        /\ pc'[w] \in {"assign"}
    BY <1>0, <1>9 DEF StartRegister
  <2>2. RowOf(w)'
    BY <2>1 DEF RowOf, FreshSnap
  <2> QED
    BY <2>1, <2>2, QuietRow
<1>10. CASE StartAssignTUN(w)
  <2>1. /\ UNCHANGED <<row, running, tainted>>
        /\ pc'[w] \in {"route", "rb_wg"}
    BY <1>0, <1>10 DEF StartAssignTUN
  <2>2. RowOf(w)'
    BY <2>1 DEF RowOf, FreshSnap
  <2> QED
    BY <2>1, <2>2, QuietRow
<1>11. CASE StartReturnRoute(w)
  <2>1. /\ UNCHANGED <<row, running, tainted>>
        /\ pc'[w] \in {"xray", "rb_wg"}
    BY <1>0, <1>11 DEF StartReturnRoute
  <2>2. RowOf(w)'
    BY <2>1 DEF RowOf, FreshSnap
  <2> QED
    BY <2>1, <2>2, QuietRow
<1>12. CASE XrayInstance(w)
  <2>1. /\ UNCHANGED <<row, running, tainted>>
        /\ pc'[w] \in {"xreg", "rb_route", "idle"}
    BY <1>0, <1>12 DEF XrayInstance
  <2>2. RowOf(w)'
    BY <2>1 DEF RowOf, FreshSnap
  <2> QED
    BY <2>1, <2>2, QuietRow
<1>13. CASE XrayRegister(w)
  <2>1. /\ UNCHANGED <<row, running, tainted>>
        /\ pc'[w] \in {"tproxy", "idle"}
    BY <1>0, <1>13 DEF XrayRegister
  <2>2. RowOf(w)'
    BY <2>1 DEF RowOf, FreshSnap
  <2> QED
    BY <2>1, <2>2, QuietRow
<1>14. CASE StartTProxy(w)
  <2>1. /\ UNCHANGED <<row, running, tainted>>
        /\ pc'[w] \in {"fwd", "rb_xray"}
    BY <1>0, <1>14 DEF StartTProxy
  <2>2. RowOf(w)'
    BY <2>1 DEF RowOf, FreshSnap
  <2> QED
    BY <2>1, <2>2, QuietRow
<1>15. CASE StartForward(w)
  <2>1. /\ UNCHANGED <<row, running, tainted>>
        /\ pc'[w] \in {"nat", "rb_tproxy"}
    BY <1>0, <1>15 DEF StartForward
  <2>2. RowOf(w)'
    BY <2>1 DEF RowOf, FreshSnap
  <2> QED
    BY <2>1, <2>2, QuietRow
<1>16. CASE StartMasquerade(w)
  <2>1. /\ UNCHANGED <<row, running, tainted>>
        /\ pc'[w] \in {"update", "rb_fwd"}
    BY <1>0, <1>16 DEF StartMasquerade
  <2>2. RowOf(w)'
    BY <2>1 DEF RowOf, FreshSnap
  <2> QED
    BY <2>1, <2>2, QuietRow
<1>17. CASE StartUpdate(w)
  <2>1. /\ UNCHANGED <<running, tainted>> /\ pc[w] = "update"
        /\ \/ pc'[w] = "mark" /\ row'[t].st = "running"
           \/ pc'[w] = "st_fwd" /\ row' = row
    <3>0. snap[w] \in Row /\ row[t] \in Row /\ t \in Links /\ "running" \in RowStates
      BY <1>0 DEF JobTypeOK, DbTypeOK, RowStates, Status, Links
    <3>1. [snap[w] EXCEPT !.st = "running", !.link = t] \in Row /\ row[t] \in Row
      BY <3>0 DEF Row
    <3>2. Written(row[t], [snap[w] EXCEPT !.st = "running", !.link = t]).st = "running"
      BY <1>0, <3>1, WrittenStatus DEF JobTypeOK, Row
    <3> QED
      BY <1>0, <1>17, <3>2 DEF StartUpdate, DbTypeOK
  <2>2. RowOf(w)'
    BY <1>0, <2>1 DEF RowOf, FreshSnap
  <2>3. t \notin tainted => RowAt(t)'
    BY <1>0, <1>1, <1>2, <1>3, <2>1, FreeRow DEF InStart, StartBody, MainSteps, StopTail
  <2> QED
    BY <1>0, <2>1, <2>2, <2>3, RowStep DEF RowAt
<1>18. CASE StartMark(w)
  <2>1. /\ UNCHANGED <<row, tainted>> /\ pc[w] = "mark" /\ pc'[w] = "track"
    BY <1>0, <1>18 DEF StartMark
  <2>2. RowOf(w)'
    BY <2>1 DEF RowOf, FreshSnap
  <2>3. RowAt(t)'
    BY <1>0, <2>1 DEF RowAt, RowOf
  <2> QED
    BY <2>1, <2>2, <2>3, RowStep
<1>19. CASE StartTrack(w)
  <2>1. /\ UNCHANGED <<row, running, tainted>>
        /\ pc'[w] \in {"idle"}
    BY <1>0, <1>19 DEF StartTrack
  <2>2. RowOf(w)'
    BY <2>1 DEF RowOf, FreshSnap
  <2> QED
    BY <2>1, <2>2, QuietRow
<1>20. CASE RollbackStatus(w)
  <2>1. /\ UNCHANGED <<running, tainted>> /\ pc[w] = "rb_status" /\ pc'[w] \in {"wg", "idle"}
    BY <1>0, <1>20 DEF RollbackStatus
  <2>2. RowOf(w)'
    BY <2>1 DEF RowOf, FreshSnap
  <2>3. t \notin tainted => RowAt(t)'
    BY <1>0, <1>1, <1>2, <1>3, <2>1, FreeRow DEF InStart, StartBody, MainSteps, StopTail
  <2> QED
    BY <1>0, <2>1, <2>2, <2>3, RowStep DEF RowAt
<1>21. CASE TeardownForward(w)
  <2>1. /\ UNCHANGED <<row, running>> /\ (t \in tainted => t \in tainted')
        /\ pc'[w] \in {"st_nat", "rb_tproxy"}
    BY <1>0, <1>21 DEF TeardownForward, AfterTeardown
  <2>2. RowOf(w)'
    BY <2>1 DEF RowOf, FreshSnap
  <2> QED
    BY <2>1, <2>2, QuietRow
<1>22. CASE TeardownMasquerade(w)
  <2>1. /\ UNCHANGED <<row, running, tainted>>
        /\ pc'[w] \in {"st_tproxy"}
    BY <1>0, <1>22 DEF TeardownMasquerade, AfterTeardown
  <2>2. RowOf(w)'
    BY <2>1 DEF RowOf, FreshSnap
  <2> QED
    BY <2>1, <2>2, QuietRow
<1>23. CASE TeardownTProxy(w)
  <2>1. /\ UNCHANGED <<row, running, tainted>>
        /\ pc'[w] \in {"st_route", "rb_xray"}
    BY <1>0, <1>23 DEF TeardownTProxy, AfterTeardown
  <2>2. RowOf(w)'
    BY <2>1 DEF RowOf, FreshSnap
  <2> QED
    BY <2>1, <2>2, QuietRow
<1>24. CASE TeardownReturnRoute(w)
  <2>1. /\ UNCHANGED <<row, running, tainted>>
        /\ pc'[w] \in {"st_wg", "rb_wg"}
    BY <1>0, <1>24 DEF TeardownReturnRoute, AfterTeardown
  <2>2. RowOf(w)'
    BY <2>1 DEF RowOf, FreshSnap
  <2> QED
    BY <2>1, <2>2, QuietRow
<1>25. CASE TeardownDevice(w)
  <2>1. /\ UNCHANGED <<row, running, tainted>>
        /\ pc'[w] \in {"st_xray", "rb_status"}
    BY <1>0, <1>25 DEF TeardownDevice, AfterTeardown
  <2>2. RowOf(w)'
    BY <2>1 DEF RowOf, FreshSnap
  <2> QED
    BY <2>1, <2>2, QuietRow
<1>26. CASE TeardownXray(w)
  <2>1. /\ UNCHANGED <<row, running, tainted>>
        /\ pc'[w] \in {"st_clear", "rb_route"}
    BY <1>0, <1>26 DEF TeardownXray, AfterTeardown
  <2>2. RowOf(w)'
    BY <2>1 DEF RowOf, FreshSnap
  <2> QED
    BY <2>1, <2>2, QuietRow
<1>27. CASE TeardownClear(w)
  <2>1. /\ UNCHANGED <<row, tainted>> /\ pc[w] = "st_clear" /\ pc'[w] = "st_untrack"
        /\ running' = running \ {t}
    BY <1>0, <1>27 DEF TeardownClear, AfterTeardown
  <2>2. RowOf(w)'
    BY <2>1 DEF RowOf, FreshSnap
  <2>3. Active(Main, t)' => Active(Main, t)
    BY <1>0, <2>1 DEF Active, Frame, Workers
  <2>4. RowAt(t)'
    BY <1>0, <2>1, <2>3 DEF RowAt, Active, Frame
  <2> QED
    BY <2>1, <2>2, <2>4, RowStep
<1>28. CASE TeardownUntrack(w)
  <2>1. /\ UNCHANGED <<row, running>> /\ pc[w] = "st_untrack"
        /\ tainted' = IF overlap[w] THEN tainted ELSE tainted \ {t}
        /\ \/ pc'[w] = "stop_update" /\ op[w] \in {"stop", "delete"}
           \/ pc'[w] = "idle"
    BY <1>0, <1>28 DEF TeardownUntrack
  <2>2. ~overlap[w] => t \notin running
    BY <1>0, <2>1 DEF PlaneOf, StopTail, Removed, Link
  <2>3. RowOf(w)'
    BY <1>0, <1>1, <2>1, <2>2 DEF RowOf, FreshSnap
  <2>4. t \notin tainted' => RowAt(t)'
    BY <1>0, <1>1, <1>2, <2>1, <2>2, FreeRow
  <2> QED
    BY <1>0, <2>1, <2>3, <2>4, RowStep DEF RowAt
<1>29. CASE StopGet(w)
  <2>1. /\ UNCHANGED <<row, running>> /\ pc[w] = "stop_get" /\ (t \in tainted => t \in tainted')
        /\ \/ pc'[w] \in {"st_fwd", "idle"}
           \/ pc'[w] = "delete" /\ cancelled' = cancelled /\ (cancelled[w] \/ ~Exists(t))
    BY <1>0, <1>29 DEF StopGet, DBOk, Continue
  <2>2. RowOf(w)'
    BY <1>0, <2>1 DEF RowOf, FreshSnap, RowAt, Exists, Status
  <2>3. Active(Main, t)' => Active(Main, t)
    BY <1>0, <2>1 DEF Active, Frame, Workers
  <2>4. RowAt(t)'
    BY <1>0, <2>1, <2>3 DEF RowAt, Active, Frame
  <2> QED
    BY <2>1, <2>2, <2>4, RowStep
<1>30. CASE StopUpdate(w)
  <2>1. UNCHANGED <<running, tainted>> /\ pc[w] = "stop_update" /\ pc'[w] \in {"stop_status"}
    BY <1>0, <1>30 DEF StopUpdate
  <2>2. t \notin tainted => t \notin running
    BY <1>0, <2>1 DEF RowOf
  <2>3. RowOf(w)'
    BY <1>0, <2>1, <2>2 DEF RowOf, FreshSnap
  <2>4. t \notin tainted => RowAt(t)'
    BY <1>0, <1>1, <1>2, <2>1, <2>2, FreeRow DEF MainSteps, StopTail
  <2> QED
    BY <1>0, <2>1, <2>3, <2>4, RowStep DEF RowAt
<1>31. CASE StopStatus(w)
  <2>1. UNCHANGED <<running, tainted>> /\ pc[w] = "stop_status" /\ pc'[w] \in {"delete", "idle"}
    BY <1>0, <1>31 DEF StopStatus
  <2>2. t \notin tainted => t \notin running
    BY <1>0, <2>1 DEF RowOf
  <2>3. RowOf(w)'
    BY <1>0, <2>1, <2>2 DEF RowOf, FreshSnap
  <2>4. t \notin tainted => RowAt(t)'
    BY <1>0, <1>1, <1>2, <2>1, <2>2, FreeRow DEF MainSteps, StopTail
  <2> QED
    BY <1>0, <2>1, <2>3, <2>4, RowStep DEF RowAt
<1>32. CASE DeleteRow(w)
  <2>1. /\ UNCHANGED <<running, tainted>> /\ pc[w] = "delete" /\ pc'[w] = "idle"
        /\ cancelled[w] => row' = row
    BY <1>0, <1>32 DEF DeleteRow, DBOk
  <2>2. RowOf(w)'
    BY <2>1 DEF RowOf
  <2>3. CASE cancelled[w]
    BY <1>0, <2>1, <2>2, <2>3, QuietRow
  <2>4. CASE ~cancelled[w]
    <3>1. t \notin tainted => t \notin running
      BY <1>0, <2>1, <2>4 DEF RowOf
    <3>2. t \notin tainted => RowAt(t)'
      BY <1>0, <1>1, <1>2, <2>1, <3>1, FreeRow
    <3> QED
      BY <1>0, <2>1, <2>2, <3>2, RowStep DEF RowAt
  <2> QED
    BY <2>3, <2>4
<1>33. CASE NodesSet(w)
  <2>1. /\ UNCHANGED <<row, running, tainted>>
        /\ pc'[w] \in {"n_get", "n_contains", "idle"}
    BY <1>0, <1>33 DEF NodesSet
  <2>2. RowOf(w)'
    BY <2>1 DEF RowOf, FreshSnap
  <2> QED
    BY <2>1, <2>2, QuietRow
<1>34. CASE NodesGet(w)
  <2>1. /\ UNCHANGED <<row, running, tainted>>
        /\ pc'[w] = "idle" \/ (pc'[w] = "n_update" /\ snap'[w] = row[t])
    BY <1>0, <1>34 DEF NodesGet, JobTypeOK, Goto
  <2>2. RowOf(w)'
    BY <1>0, <2>1 DEF RowOf, FreshSnap
  <2> QED
    BY <2>1, <2>2, QuietRow
<1>35. CASE NodesUpdate(w)
  <2>1. /\ UNCHANGED <<running, tainted>> /\ pc[w] = "n_update" /\ pc'[w] \in {"n_contains", "idle"}
        /\ row'[t].st \in {row[t].st, snap[w].st}
    BY <1>0, <1>35, WrittenStatus DEF NodesUpdate, JobTypeOK, DbTypeOK
  <2>2. RowOf(w)'
    BY <1>0, <2>1 DEF RowOf, FreshSnap
  <2>3. t \notin tainted => row'[t].st = row[t].st
    BY <1>0, <2>1 DEF RowOf, FreshSnap
  <2>4. Active(Main, t)' => Active(Main, t)
    BY <1>0, <2>1 DEF Active, Frame, Workers
  <2>5. RowAt(t)'
    BY <1>0, <2>1, <2>3, <2>4 DEF RowAt, Active, Frame
  <2> QED
    BY <2>1, <2>2, <2>5, RowStep
<1>36. CASE ReloadContains(w)
  <2>1. /\ UNCHANGED <<row, running, tainted>>
        /\ pc'[w] \in {"n_list", "idle"}
    BY <1>0, <1>36 DEF ReloadContains
  <2>2. RowOf(w)'
    BY <2>1 DEF RowOf, FreshSnap
  <2> QED
    BY <2>1, <2>2, QuietRow
<1>37. CASE ReloadList(w)
  <2>1. /\ UNCHANGED <<row, running, tainted>>
        /\ pc'[w] \in {"xray", "idle"}
    BY <1>0, <1>37 DEF ReloadList
  <2>2. RowOf(w)'
    BY <2>1 DEF RowOf, FreshSnap
  <2> QED
    BY <2>1, <2>2, QuietRow
<1>38. CASE PutGet(w)
  <2>1. /\ UNCHANGED <<row, running, tainted>>
        /\ pc'[w] = "idle" \/ (pc'[w] = "p_prepare" /\ snap'[w] = row[t])
    BY <1>0, <1>38 DEF PutGet, JobTypeOK, Goto
  <2>2. RowOf(w)'
    BY <1>0, <2>1 DEF RowOf, FreshSnap
  <2> QED
    BY <2>1, <2>2, QuietRow
<1>39. CASE PutPrepare(w)
  <2>1. /\ UNCHANGED <<running, tainted>> /\ pc[w] = "p_prepare"
        /\ row'[t].st = row[t].st
        /\ pc'[w] = "idle" \/ (pc'[w] = "p_update" /\ snap'[w].st = snap[w].st)
    <3>1. UNCHANGED <<running, tainted>> /\ pc[w] = "p_prepare"
      BY <1>39 DEF PutPrepare
    <3>2. row' = row \/ row' = [row EXCEPT ![t].active = "unset"]
      BY <1>39 DEF PutPrepare
    <3>3. row'[t].st = row[t].st
      BY <1>0, <3>2 DEF DbTypeOK, Row
    <3>4. \/ pc'[w] = "idle"
          \/ /\ pc'[w] = "p_update"
             /\ \E a \in Subnets, act \in {"set", "unset"}, l \in Links :
                   snap' = [snap EXCEPT ![w] = Edited(snap[w], a, act, l)]
      BY <1>0, <1>39 DEF PutPrepare
    <3>5. ASSUME NEW a \in Subnets, NEW act \in {"set", "unset"}, NEW l \in Links,
                 snap' = [snap EXCEPT ![w] = Edited(snap[w], a, act, l)]
          PROVE  snap'[w].st = snap[w].st
      BY <1>0, <3>5 DEF JobTypeOK, Edited, Row
    <3> QED
      BY <3>1, <3>3, <3>4, <3>5
  <2>2. RowOf(w)'
    BY <1>0, <2>1 DEF RowOf, FreshSnap
  <2> QED
    BY <2>1, <2>2, QuietRow
<1>40. CASE PutUpdate(w)
  <2>1. /\ UNCHANGED <<running, tainted>> /\ pc[w] = "p_update" /\ pc'[w] \in {"idle"}
        /\ row'[t].st \in {row[t].st, snap[w].st}
    BY <1>0, <1>40, WrittenStatus DEF PutUpdate, JobTypeOK, DbTypeOK
  <2>2. RowOf(w)'
    BY <1>0, <2>1 DEF RowOf, FreshSnap
  <2>3. t \notin tainted => row'[t].st = row[t].st
    BY <1>0, <2>1 DEF RowOf, FreshSnap
  <2>4. Active(Main, t)' => Active(Main, t)
    BY <1>0, <2>1 DEF Active, Frame, Workers
  <2>5. RowAt(t)'
    BY <1>0, <2>1, <2>3, <2>4 DEF RowAt, Active, Frame
  <2> QED
    BY <2>1, <2>2, <2>5, RowStep
<1>41. CASE CreateInsert(w)
  <2>1. /\ UNCHANGED <<running, tainted>> /\ pc[w] = "c_insert"
        /\ \/ /\ pc'[w] = "c_update" /\ row[t].st = "unborn"
              /\ snap'[w].st = row'[t].st
           \/ pc'[w] = "idle" /\ row' = row
    BY <1>0, <1>41 DEF CreateInsert, JobTypeOK, DbTypeOK, Goto
  <2>2. RowOf(w)'
    BY <1>0, <2>1 DEF RowOf, FreshSnap
  <2>3. CASE row' = row
    BY <1>0, <2>1, <2>2, <2>3, QuietRow
  <2>4. CASE row[t].st = "unborn"
    <3>1. t \notin tainted => t \notin running
      BY <1>0, <2>4 DEF RowAt
    <3>2. t \notin tainted => RowAt(t)'
      BY <1>0, <1>1, <1>2, <2>1, <3>1, FreeRow DEF MainSteps, StopTail
    <3> QED
      BY <1>0, <2>1, <2>2, <3>2, RowStep DEF RowAt
  <2> QED
    BY <2>1, <2>3, <2>4
<1>42. CASE CreateUpdate(w)
  <2>1. /\ UNCHANGED <<running, tainted>> /\ pc[w] = "c_update" /\ pc'[w] \in {"c_nodes"}
        /\ row'[t].st \in {row[t].st, snap[w].st}
    BY <1>0, <1>42, WrittenStatus DEF CreateUpdate, JobTypeOK, DbTypeOK
  <2>2. RowOf(w)'
    BY <1>0, <2>1 DEF RowOf, FreshSnap
  <2>3. t \notin tainted => row'[t].st = row[t].st
    BY <1>0, <2>1 DEF RowOf, FreshSnap
  <2>4. Active(Main, t)' => Active(Main, t)
    BY <1>0, <2>1 DEF Active, Frame, Workers
  <2>5. RowAt(t)'
    BY <1>0, <2>1, <2>3, <2>4 DEF RowAt, Active, Frame
  <2> QED
    BY <2>1, <2>2, <2>5, RowStep
<1>43. CASE CreateNodes(w)
  <2>1. /\ UNCHANGED <<row, running, tainted>>
        /\ pc'[w] \in {"idle"}
    BY <1>0, <1>43 DEF CreateNodes
  <2>2. RowOf(w)'
    BY <2>1 DEF RowOf, FreshSnap
  <2> QED
    BY <2>1, <2>2, QuietRow
<1> QED
  BY <1>4, <1>5, <1>6, <1>7, <1>8, <1>9, <1>10, <1>11, <1>12, <1>13, <1>14, <1>15,
     <1>16, <1>17, <1>18, <1>19, <1>20, <1>21, <1>22, <1>23, <1>24, <1>25, <1>26,
     <1>27, <1>28, <1>29, <1>30, <1>31, <1>32, <1>33, <1>34, <1>35, <1>36, <1>37,
     <1>38, <1>39, <1>40, <1>41, <1>42, <1>43
     DEF WorkerStep, StartStep, TeardownStep, StopStep, NodesStep, EditStep

\* Every step of the system keeps the rows of undisturbed tunnels in order.
LEMMA PersistNext ==
    TypeOK /\ BypassInv /\ PlaneInv /\ PersistInv /\ [Next]_vars => PersistInv'
<1> SUFFICES ASSUME TypeOK, BypassInv, PlaneInv, PersistInv, [Next]_vars
             PROVE  PersistInv'
  OBVIOUS
<1>0. /\ JobTypeOK /\ tun \in [Workers -> Tunnels] /\ Main \in Workers
      /\ MainWorks /\ \A v \in Workers : RowOf(v)
      /\ \A x \in Tunnels : RowAt(x)
  BY DEF TypeOK, JobTypeOK, Workers, PersistInv
<1>1. ASSUME NEW w \in Workers, NEW o \in Ops \ {"none"}, NEW t \in Tunnels,
             BeginJob(w, o, t), UNCHANGED <<phase, running, row>>,
             \/ queue' = queue /\ w # Main
             \/ /\ queue' = queue \ {t} /\ t \in queue /\ w = Main
                /\ \/ phase = "boot"
                   \/ phase = "draining" /\ o = "shutdown"
      PROVE  PersistInv'
  <2>1. /\ pc[w] = "idle" /\ tun'[w] = t /\ op'[w] = o
        /\ pc'[w] \in {"contains", "stop_get", "n_set", "p_get", "c_insert"}
        /\ o = "shutdown" => pc'[w] = "stop_get"
        /\ \A v \in Workers \ {w} : pc'[v] = pc[v] /\ tun'[v] = tun[v] /\ op'[v] = op[v]
        /\ UNCHANGED <<snap, cancelled>> /\ tainted \subseteq tainted'
    BY <1>0, <1>1 DEF BeginJob, JobTypeOK, FirstStep, Ops, HandlerOps
  <2>2. \A v \in Workers : RowOf(v)'
    BY <1>0, <1>1, <2>1 DEF RowOf, FreshSnap
  <2>3. ASSUME NEW x \in Tunnels PROVE RowAt(x)'
    <3>1. phase = "draining" /\ Active(Main, x)' => Active(Main, x) \/ x \in queue
      BY <1>0, <1>1, <2>1 DEF Active
    <3> QED
      BY <1>0, <1>1, <2>1, <3>1 DEF RowAt
  <2>4. MainWorks'
    BY <1>0, <1>1, <2>1 DEF MainWorks, MainSteps
  <2> QED
    BY <2>2, <2>3, <2>4 DEF PersistInv
<1>2. ASSUME NEW w \in Handlers, NEW o \in Events \cap HandlerOps,
             NEW t \in Tunnels, Request(w, o, t)
      PROVE  PersistInv'
  <2>1. w \in Workers /\ w # Main /\ o \in Ops \ {"none"}
    BY MainAssumption DEF Workers, Ops, HandlerOps
  <2> QED
    BY <1>1, <1>2, <2>1 DEF Request
<1>3. ASSUME NEW t \in Tunnels, MainNext(t) PROVE PersistInv'
  <2>1. "start" \in Ops \ {"none"} /\ "shutdown" \in Ops \ {"none"}
    BY DEF Ops, HandlerOps
  <2> QED
    BY <1>0, <1>1, <1>3, <2>1 DEF MainNext
<1>4. ASSUME NEW w \in Workers, Cancel(w) PROVE PersistInv'
  <2>1. /\ UNCHANGED <<phase, queue, running, row, pc, op, tun, snap, tainted>>
        /\ \A v \in Workers : cancelled[v] => cancelled'[v]
    BY <1>0, <1>4 DEF Cancel, JobTypeOK
  <2> QED
    BY <1>0, <2>1 DEF PersistInv, RowOf, FreshSnap, RowAt, MainWorks, Active
<1>5. ASSUME NEW w \in Workers, WorkerStep(w) PROVE PersistInv'
  BY <1>5, PersistWorkerStep
<1>6. CASE MainDone
  <2>1. /\ pc[Main] = "idle" /\ phase' # "draining"
        /\ UNCHANGED <<running, row, pc, op, tun, snap, cancelled, tainted>>
    BY <1>6 DEF MainDone
  <2> QED
    BY <1>0, <2>1 DEF PersistInv, RowOf, FreshSnap, RowAt, MainWorks
<1>7. CASE Drain
  <2>1. /\ phase = "serving" /\ phase' = "draining" /\ queue' = running /\ running' = {}
        /\ UNCHANGED <<row, pc, op, tun, snap, cancelled>> /\ tainted \subseteq tainted'
    BY <1>7 DEF Drain
  <2> QED
    BY <1>0, <2>1 DEF PersistInv, RowOf, FreshSnap, RowAt, MainWorks, Active
<1>8. CASE Restart
  <2>1. (\A v \in Workers : pc'[v] = "idle") /\ phase' = "boot" /\ running' = {}
    BY <1>8 DEF Restart
  <2> QED
    BY <1>0, <2>1 DEF PersistInv, RowOf, RowAt, MainWorks
<1>9. CASE UNCHANGED vars
  BY <1>0, <1>9 DEF vars, PersistInv, RowOf, FreshSnap, RowAt, MainWorks, Active
<1> QED
  BY <1>2, <1>3, <1>4, <1>5, <1>6, <1>7, <1>8, <1>9 DEF Next

\* What every request knows of the row it is about to write is true, and the row
\* of a tunnel that is up says so.
THEOREM PersistAlways == Spec => []PersistInv
<1>1. Init => PersistInv
  <2>1. Init => (\A v \in Workers : pc[v] = "idle") /\ phase = "boot" /\ running = {}
    BY DEF Init
  <2> QED
    BY <2>1 DEF PersistInv, RowOf, RowAt, MainWorks
<1> QED
  BY <1>1, TypeCorrect, BypassAlways, PlaneAlways, PersistNext, PTL DEF Spec

\* Whenever the process dies, a graceful shutdown included, the next boot's
\* RestoreRunning finds every tunnel that was up.
THEOREM RestartRestoresAlways == Spec => RestartRestores
<1>1. TypeOK /\ PersistInv /\ [Next]_vars =>
        [restarts' # restarts =>
           \A t \in Tunnels \ tainted :
              \/ t \in running
              \/ phase = "draining" /\ (t \in queue \/ Active(Main, t))
              => t \in queue']_vars
  <2> SUFFICES ASSUME TypeOK, PersistInv, [Next]_vars, restarts' # restarts,
                      NEW t \in Tunnels, t \notin tainted,
                      \/ t \in running
                      \/ phase = "draining" /\ (t \in queue \/ Active(Main, t))
               PROVE  t \in queue'
    OBVIOUS
  <2>1. Restart
    <3>1. ASSUME NEW w \in Workers, WorkerStep(w) PROVE FALSE
      BY <3>1, Elsewhere DEF SameElsewhere
    <3> QED
      BY <3>1 DEF Next, Request, Cancel, MainNext, MainDone, Drain, vars
  <2>2. row[t].st = "running"
    BY DEF PersistInv, RowAt
  <2> QED
    BY <2>1, <2>2 DEF Restart
<1> QED
  BY <1>1, TypeCorrect, PersistAlways, PTL DEF Spec, RestartRestores
=============================================================================
