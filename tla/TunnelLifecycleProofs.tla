----------------------- MODULE TunnelLifecycleProofs -----------------------
(***************************************************************************)
(* Theorems about TunnelLifecycle, for any set of tunnels, handlers, node  *)
(* lists and subnets, any set of events and any number of restarts: types, *)
(* who owns a TUN link, that no packet passes by the proxy, and that every *)
(* request is on its way to its end.                                       *)
(***************************************************************************)
EXTENDS TunnelLifecycle, TLAPS

USE DEF procVars, memVars, dbVars, netVars, jobVars, histVars

-----------------------------------------------------------------------------
(* Type correctness *)

\* The fixed row a request starts from is a row.
LEMMA NoRowType == NoRow \in Row
BY ConstantsAssumption DEF NoRow, Row, RowStates, Status, Links

\* Writing a row back yields a row, whatever mixture of old and new it is.
LEMMA WrittenType ==
    ASSUME NEW old \in Row, NEW new \in Row
    PROVE  Written(old, new) \in Row
BY DEF Written, Row

\* Changing the status of a row yields a row.
LEMMA StatusType ==
    ASSUME NEW r \in Row, NEW s \in RowStates
    PROVE  [r EXCEPT !.st = s] \in Row
BY DEF Row

\* The step after a teardown step is a step.
LEMMA AfterTeardownType ==
    \A p \in {"st_fwd", "st_nat", "st_tproxy", "st_route", "st_wg", "st_xray",
              "st_clear", "rb_fwd", "rb_tproxy", "rb_xray", "rb_route", "rb_wg"} :
        AfterTeardown[p] \in Steps
BY DEF AfterTeardown, Steps

\* A request that goes on keeps its locals well typed ...
LEMMA ContinueType ==
    ASSUME JobTypeOK, NEW w \in Workers, NEW p \in Steps, Continue(w, p)
    PROVE  JobTypeOK'
BY DEF JobTypeOK, Continue, Goto

\* ... and so does one that returns.
LEMMA FinishType ==
    ASSUME JobTypeOK, NEW w \in Workers, Finish(w)
    PROVE  JobTypeOK'
<1>1. "idle" \in Steps /\ "none" \in Ops
  BY DEF Steps, Ops
<1> QED
  BY <1>1, NoRowType DEF JobTypeOK, Finish, Goto

\* Beginning a request gives well-typed locals and history.
LEMMA BeginType ==
    ASSUME JobTypeOK, HistTypeOK, NEW w \in Workers, NEW o \in Ops \ {"none"},
           NEW t \in Tunnels, BeginJob(w, o, t)
    PROVE  JobTypeOK' /\ HistTypeOK'
<1>1. FirstStep[o] \in Steps
  BY DEF FirstStep, Steps, Ops, HandlerOps
<1>2. JobTypeOK'
  BY <1>1 DEF JobTypeOK, BeginJob
<1>3. Busy(w, t) \in BOOLEAN /\ \A v \in Workers : Active(v, t) \in BOOLEAN
  BY DEF Busy, Active
<1>4. overlap' \in [Workers -> BOOLEAN]
  BY <1>3 DEF HistTypeOK, BeginJob
<1>5. tainted' \subseteq Tunnels
  BY DEF HistTypeOK, BeginJob
<1> QED
  BY <1>2, <1>4, <1>5 DEF HistTypeOK

\* One step of one request keeps every variable well typed.
LEMMA TypeWorkerStep ==
    ASSUME TypeOK, NEW w \in Workers, WorkerStep(w)
    PROVE  TypeOK'
<1>0. /\ ProcTypeOK /\ MemTypeOK /\ DbTypeOK /\ NetTypeOK /\ JobTypeOK /\ HistTypeOK
      /\ tun[w] \in Tunnels /\ snap[w] \in Row /\ row[tun[w]] \in Row
  BY DEF TypeOK, JobTypeOK, DbTypeOK
<1>1. CASE StartContains(w)
  <2>1. JobTypeOK'
    BY <1>0, <1>1, ContinueType, FinishType DEF StartContains, Steps
  <2> QED
    BY <1>0, <1>1, <2>1 DEF StartContains, TypeOK, ProcTypeOK, MemTypeOK, DbTypeOK, NetTypeOK, HistTypeOK
<1>2. CASE StartGet(w)
  <2>1. JobTypeOK'
    BY <1>0, <1>2, FinishType DEF StartGet, JobTypeOK, Goto, Steps
  <2> QED
    BY <1>0, <1>2, <2>1 DEF StartGet, TypeOK, ProcTypeOK, MemTypeOK, DbTypeOK, NetTypeOK, HistTypeOK
<1>3. CASE StartNodes(w)
  <2>1. JobTypeOK'
    <3>1. [snap[w] EXCEPT !.active = "set"] \in Row
      BY <1>0 DEF Row
    <3>2. nodes[tun[w]] \in Configs \cup {NoNodes} /\ Legacy \in Configs
      BY <1>0 DEF DbTypeOK, Configs
    <3>3. "wg" \in Steps /\ "restore" \in Steps
      BY DEF Steps
    <3> QED
      BY <1>0, <1>3, <3>1, <3>2, <3>3, FinishType DEF StartNodes, JobTypeOK, Goto
  <2> QED
    BY <1>0, <1>3, <2>1 DEF StartNodes, TypeOK, ProcTypeOK, MemTypeOK, DbTypeOK, NetTypeOK, HistTypeOK
<1>4. CASE StartRestoreNode(w)
  <2>1. JobTypeOK'
    BY <1>0, <1>4, ContinueType, FinishType DEF StartRestoreNode, Steps
  <2>2. DbTypeOK'
    BY <1>0, <1>4, WrittenType DEF StartRestoreNode, DbTypeOK
  <2> QED
    BY <1>0, <1>4, <2>1, <2>2 DEF StartRestoreNode, TypeOK, ProcTypeOK, MemTypeOK, NetTypeOK, HistTypeOK
<1>5. CASE StartCreateTUN(w)
  <2>1. JobTypeOK'
    BY <1>0, <1>5, ContinueType, FinishType DEF StartCreateTUN, Steps
  <2>2. NetTypeOK'
    BY <1>0, <1>5 DEF StartCreateTUN, NetTypeOK
  <2> QED
    BY <1>0, <1>5, <2>1, <2>2 DEF StartCreateTUN, TypeOK, ProcTypeOK, MemTypeOK, DbTypeOK, HistTypeOK
<1>6. CASE StartRegister(w)
  <2>1. JobTypeOK'
    BY <1>0, <1>6, ContinueType, FinishType DEF StartRegister, Steps
  <2>2. MemTypeOK'
    BY <1>0, <1>6 DEF StartRegister, MemTypeOK
  <2> QED
    BY <1>0, <1>6, <2>1, <2>2 DEF StartRegister, TypeOK, ProcTypeOK, DbTypeOK, NetTypeOK, HistTypeOK
<1>7. CASE StartAssignTUN(w)
  <2>1. JobTypeOK'
    BY <1>0, <1>7, ContinueType, FinishType DEF StartAssignTUN, Steps
  <2>2. NetTypeOK'
    BY <1>0, <1>7 DEF StartAssignTUN, NetTypeOK
  <2> QED
    BY <1>0, <1>7, <2>1, <2>2 DEF StartAssignTUN, TypeOK, ProcTypeOK, MemTypeOK, DbTypeOK, HistTypeOK
<1>8. CASE StartReturnRoute(w)
  <2>1. JobTypeOK'
    BY <1>0, <1>8, ContinueType, FinishType DEF StartReturnRoute, Steps
  <2>2. NetTypeOK'
    BY <1>0, <1>8 DEF StartReturnRoute, NetTypeOK
  <2> QED
    BY <1>0, <1>8, <2>1, <2>2 DEF StartReturnRoute, TypeOK, ProcTypeOK, MemTypeOK, DbTypeOK, HistTypeOK
<1>9. CASE XrayInstance(w)
  <2>1. JobTypeOK'
    BY <1>0, <1>9, ContinueType, FinishType DEF XrayInstance, Steps
  <2> QED
    BY <1>0, <1>9, <2>1 DEF XrayInstance, TypeOK, ProcTypeOK, MemTypeOK, DbTypeOK, NetTypeOK, HistTypeOK
<1>10. CASE XrayRegister(w)
  <2>1. JobTypeOK'
    BY <1>0, <1>10, ContinueType, FinishType DEF XrayRegister, Steps
  <2>2. MemTypeOK'
    BY <1>0, <1>10 DEF XrayRegister, MemTypeOK, JobTypeOK
  <2> QED
    BY <1>0, <1>10, <2>1, <2>2 DEF XrayRegister, TypeOK, ProcTypeOK, DbTypeOK, NetTypeOK, HistTypeOK
<1>11. CASE StartTProxy(w)
  <2>1. JobTypeOK'
    BY <1>0, <1>11, ContinueType, FinishType DEF StartTProxy, Steps
  <2>2. NetTypeOK'
    BY <1>0, <1>11 DEF StartTProxy, NetTypeOK
  <2> QED
    BY <1>0, <1>11, <2>1, <2>2 DEF StartTProxy, TypeOK, ProcTypeOK, MemTypeOK, DbTypeOK, HistTypeOK
<1>12. CASE StartForward(w)
  <2>1. JobTypeOK'
    BY <1>0, <1>12, ContinueType, FinishType DEF StartForward, Steps
  <2>2. NetTypeOK'
    BY <1>0, <1>12 DEF StartForward, NetTypeOK
  <2> QED
    BY <1>0, <1>12, <2>1, <2>2 DEF StartForward, TypeOK, ProcTypeOK, MemTypeOK, DbTypeOK, HistTypeOK
<1>13. CASE StartMasquerade(w)
  <2>1. JobTypeOK'
    BY <1>0, <1>13, ContinueType, FinishType DEF StartMasquerade, Steps
  <2>2. NetTypeOK'
    BY <1>0, <1>13 DEF StartMasquerade, NetTypeOK, Row
  <2> QED
    BY <1>0, <1>13, <2>1, <2>2 DEF StartMasquerade, TypeOK, ProcTypeOK, MemTypeOK, DbTypeOK, HistTypeOK
<1>14. CASE StartUpdate(w)
  <2>1. JobTypeOK'
    BY <1>0, <1>14, ContinueType, FinishType DEF StartUpdate, Steps
  <2>2. DbTypeOK'
    <3>1. [snap[w] EXCEPT !.st = "running", !.link = tun[w]] \in Row
      BY <1>0 DEF Row, RowStates, Status, Links
    <3>2. Written(row[tun[w]], [snap[w] EXCEPT !.st = "running", !.link = tun[w]]) \in Row
      BY <1>0, <3>1, WrittenType
    <3> QED
      BY <1>0, <1>14, <3>2 DEF StartUpdate, DbTypeOK
  <2> QED
    BY <1>0, <1>14, <2>1, <2>2 DEF StartUpdate, TypeOK, ProcTypeOK, MemTypeOK, NetTypeOK, HistTypeOK
<1>15. CASE StartMark(w)
  <2>1. JobTypeOK'
    BY <1>0, <1>15, ContinueType, FinishType DEF StartMark, Steps
  <2>2. MemTypeOK'
    BY <1>0, <1>15 DEF StartMark, MemTypeOK
  <2> QED
    BY <1>0, <1>15, <2>1, <2>2 DEF StartMark, TypeOK, ProcTypeOK, DbTypeOK, NetTypeOK, HistTypeOK
<1>16. CASE StartTrack(w)
  <2>1. JobTypeOK'
    BY <1>0, <1>16, ContinueType, FinishType DEF StartTrack, Steps
  <2>2. MemTypeOK'
    BY <1>0, <1>16 DEF StartTrack, MemTypeOK
  <2> QED
    BY <1>0, <1>16, <2>1, <2>2 DEF StartTrack, TypeOK, ProcTypeOK, DbTypeOK, NetTypeOK, HistTypeOK
<1>17. CASE RollbackStatus(w)
  <2>1. JobTypeOK'
    BY <1>0, <1>17, ContinueType, FinishType DEF RollbackStatus, Steps
  <2>2. DbTypeOK'
    BY <1>0, <1>17, StatusType DEF RollbackStatus, DbTypeOK, RowStates, Status
  <2> QED
    BY <1>0, <1>17, <2>1, <2>2 DEF RollbackStatus, TypeOK, ProcTypeOK, MemTypeOK, NetTypeOK, HistTypeOK
<1>18. CASE TeardownForward(w)
  <2>1. JobTypeOK'
    BY <1>0, <1>18, ContinueType, AfterTeardownType DEF TeardownForward
  <2>2. NetTypeOK'
    BY <1>0, <1>18 DEF TeardownForward, NetTypeOK
  <2>3. HistTypeOK'
    BY <1>0, <1>18 DEF TeardownForward, HistTypeOK
  <2> QED
    BY <1>0, <1>18, <2>1, <2>2, <2>3 DEF TeardownForward, TypeOK, ProcTypeOK, MemTypeOK, DbTypeOK
<1>19. CASE TeardownMasquerade(w)
  <2>1. JobTypeOK'
    BY <1>0, <1>19, ContinueType, AfterTeardownType DEF TeardownMasquerade
  <2>2. NetTypeOK'
    BY <1>0, <1>19 DEF TeardownMasquerade, NetTypeOK, Row
  <2> QED
    BY <1>0, <1>19, <2>1, <2>2 DEF TeardownMasquerade, TypeOK, ProcTypeOK, MemTypeOK, DbTypeOK, HistTypeOK
<1>20. CASE TeardownTProxy(w)
  <2>1. JobTypeOK'
    BY <1>0, <1>20, ContinueType, AfterTeardownType DEF TeardownTProxy
  <2>2. NetTypeOK'
    BY <1>0, <1>20 DEF TeardownTProxy, NetTypeOK
  <2> QED
    BY <1>0, <1>20, <2>1, <2>2 DEF TeardownTProxy, TypeOK, ProcTypeOK, MemTypeOK, DbTypeOK, HistTypeOK
<1>21. CASE TeardownReturnRoute(w)
  <2>1. JobTypeOK'
    BY <1>0, <1>21, ContinueType, AfterTeardownType DEF TeardownReturnRoute
  <2>2. NetTypeOK'
    BY <1>0, <1>21 DEF TeardownReturnRoute, NetTypeOK
  <2> QED
    BY <1>0, <1>21, <2>1, <2>2 DEF TeardownReturnRoute, TypeOK, ProcTypeOK, MemTypeOK, DbTypeOK, HistTypeOK
<1>22. CASE TeardownDevice(w)
  <2>1. JobTypeOK'
    BY <1>0, <1>22, ContinueType, AfterTeardownType DEF TeardownDevice
  <2>2. MemTypeOK'
    BY <1>0, <1>22 DEF TeardownDevice, MemTypeOK
  <2>3. NetTypeOK'
    BY <1>0, <1>22 DEF TeardownDevice, NetTypeOK
  <2> QED
    BY <1>0, <1>22, <2>1, <2>2, <2>3 DEF TeardownDevice, TypeOK, ProcTypeOK, DbTypeOK, HistTypeOK
<1>23. CASE TeardownXray(w)
  <2>1. JobTypeOK'
    BY <1>0, <1>23, ContinueType, AfterTeardownType DEF TeardownXray
  <2>2. MemTypeOK'
    BY <1>0, <1>23 DEF TeardownXray, MemTypeOK
  <2> QED
    BY <1>0, <1>23, <2>1, <2>2 DEF TeardownXray, TypeOK, ProcTypeOK, DbTypeOK, NetTypeOK, HistTypeOK
<1>24. CASE TeardownClear(w)
  <2>1. JobTypeOK'
    BY <1>0, <1>24, ContinueType, AfterTeardownType DEF TeardownClear
  <2>2. MemTypeOK'
    BY <1>0, <1>24 DEF TeardownClear, MemTypeOK
  <2> QED
    BY <1>0, <1>24, <2>1, <2>2 DEF TeardownClear, TypeOK, ProcTypeOK, DbTypeOK, NetTypeOK, HistTypeOK
<1>25. CASE TeardownUntrack(w)
  <2>1. JobTypeOK'
    BY <1>0, <1>25, ContinueType, FinishType DEF TeardownUntrack, Steps
  <2>2. MemTypeOK'
    BY <1>0, <1>25 DEF TeardownUntrack, MemTypeOK
  <2>3. HistTypeOK'
    BY <1>0, <1>25 DEF TeardownUntrack, HistTypeOK
  <2> QED
    BY <1>0, <1>25, <2>1, <2>2, <2>3 DEF TeardownUntrack, TypeOK, ProcTypeOK, DbTypeOK, NetTypeOK
<1>26. CASE StopGet(w)
  <2>1. JobTypeOK'
    BY <1>0, <1>26, FinishType, ContinueType DEF StopGet, JobTypeOK, Goto, Steps
  <2>2. HistTypeOK'
    BY <1>0, <1>26 DEF StopGet, HistTypeOK
  <2> QED
    BY <1>0, <1>26, <2>1, <2>2 DEF StopGet, TypeOK, ProcTypeOK, MemTypeOK, DbTypeOK, NetTypeOK
<1>27. CASE StopUpdate(w)
  <2>1. JobTypeOK'
    BY <1>0, <1>27, ContinueType, FinishType DEF StopUpdate, Steps
  <2>2. DbTypeOK'
    BY <1>0, <1>27, WrittenType, StatusType DEF StopUpdate, DbTypeOK, RowStates, Status
  <2> QED
    BY <1>0, <1>27, <2>1, <2>2 DEF StopUpdate, TypeOK, ProcTypeOK, MemTypeOK, NetTypeOK, HistTypeOK
<1>28. CASE StopStatus(w)
  <2>1. JobTypeOK'
    BY <1>0, <1>28, ContinueType, FinishType DEF StopStatus, Steps
  <2>2. DbTypeOK'
    BY <1>0, <1>28, StatusType DEF StopStatus, DbTypeOK, RowStates, Status
  <2> QED
    BY <1>0, <1>28, <2>1, <2>2 DEF StopStatus, TypeOK, ProcTypeOK, MemTypeOK, NetTypeOK, HistTypeOK
<1>29. CASE DeleteRow(w)
  <2>1. JobTypeOK'
    BY <1>0, <1>29, ContinueType, FinishType DEF DeleteRow, Steps
  <2>2. DbTypeOK'
    <3>1. [NoRow EXCEPT !.st = "deleted"] \in Row
      BY NoRowType, StatusType DEF RowStates
    <3> QED
      BY <1>0, <1>29, <3>1 DEF DeleteRow, DbTypeOK
  <2> QED
    BY <1>0, <1>29, <2>1, <2>2 DEF DeleteRow, TypeOK, ProcTypeOK, MemTypeOK, NetTypeOK, HistTypeOK
<1>30. CASE NodesSet(w)
  <2>1. JobTypeOK'
    BY <1>0, <1>30, ContinueType, FinishType DEF NodesSet, Steps
  <2>2. DbTypeOK'
    BY <1>0, <1>30 DEF NodesSet, DbTypeOK
  <2> QED
    BY <1>0, <1>30, <2>1, <2>2 DEF NodesSet, TypeOK, ProcTypeOK, MemTypeOK, NetTypeOK, HistTypeOK
<1>31. CASE NodesGet(w)
  <2>1. JobTypeOK'
    BY <1>0, <1>31, FinishType DEF NodesGet, JobTypeOK, Goto, Steps
  <2> QED
    BY <1>0, <1>31, <2>1 DEF NodesGet, TypeOK, ProcTypeOK, MemTypeOK, DbTypeOK, NetTypeOK, HistTypeOK
<1>32. CASE NodesUpdate(w)
  <2>1. JobTypeOK'
    BY <1>0, <1>32, ContinueType, FinishType DEF NodesUpdate, Steps
  <2>2. DbTypeOK'
    BY <1>0, <1>32, WrittenType DEF NodesUpdate, DbTypeOK
  <2> QED
    BY <1>0, <1>32, <2>1, <2>2 DEF NodesUpdate, TypeOK, ProcTypeOK, MemTypeOK, NetTypeOK, HistTypeOK
<1>33. CASE ReloadContains(w)
  <2>1. JobTypeOK'
    BY <1>0, <1>33, ContinueType, FinishType DEF ReloadContains, Steps
  <2> QED
    BY <1>0, <1>33, <2>1 DEF ReloadContains, TypeOK, ProcTypeOK, MemTypeOK, DbTypeOK, NetTypeOK, HistTypeOK
<1>34. CASE ReloadList(w)
  <2>1. JobTypeOK'
    <3>1. nodes[tun[w]] \in Configs \cup {NoNodes} /\ "xray" \in Steps
      BY <1>0 DEF DbTypeOK, Configs, Steps
    <3> QED
      BY <1>0, <1>34, <3>1, FinishType DEF ReloadList, JobTypeOK, Goto
  <2> QED
    BY <1>0, <1>34, <2>1 DEF ReloadList, TypeOK, ProcTypeOK, MemTypeOK, DbTypeOK, NetTypeOK, HistTypeOK
<1>35. CASE PutGet(w)
  <2>1. JobTypeOK'
    BY <1>0, <1>35, FinishType DEF PutGet, JobTypeOK, Goto, Steps
  <2> QED
    BY <1>0, <1>35, <2>1 DEF PutGet, TypeOK, ProcTypeOK, MemTypeOK, DbTypeOK, NetTypeOK, HistTypeOK
<1>36. CASE PutPrepare(w)
  <2>1. JobTypeOK'
    <3>1. ASSUME NEW a \in Subnets, NEW act \in {"set", "unset"}, NEW l \in Links,
                 snap' = [snap EXCEPT ![w] = Edited(snap[w], a, act, l)],
                 Goto(w, "p_update"), UNCHANGED <<op, tun, cfg, cancelled>>
          PROVE  JobTypeOK'
      <4>1. Edited(snap[w], a, act, l) \in Row
        BY <1>0 DEF Row, Edited
      <4>2. "p_update" \in Steps
        BY DEF Steps
      <4> QED
        BY <1>0, <3>1, <4>1, <4>2 DEF JobTypeOK, Goto
    <3>2. snap[w].active \in {"set", "unset"}
      BY <1>0 DEF Row
    <3> QED
      BY <1>0, <1>36, <3>1, <3>2, FinishType DEF PutPrepare
  <2>2. DbTypeOK'
    <3>1. [row[tun[w]] EXCEPT !.active = "unset"] \in Row
      BY <1>0 DEF Row
    <3>2. row' = row \/ row' = [row EXCEPT ![tun[w]] =
                                   [row[tun[w]] EXCEPT !.active = "unset"]]
      BY <1>36 DEF PutPrepare
    <3> QED
      BY <1>0, <1>36, <3>1, <3>2 DEF PutPrepare, DbTypeOK
  <2> QED
    BY <1>0, <1>36, <2>1, <2>2 DEF PutPrepare, TypeOK, ProcTypeOK, MemTypeOK, NetTypeOK, HistTypeOK
<1>37. CASE PutUpdate(w)
  <2>1. JobTypeOK'
    BY <1>0, <1>37, ContinueType, FinishType DEF PutUpdate, Steps
  <2>2. DbTypeOK'
    BY <1>0, <1>37, WrittenType DEF PutUpdate, DbTypeOK
  <2> QED
    BY <1>0, <1>37, <2>1, <2>2 DEF PutUpdate, TypeOK, ProcTypeOK, MemTypeOK, NetTypeOK, HistTypeOK
<1>38. CASE CreateInsert(w)
  <2>1. JobTypeOK'
    <3>1. ASSUME NEW a \in Subnets, NEW act \in {"set", "unset"},
                 snap' = [snap EXCEPT ![w] =
                            [st |-> "stopped", addr |-> a, active |-> act, link |-> tun[w]]],
                 Goto(w, "c_update"), UNCHANGED <<op, tun, cfg, cancelled>>
          PROVE  JobTypeOK'
      <4>1. [st |-> "stopped", addr |-> a, active |-> act, link |-> tun[w]] \in Row
        BY <1>0 DEF Row, RowStates, Status, Links
      <4>2. "c_update" \in Steps
        BY DEF Steps
      <4> QED
        BY <1>0, <3>1, <4>1, <4>2 DEF JobTypeOK, Goto
    <3> QED
      BY <1>0, <1>38, <3>1, FinishType DEF CreateInsert
  <2>2. DbTypeOK'
    <3>1. \A a \in Subnets, act \in {"set", "unset"} :
             [st |-> "stopped", addr |-> a, active |-> act, link |-> tun[w]] \in Row
      BY <1>0 DEF Row, RowStates, Status, Links
    <3>2. row' = row \/ \E new \in Row : row' = [row EXCEPT ![tun[w]] = new]
      BY <1>38, <3>1 DEF CreateInsert
    <3> QED
      BY <1>0, <1>38, <3>2 DEF CreateInsert, DbTypeOK
  <2> QED
    BY <1>0, <1>38, <2>1, <2>2 DEF CreateInsert, TypeOK, ProcTypeOK, MemTypeOK, NetTypeOK, HistTypeOK
<1>39. CASE CreateUpdate(w)
  <2>1. JobTypeOK'
    BY <1>0, <1>39, ContinueType, FinishType DEF CreateUpdate, Steps
  <2>2. DbTypeOK'
    BY <1>0, <1>39, WrittenType DEF CreateUpdate, DbTypeOK
  <2> QED
    BY <1>0, <1>39, <2>1, <2>2 DEF CreateUpdate, TypeOK, ProcTypeOK, MemTypeOK, NetTypeOK, HistTypeOK
<1>40. CASE CreateNodes(w)
  <2>1. JobTypeOK'
    BY <1>0, <1>40, ContinueType, FinishType DEF CreateNodes, Steps
  <2>2. DbTypeOK'
    BY <1>0, <1>40 DEF CreateNodes, DbTypeOK
  <2> QED
    BY <1>0, <1>40, <2>1, <2>2 DEF CreateNodes, TypeOK, ProcTypeOK, MemTypeOK, NetTypeOK, HistTypeOK
<1> QED
  BY
     <1>1, <1>2, <1>3, <1>4, <1>5, <1>6, <1>7, <1>8, <1>9, <1>10, <1>11,
     <1>12, <1>13, <1>14, <1>15, <1>16, <1>17, <1>18, <1>19, <1>20, <1>21,
     <1>22, <1>23, <1>24, <1>25, <1>26, <1>27, <1>28, <1>29, <1>30, <1>31,
     <1>32, <1>33, <1>34, <1>35, <1>36, <1>37, <1>38, <1>39, <1>40
     DEF WorkerStep, StartStep, TeardownStep, StopStep, NodesStep, EditStep

\* No step takes a variable out of its type.
LEMMA TypeNext == TypeOK /\ [Next]_vars => TypeOK'
<1> SUFFICES ASSUME TypeOK, [Next]_vars PROVE TypeOK'
  OBVIOUS
<1>0. ProcTypeOK /\ MemTypeOK /\ DbTypeOK /\ NetTypeOK /\ JobTypeOK /\ HistTypeOK
  BY DEF TypeOK
<1>1. ASSUME NEW w \in Handlers, NEW o \in Events \cap HandlerOps,
             NEW t \in Tunnels, Request(w, o, t)
      PROVE  TypeOK'
  <2>1. JobTypeOK' /\ HistTypeOK'
    BY <1>0, <1>1, BeginType DEF Request, Workers, Ops, HandlerOps
  <2> QED
    BY <1>0, <1>1, <2>1 DEF Request, TypeOK, ProcTypeOK, MemTypeOK, DbTypeOK,
       NetTypeOK
<1>2. ASSUME NEW w \in Workers, Cancel(w) PROVE TypeOK'
  <2>1. JobTypeOK'
    BY <1>0, <1>2 DEF Cancel, JobTypeOK
  <2> QED
    BY <1>0, <1>2, <2>1 DEF Cancel, TypeOK, ProcTypeOK, MemTypeOK, DbTypeOK,
       NetTypeOK, HistTypeOK
<1>3. ASSUME NEW w \in Workers, WorkerStep(w) PROVE TypeOK'
  BY <1>3, TypeWorkerStep
<1>4. ASSUME NEW t \in Tunnels, MainNext(t) PROVE TypeOK'
  <2>1. JobTypeOK' /\ HistTypeOK'
    BY <1>0, <1>4, BeginType DEF MainNext, Workers, Ops, HandlerOps
  <2>2. ProcTypeOK'
    BY <1>0, <1>4 DEF MainNext, ProcTypeOK
  <2> QED
    BY <1>0, <1>4, <2>1, <2>2 DEF MainNext, TypeOK, MemTypeOK, DbTypeOK, NetTypeOK
<1>5. CASE MainDone
  BY <1>0, <1>5 DEF MainDone, TypeOK, ProcTypeOK, MemTypeOK, DbTypeOK, NetTypeOK,
     JobTypeOK, HistTypeOK
<1>6. CASE Drain
  <2>1. ProcTypeOK' /\ MemTypeOK'
    BY <1>0, <1>6 DEF Drain, ProcTypeOK, MemTypeOK
  <2>2. HistTypeOK'
    BY <1>0, <1>6 DEF Drain, HistTypeOK, MemTypeOK
  <2> QED
    BY <1>0, <1>6, <2>1, <2>2 DEF Drain, TypeOK, DbTypeOK, NetTypeOK, JobTypeOK
<1>7. CASE Restart
  <2>1. ProcTypeOK'
    BY <1>0, <1>7, ConstantsAssumption DEF Restart, ProcTypeOK
  <2>2. MemTypeOK' /\ DbTypeOK' /\ HistTypeOK'
    BY <1>0, <1>7 DEF Restart, MemTypeOK, DbTypeOK, HistTypeOK
  <2>3. NetTypeOK'
    BY <1>0, <1>7 DEF Restart, NetTypeOK
  <2>4. JobTypeOK'
    BY <1>0, <1>7, NoRowType DEF Restart, JobTypeOK, Steps, Ops
  <2> QED
    BY <2>1, <2>2, <2>3, <2>4 DEF TypeOK
<1>8. CASE UNCHANGED vars
  BY <1>0, <1>8 DEF vars, TypeOK, ProcTypeOK, MemTypeOK, DbTypeOK, NetTypeOK,
     JobTypeOK, HistTypeOK
<1> QED
  BY <1>1, <1>2, <1>3, <1>4, <1>5, <1>6, <1>7, <1>8 DEF Next

\* The states the program boots in are well typed.
LEMMA TypeInit == Init => TypeOK
<1> SUFFICES ASSUME Init PROVE TypeOK
  OBVIOUS
<1>1. ProcTypeOK /\ MemTypeOK /\ DbTypeOK /\ NetTypeOK /\ HistTypeOK
  BY ConstantsAssumption DEF Init, ProcTypeOK, MemTypeOK, DbTypeOK, NetTypeOK,
     HistTypeOK
<1>2. JobTypeOK
  BY NoRowType DEF Init, JobTypeOK, Steps, Ops
<1> QED
  BY <1>1, <1>2 DEF TypeOK

\* TypeOK holds in every reachable state: whatever interleaves, fails, is
\* cancelled or restarts.
THEOREM TypeCorrect == Spec => []TypeOK
BY TypeInit, TypeNext, PTL DEF Spec

-----------------------------------------------------------------------------
(* What a step of a request leaves alone *)

\* A step of w moves no other request, and starts from a request in progress.
\* It may find that its row names another link, which taints its tunnel.
Frame(w) ==
    /\ pc[w] # "idle"
    /\ tun' = tun /\ phase' = phase /\ queue' = queue
    /\ \A v \in Workers : overlap[v] => overlap'[v]
    /\ \A v \in Workers : overlap'[v] => overlap[v] \/ (v = w /\ tun[w] \in tainted')
    /\ \A v \in Workers \ {w} : pc'[v] = pc[v] /\ op'[v] = op[v]

\* A request that goes on keeps its tunnel, its kind and every other request.
LEMMA ContinueFrame ==
    ASSUME JobTypeOK, NEW w \in Workers, NEW p, Continue(w, p)
    PROVE  /\ tun' = tun /\ pc'[w] = p /\ op'[w] = op[w]
           /\ \A v \in Workers \ {w} : pc'[v] = pc[v] /\ op'[v] = op[v]
BY DEF JobTypeOK, Continue, Goto

\* A request that returns leaves every other request as it was.
LEMMA FinishFrame ==
    ASSUME JobTypeOK, NEW w \in Workers, Finish(w)
    PROVE  /\ tun' = tun /\ pc'[w] = "idle" /\ op'[w] = "none"
           /\ \A v \in Workers \ {w} : pc'[v] = pc[v] /\ op'[v] = op[v]
BY DEF JobTypeOK, Finish, Goto

\* Goto changes the step of one request only.
LEMMA GotoFrame ==
    ASSUME JobTypeOK, NEW w \in Workers, NEW p, Goto(w, p), UNCHANGED <<op, tun>>
    PROVE  /\ tun' = tun /\ pc'[w] = p /\ op'[w] = op[w]
           /\ \A v \in Workers \ {w} : pc'[v] = pc[v] /\ op'[v] = op[v]
BY DEF JobTypeOK, Goto

\* A step of one request leaves the step, kind and tunnel of every other request alone.
LEMMA WorkerFrame ==
    ASSUME TypeOK, NEW w \in Workers, WorkerStep(w)
    PROVE  Frame(w)
<1> USE ContinueFrame, FinishFrame, GotoFrame
<1>0. JobTypeOK
  BY DEF TypeOK
<1>1. CASE StartContains(w)
  BY <1>0, <1>1 DEF StartContains, Frame
<1>2. CASE StartGet(w)
  BY <1>0, <1>2 DEF StartGet, Frame
<1>3. CASE StartNodes(w)
  BY <1>0, <1>3 DEF StartNodes, Frame
<1>4. CASE StartRestoreNode(w)
  BY <1>0, <1>4 DEF StartRestoreNode, Frame
<1>5. CASE StartCreateTUN(w)
  BY <1>0, <1>5 DEF StartCreateTUN, Frame
<1>6. CASE StartRegister(w)
  BY <1>0, <1>6 DEF StartRegister, Frame
<1>7. CASE StartAssignTUN(w)
  BY <1>0, <1>7 DEF StartAssignTUN, Frame
<1>8. CASE StartReturnRoute(w)
  BY <1>0, <1>8 DEF StartReturnRoute, Frame
<1>9. CASE XrayInstance(w)
  BY <1>0, <1>9 DEF XrayInstance, Frame
<1>10. CASE XrayRegister(w)
  BY <1>0, <1>10 DEF XrayRegister, Frame
<1>11. CASE StartTProxy(w)
  BY <1>0, <1>11 DEF StartTProxy, Frame
<1>12. CASE StartForward(w)
  BY <1>0, <1>12 DEF StartForward, Frame
<1>13. CASE StartMasquerade(w)
  BY <1>0, <1>13 DEF StartMasquerade, Frame
<1>14. CASE StartUpdate(w)
  BY <1>0, <1>14 DEF StartUpdate, Frame
<1>15. CASE StartMark(w)
  BY <1>0, <1>15 DEF StartMark, Frame
<1>16. CASE StartTrack(w)
  BY <1>0, <1>16 DEF StartTrack, Frame
<1>17. CASE RollbackStatus(w)
  BY <1>0, <1>17 DEF RollbackStatus, Frame
<1>18. CASE TeardownForward(w)
  <2>1. tun[w] \in Tunnels /\ overlap \in [Workers -> BOOLEAN]
    BY DEF TypeOK, JobTypeOK, HistTypeOK
  <2>2. \A v \in Workers : overlap'[v] = (overlap[v] \/ (v = w /\ Link(w) # tun[w]))
    BY <1>18, <2>1 DEF TeardownForward
  <2>3. Link(w) # tun[w] => tun[w] \in tainted'
    BY <1>18, <2>1 DEF TeardownForward
  <2> QED
    BY <1>0, <1>18, <2>2, <2>3 DEF TeardownForward, Frame
<1>19. CASE TeardownMasquerade(w)
  BY <1>0, <1>19 DEF TeardownMasquerade, Frame
<1>20. CASE TeardownTProxy(w)
  BY <1>0, <1>20 DEF TeardownTProxy, Frame
<1>21. CASE TeardownReturnRoute(w)
  BY <1>0, <1>21 DEF TeardownReturnRoute, Frame
<1>22. CASE TeardownDevice(w)
  BY <1>0, <1>22 DEF TeardownDevice, Frame
<1>23. CASE TeardownXray(w)
  BY <1>0, <1>23 DEF TeardownXray, Frame
<1>24. CASE TeardownClear(w)
  BY <1>0, <1>24 DEF TeardownClear, Frame
<1>25. CASE TeardownUntrack(w)
  BY <1>0, <1>25 DEF TeardownUntrack, Frame
<1>26. CASE StopGet(w)
  BY <1>0, <1>26 DEF StopGet, Frame
<1>27. CASE StopUpdate(w)
  BY <1>0, <1>27 DEF StopUpdate, Frame
<1>28. CASE StopStatus(w)
  BY <1>0, <1>28 DEF StopStatus, Frame
<1>29. CASE DeleteRow(w)
  BY <1>0, <1>29 DEF DeleteRow, Frame
<1>30. CASE NodesSet(w)
  BY <1>0, <1>30 DEF NodesSet, Frame
<1>31. CASE NodesGet(w)
  BY <1>0, <1>31 DEF NodesGet, Frame
<1>32. CASE NodesUpdate(w)
  BY <1>0, <1>32 DEF NodesUpdate, Frame
<1>33. CASE ReloadContains(w)
  BY <1>0, <1>33 DEF ReloadContains, Frame
<1>34. CASE ReloadList(w)
  BY <1>0, <1>34 DEF ReloadList, Frame
<1>35. CASE PutGet(w)
  BY <1>0, <1>35 DEF PutGet, Frame
<1>36. CASE PutPrepare(w)
  BY <1>0, <1>36 DEF PutPrepare, Frame
<1>37. CASE PutUpdate(w)
  BY <1>0, <1>37 DEF PutUpdate, Frame
<1>38. CASE CreateInsert(w)
  BY <1>0, <1>38 DEF CreateInsert, Frame
<1>39. CASE CreateUpdate(w)
  BY <1>0, <1>39 DEF CreateUpdate, Frame
<1>40. CASE CreateNodes(w)
  BY <1>0, <1>40 DEF CreateNodes, Frame
<1> QED
  BY
     <1>1, <1>2, <1>3, <1>4, <1>5, <1>6, <1>7, <1>8, <1>9, <1>10, <1>11,
     <1>12, <1>13, <1>14, <1>15, <1>16, <1>17, <1>18, <1>19, <1>20, <1>21,
     <1>22, <1>23, <1>24, <1>25, <1>26, <1>27, <1>28, <1>29, <1>30, <1>31,
     <1>32, <1>33, <1>34, <1>35, <1>36, <1>37, <1>38, <1>39, <1>40
     DEF WorkerStep, StartStep, TeardownStep, StopStep, NodesStep, EditStep

-----------------------------------------------------------------------------
(* Ownership of the TUN link *)

\* A step of w that neither touches links and devices nor begins or ends the
\* registration of one preserves DeviceOwned.
LEMMA DeviceFrame ==
    ASSUME DeviceOwned, NEW w \in Workers, Frame(w), UNCHANGED <<wg, dev>>,
           pc[w] # "reg", pc'[w] # "reg"
    PROVE  DeviceOwned'
BY DEF DeviceOwned, Frame

\* Every step of Start, its rollback, Stop, Delete and the edits keeps DeviceOwned.
LEMMA DeviceWorkerStep ==
    ASSUME TypeOK, DeviceOwned, NEW w \in Workers, WorkerStep(w)
    PROVE  DeviceOwned'
<1> USE ContinueFrame, FinishFrame, GotoFrame
<1>0. JobTypeOK /\ MemTypeOK /\ NetTypeOK /\ Frame(w) /\ tun[w] \in Tunnels
  BY WorkerFrame DEF TypeOK, JobTypeOK
<1>1. CASE StartContains(w)
  BY <1>0, <1>1, DeviceFrame DEF StartContains
<1>2. CASE StartGet(w)
  BY <1>0, <1>2, DeviceFrame DEF StartGet
<1>3. CASE StartNodes(w)
  BY <1>0, <1>3, DeviceFrame DEF StartNodes
<1>4. CASE StartRestoreNode(w)
  BY <1>0, <1>4, DeviceFrame DEF StartRestoreNode
<1>5. CASE StartCreateTUN(w)
  <2>1. CASE pc'[w] = "reg"
    <3>1. dev[tun[w]] = "absent" /\ dev' = [dev EXCEPT ![tun[w]] = "down"] /\ wg' = wg
      BY <1>0, <1>5, <2>1 DEF StartCreateTUN
    <3> QED
      BY <1>0, <1>5, <2>1, <3>1 DEF DeviceOwned, Frame, NetTypeOK, MemTypeOK, StartCreateTUN
  <2>2. CASE pc'[w] # "reg"
    BY <1>0, <1>5, <2>2, DeviceFrame DEF StartCreateTUN
  <2> QED
    BY <2>1, <2>2
<1>6. CASE StartRegister(w)
  <2>1. pc'[w] = "assign" /\ dev' = dev /\ wg' = [wg EXCEPT ![tun[w]] = TRUE]
    BY <1>0, <1>6 DEF StartRegister
  <2> QED
    BY <1>0, <1>6, <2>1 DEF DeviceOwned, Frame, NetTypeOK, MemTypeOK, StartRegister
<1>7. CASE StartAssignTUN(w)
  <2>1. pc[w] # "reg" /\ pc'[w] # "reg" /\ wg' = wg
    BY <1>0, <1>7 DEF StartAssignTUN
  <2>2. \A t \in Tunnels : dev'[t] # "absent" <=> dev[t] # "absent"
    BY <1>0, <1>7 DEF StartAssignTUN, NetTypeOK
  <2> QED
    BY <1>0, <2>1, <2>2 DEF DeviceOwned, Frame
<1>8. CASE StartReturnRoute(w)
  BY <1>0, <1>8, DeviceFrame DEF StartReturnRoute
<1>9. CASE XrayInstance(w)
  BY <1>0, <1>9, DeviceFrame DEF XrayInstance
<1>10. CASE XrayRegister(w)
  BY <1>0, <1>10, DeviceFrame DEF XrayRegister
<1>11. CASE StartTProxy(w)
  BY <1>0, <1>11, DeviceFrame DEF StartTProxy
<1>12. CASE StartForward(w)
  BY <1>0, <1>12, DeviceFrame DEF StartForward
<1>13. CASE StartMasquerade(w)
  BY <1>0, <1>13, DeviceFrame DEF StartMasquerade
<1>14. CASE StartUpdate(w)
  BY <1>0, <1>14, DeviceFrame DEF StartUpdate
<1>15. CASE StartMark(w)
  BY <1>0, <1>15, DeviceFrame DEF StartMark
<1>16. CASE StartTrack(w)
  BY <1>0, <1>16, DeviceFrame DEF StartTrack
<1>17. CASE RollbackStatus(w)
  BY <1>0, <1>17, DeviceFrame DEF RollbackStatus
<1>18. CASE TeardownForward(w)
  BY <1>0, <1>18, DeviceFrame DEF TeardownForward, AfterTeardown
<1>19. CASE TeardownMasquerade(w)
  BY <1>0, <1>19, DeviceFrame DEF TeardownMasquerade, AfterTeardown
<1>20. CASE TeardownTProxy(w)
  BY <1>0, <1>20, DeviceFrame DEF TeardownTProxy, AfterTeardown
<1>21. CASE TeardownReturnRoute(w)
  BY <1>0, <1>21, DeviceFrame DEF TeardownReturnRoute, AfterTeardown
<1>22. CASE TeardownDevice(w)
  <2>1. pc[w] # "reg" /\ pc'[w] # "reg"
    BY <1>0, <1>22 DEF TeardownDevice, AfterTeardown
  <2>2. \A t \in Tunnels \ {tun[w]} : wg'[t] = wg[t] /\ dev'[t] = dev[t]
    BY <1>0, <1>22 DEF TeardownDevice, NetTypeOK, MemTypeOK
  <2>3. ~wg'[tun[w]]
    BY <1>0, <1>22 DEF TeardownDevice, MemTypeOK
  <2>4. dev'[tun[w]] = IF wg[tun[w]] THEN "absent" ELSE dev[tun[w]]
    BY <1>0, <1>22 DEF TeardownDevice, NetTypeOK
  <2>5. /\ tun \in [Workers -> Tunnels] /\ tun' = tun
        /\ \A v \in Workers : pc'[v] = "reg" <=> pc[v] = "reg"
    BY <1>0, <2>1 DEF JobTypeOK, Frame
  <2>6. \A v \in Workers : pc'[v] = "reg" => ~wg'[tun'[v]]
    BY <2>2, <2>3, <2>5 DEF DeviceOwned
  <2>7. ASSUME NEW t \in Tunnels
        PROVE  dev'[t] # "absent"
                 <=> wg'[t] \/ \E v \in Workers : pc'[v] = "reg" /\ tun'[v] = t
    <3>1. CASE t = tun[w]
      BY <2>3, <2>4, <2>5, <3>1 DEF DeviceOwned
    <3>2. CASE t # tun[w]
      BY <2>2, <2>5, <3>2 DEF DeviceOwned
    <3> QED
      BY <3>1, <3>2
  <2> QED
    BY <2>5, <2>6, <2>7 DEF DeviceOwned
<1>23. CASE TeardownXray(w)
  BY <1>0, <1>23, DeviceFrame DEF TeardownXray, AfterTeardown
<1>24. CASE TeardownClear(w)
  BY <1>0, <1>24, DeviceFrame DEF TeardownClear, AfterTeardown
<1>25. CASE TeardownUntrack(w)
  BY <1>0, <1>25, DeviceFrame DEF TeardownUntrack
<1>26. CASE StopGet(w)
  BY <1>0, <1>26, DeviceFrame DEF StopGet
<1>27. CASE StopUpdate(w)
  BY <1>0, <1>27, DeviceFrame DEF StopUpdate
<1>28. CASE StopStatus(w)
  BY <1>0, <1>28, DeviceFrame DEF StopStatus
<1>29. CASE DeleteRow(w)
  BY <1>0, <1>29, DeviceFrame DEF DeleteRow
<1>30. CASE NodesSet(w)
  BY <1>0, <1>30, DeviceFrame DEF NodesSet
<1>31. CASE NodesGet(w)
  BY <1>0, <1>31, DeviceFrame DEF NodesGet
<1>32. CASE NodesUpdate(w)
  BY <1>0, <1>32, DeviceFrame DEF NodesUpdate
<1>33. CASE ReloadContains(w)
  BY <1>0, <1>33, DeviceFrame DEF ReloadContains
<1>34. CASE ReloadList(w)
  BY <1>0, <1>34, DeviceFrame DEF ReloadList
<1>35. CASE PutGet(w)
  BY <1>0, <1>35, DeviceFrame DEF PutGet
<1>36. CASE PutPrepare(w)
  BY <1>0, <1>36, DeviceFrame DEF PutPrepare
<1>37. CASE PutUpdate(w)
  BY <1>0, <1>37, DeviceFrame DEF PutUpdate
<1>38. CASE CreateInsert(w)
  BY <1>0, <1>38, DeviceFrame DEF CreateInsert
<1>39. CASE CreateUpdate(w)
  BY <1>0, <1>39, DeviceFrame DEF CreateUpdate
<1>40. CASE CreateNodes(w)
  BY <1>0, <1>40, DeviceFrame DEF CreateNodes
<1> QED
  BY
     <1>1, <1>2, <1>3, <1>4, <1>5, <1>6, <1>7, <1>8, <1>9, <1>10, <1>11,
     <1>12, <1>13, <1>14, <1>15, <1>16, <1>17, <1>18, <1>19, <1>20, <1>21,
     <1>22, <1>23, <1>24, <1>25, <1>26, <1>27, <1>28, <1>29, <1>30, <1>31,
     <1>32, <1>33, <1>34, <1>35, <1>36, <1>37, <1>38, <1>39, <1>40
     DEF WorkerStep, StartStep, TeardownStep, StopStep, NodesStep, EditStep

\* Every step of the system keeps DeviceOwned.
LEMMA DeviceNext == TypeOK /\ DeviceOwned /\ [Next]_vars => DeviceOwned'
<1> SUFFICES ASSUME TypeOK, DeviceOwned, [Next]_vars PROVE DeviceOwned'
  OBVIOUS
<1>0. JobTypeOK
  BY DEF TypeOK
<1>1. ASSUME NEW w \in Workers, NEW o \in Ops \ {"none"}, NEW t \in Tunnels,
             BeginJob(w, o, t), UNCHANGED <<wg, dev>>
      PROVE  DeviceOwned'
  <2>1. pc[w] = "idle" /\ pc'[w] # "reg"
    BY <1>0, <1>1 DEF BeginJob, JobTypeOK, FirstStep, Ops, HandlerOps
  <2>2. \A v \in Workers \ {w} : pc'[v] = pc[v] /\ tun'[v] = tun[v]
    BY <1>0, <1>1 DEF BeginJob, JobTypeOK
  <2> QED
    BY <1>1, <2>1, <2>2 DEF DeviceOwned
<1>2. ASSUME NEW w \in Handlers, NEW o \in Events \cap HandlerOps,
             NEW t \in Tunnels, Request(w, o, t)
      PROVE  DeviceOwned'
  BY <1>1, <1>2 DEF Request, Workers, Ops, HandlerOps
<1>3. ASSUME NEW w \in Workers, Cancel(w) PROVE DeviceOwned'
  BY <1>3 DEF Cancel, DeviceOwned
<1>4. ASSUME NEW w \in Workers, WorkerStep(w) PROVE DeviceOwned'
  BY <1>4, DeviceWorkerStep
<1>5. ASSUME NEW t \in Tunnels, MainNext(t) PROVE DeviceOwned'
  BY <1>1, <1>5 DEF MainNext, Workers, Ops, HandlerOps
<1>6. CASE MainDone \/ Drain \/ UNCHANGED vars
  BY <1>6 DEF MainDone, Drain, vars, DeviceOwned
<1>7. CASE Restart
  BY <1>7 DEF Restart, DeviceOwned
<1> QED
  BY <1>2, <1>3, <1>4, <1>5, <1>6, <1>7 DEF Next

\* wireguard.Manager.Create makes the link outside its lock, and nothing else
\* serialises the Starts and Stops of a tunnel.  Still, for any number of them,
\* no link is ever without an owner or with two.
THEOREM DeviceOwnedAlways == Spec => []DeviceOwned
<1>1. Init => DeviceOwned
  BY DEF Init, DeviceOwned
<1> QED
  BY <1>1, TypeCorrect, DeviceNext, PTL DEF Spec

-----------------------------------------------------------------------------
(* Interception: forward rules only on an attached chain *)

\* The part of BypassInv that relates overlapping requests survives any step
\* of a request that taints no less than before.
LEMMA OverlapFrame ==
    ASSUME NodesOp, OverlapSeen, DrainSeen, OverlapTaints, NEW w \in Workers,
           Frame(w), tainted \subseteq tainted',
           pc'[w] \in NodeSteps => op'[w] = "nodes"
    PROVE  NodesOp' /\ OverlapSeen' /\ DrainSeen' /\ OverlapTaints'
<1>1. NodesOp' /\ OverlapSeen'
  BY DEF NodesOp, OverlapSeen, Frame
<1>2. DrainSeen'
  BY DEF DrainSeen, PendingDrain, Frame
<1>3. OverlapTaints'
  BY DEF OverlapTaints, Frame
<1> QED
  BY <1>1, <1>2, <1>3

\* A step that leaves the rules, the RunSet and the taints alone, and moves its
\* request to a place about which BypassInv says nothing new.
LEMMA QuietStep ==
    ASSUME JobTypeOK, BypassInv, NEW w \in Workers, Frame(w),
           UNCHANGED <<fwd, chain, running, tainted>>,
           InStart(w)' => InStart(w) \/ tun[w] \notin running,
           pc'[w] \in StopTail => pc[w] \in StopTail,
           HoldsForward(w) => HoldsForward(w)',
           pc'[w] = "fwd" => pc[w] = "fwd",
           pc'[w] \in NodeSteps => op'[w] = "nodes"
    PROVE  BypassInv'
<1>1. NodesOp' /\ OverlapSeen' /\ DrainSeen' /\ OverlapTaints'
  BY OverlapFrame DEF BypassInv
<1>2. TeardownClosed'
  BY DEF BypassInv, TeardownClosed, Frame
<1>3. StartFresh'
  BY DEF BypassInv, StartFresh, InStart, Frame
<1>4. StartGuarded'
  BY DEF BypassInv, StartGuarded, Frame
<1>5. ForwardExplained'
  BY DEF BypassInv, ForwardExplained, HoldsForward, PendingDrain, Frame
<1>6. ForwardGuarded'
  BY DEF BypassInv, ForwardGuarded
<1> QED
  BY <1>1, <1>2, <1>3, <1>4, <1>5, <1>6 DEF BypassInv

\* An untainted tunnel is served by one request at most, and by none that main()
\* does not know of.
LEMMA Alone ==
    ASSUME JobTypeOK, BypassInv, NEW w \in Workers, pc[w] # "idle",
           tun[w] \notin tainted \/ ~overlap[w]
    PROVE  /\ ~overlap[w]
           /\ \A v \in Workers \ {w} : pc[v] # "idle" => tun[v] # tun[w]
           /\ ~PendingDrain(tun[w])
BY DEF BypassInv, OverlapSeen, DrainSeen, OverlapTaints, JobTypeOK

\* Every step of a request keeps the inductive strengthening of NoBypass.
LEMMA BypassWorkerStep ==
    ASSUME TypeOK, BypassInv, NEW w \in Workers, WorkerStep(w)
    PROVE  BypassInv'
<1> USE ContinueFrame, FinishFrame, GotoFrame
<1>0. /\ JobTypeOK /\ MemTypeOK /\ NetTypeOK /\ HistTypeOK /\ Frame(w)
      /\ tun[w] \in Tunnels /\ tun \in [Workers -> Tunnels]
  BY WorkerFrame DEF TypeOK, JobTypeOK
<1>1. CASE StartContains(w)
  BY <1>0, <1>1, QuietStep DEF StartContains, InStart, StartBody, StopTail,
     HoldsForward, NodeSteps
<1>2. CASE StartGet(w)
  BY <1>0, <1>2, QuietStep DEF StartGet, InStart, StartBody, StopTail,
     HoldsForward, NodeSteps
<1>3. CASE StartNodes(w)
  BY <1>0, <1>3, QuietStep DEF StartNodes, InStart, StartBody, StopTail,
     HoldsForward, NodeSteps
<1>4. CASE StartRestoreNode(w)
  BY <1>0, <1>4, QuietStep DEF StartRestoreNode, InStart, StartBody, StopTail,
     HoldsForward, NodeSteps
<1>5. CASE StartCreateTUN(w)
  BY <1>0, <1>5, QuietStep DEF StartCreateTUN, InStart, StartBody, StopTail,
     HoldsForward, NodeSteps
<1>6. CASE StartRegister(w)
  BY <1>0, <1>6, QuietStep DEF StartRegister, InStart, StartBody, StopTail,
     HoldsForward, NodeSteps
<1>7. CASE StartAssignTUN(w)
  BY <1>0, <1>7, QuietStep DEF StartAssignTUN, InStart, StartBody, StopTail,
     HoldsForward, NodeSteps
<1>8. CASE StartReturnRoute(w)
  BY <1>0, <1>8, QuietStep DEF StartReturnRoute, InStart, StartBody, StopTail,
     HoldsForward, NodeSteps
<1>9. CASE XrayInstance(w)
  BY <1>0, <1>9, QuietStep DEF XrayInstance, InStart, StartBody, StopTail,
     HoldsForward, NodeSteps
<1>10. CASE XrayRegister(w)
  BY <1>0, <1>10, QuietStep DEF XrayRegister, InStart, StartBody, StopTail,
     HoldsForward, NodeSteps
<1>11. CASE StartTProxy(w)
  <2>1. /\ UNCHANGED <<fwd, running, tainted>> /\ pc[w] = "tproxy"
        /\ \A t \in Tunnels \ {tun[w]} : chain'[t] = chain[t]
        /\ \/ pc'[w] = "fwd" /\ chain'[tun[w]] = "jumped"
           \/ pc'[w] = "rb_xray"
    BY <1>0, <1>11 DEF StartTProxy, NetTypeOK
  <2>2. tun[w] \notin tainted => ~fwd[tun[w]]
    BY <1>0, <2>1, Alone DEF BypassInv, ForwardExplained, HoldsForward, StartFresh,
       InStart, StartBody
  <2>3. NodesOp' /\ OverlapSeen' /\ DrainSeen' /\ OverlapTaints'
    BY <1>0, <2>1, OverlapFrame DEF BypassInv, NodeSteps
  <2>4. TeardownClosed'
    BY <1>0, <2>1 DEF BypassInv, TeardownClosed, StopTail, Frame
  <2>5. StartFresh'
    BY <1>0, <2>1 DEF BypassInv, StartFresh, InStart, StartBody, Frame
  <2>6. StartGuarded'
    BY <1>0, <2>1, Alone DEF BypassInv, StartGuarded, Frame
  <2>7. ForwardExplained'
    BY <1>0, <2>1 DEF BypassInv, ForwardExplained, HoldsForward, PendingDrain, Frame
  <2>8. ForwardGuarded'
    BY <1>0, <2>1, <2>2 DEF BypassInv, ForwardGuarded
  <2> QED
    BY <2>3, <2>4, <2>5, <2>6, <2>7, <2>8 DEF BypassInv
<1>12. CASE StartForward(w)
  <2>1. /\ UNCHANGED <<chain, running, tainted>> /\ pc[w] = "fwd"
        /\ \A t \in Tunnels \ {tun[w]} : fwd'[t] = fwd[t]
        /\ \/ pc'[w] = "nat"
           \/ pc'[w] = "rb_tproxy" /\ (fwd'[tun[w]] => fwd[tun[w]])
    BY <1>0, <1>12 DEF StartForward, NetTypeOK
  <2>2. tun[w] \notin tainted => ~fwd[tun[w]] /\ chain[tun[w]] = "jumped"
    BY <1>0, <2>1, Alone DEF BypassInv, ForwardExplained, HoldsForward, StartFresh,
       StartGuarded, InStart, StartBody
  <2>3. NodesOp' /\ OverlapSeen' /\ DrainSeen' /\ OverlapTaints'
    BY <1>0, <2>1, OverlapFrame DEF BypassInv, NodeSteps
  <2>4. TeardownClosed'
    BY <1>0, <2>1, Alone DEF BypassInv, TeardownClosed, StopTail, Frame
  <2>5. StartFresh'
    BY <1>0, <2>1 DEF BypassInv, StartFresh, InStart, StartBody, Frame
  <2>6. StartGuarded'
    BY <1>0, <2>1 DEF BypassInv, StartGuarded, Frame
  <2>7. ForwardExplained'
    BY <1>0, <2>1, <2>2 DEF BypassInv, ForwardExplained, HoldsForward, PendingDrain,
       Frame
  <2>8. ForwardGuarded'
    BY <1>0, <2>1, <2>2 DEF BypassInv, ForwardGuarded
  <2> QED
    BY <2>3, <2>4, <2>5, <2>6, <2>7, <2>8 DEF BypassInv
<1>13. CASE StartMasquerade(w)
  BY <1>0, <1>13, QuietStep DEF StartMasquerade, InStart, StartBody, StopTail,
     HoldsForward, NodeSteps
<1>14. CASE StartUpdate(w)
  BY <1>0, <1>14, QuietStep DEF StartUpdate, InStart, StartBody, StopTail,
     HoldsForward, NodeSteps
<1>15. CASE StartMark(w)
  <2>1. /\ UNCHANGED <<fwd, chain, tainted>> /\ pc[w] = "mark" /\ pc'[w] = "track"
        /\ running' = running \cup {tun[w]}
    BY <1>0, <1>15 DEF StartMark
  <2>2. NodesOp' /\ OverlapSeen' /\ DrainSeen' /\ OverlapTaints'
    BY <1>0, <2>1, OverlapFrame DEF BypassInv, NodeSteps
  <2>3. TeardownClosed' /\ StartGuarded' /\ ForwardGuarded'
    BY <1>0, <2>1 DEF BypassInv, TeardownClosed, StopTail, StartGuarded,
       ForwardGuarded, Frame
  <2>4. StartFresh'
    <3>1. \A v \in Workers : InStart(v)' => v # w /\ InStart(v) /\ pc[v] # "idle"
      BY <1>0, <2>1 DEF InStart, StartBody, Frame
    <3> QED
      BY <1>0, <2>1, <3>1, Alone DEF BypassInv, StartFresh, Frame
  <2>5. ForwardExplained'
    BY <1>0, <2>1 DEF BypassInv, ForwardExplained, HoldsForward, PendingDrain, Frame
  <2> QED
    BY <2>2, <2>3, <2>4, <2>5 DEF BypassInv
<1>16. CASE StartTrack(w)
  BY <1>0, <1>16, QuietStep DEF StartTrack, InStart, StartBody, StopTail,
     HoldsForward, NodeSteps
<1>17. CASE RollbackStatus(w)
  BY <1>0, <1>17, QuietStep DEF RollbackStatus, InStart, StartBody, StopTail,
     HoldsForward, NodeSteps
<1>18. CASE TeardownForward(w)
  <2>1. /\ UNCHANGED <<chain, running>> /\ pc[w] \in {"st_fwd", "rb_fwd"}
        /\ pc'[w] = IF pc[w] = "st_fwd" THEN "st_nat" ELSE "rb_tproxy"
        /\ tainted \subseteq tainted'
        /\ \A t \in Tunnels : fwd'[t] => fwd[t]
    BY <1>0, <1>18 DEF TeardownForward, AfterTeardown, NetTypeOK
  <2>7. ~overlap'[w] \/ tun[w] \notin tainted' => ~fwd'[tun[w]]
    BY <1>0, <1>18 DEF TeardownForward, HistTypeOK
  <2>2. NodesOp' /\ OverlapSeen' /\ DrainSeen' /\ OverlapTaints'
    BY <1>0, <2>1, OverlapFrame DEF BypassInv, NodeSteps
  <2>3. TeardownClosed'
    BY <1>0, <2>1, <2>7 DEF BypassInv, TeardownClosed, StopTail, Frame
  <2>4. StartFresh'
    BY <1>0, <2>1 DEF BypassInv, StartFresh, InStart, StartBody, Frame
  <2>5. StartGuarded' /\ ForwardGuarded'
    BY <1>0, <2>1 DEF BypassInv, StartGuarded, ForwardGuarded, Frame
  <2>6. ForwardExplained'
    BY <1>0, <2>1, <2>7 DEF BypassInv, ForwardExplained, HoldsForward, PendingDrain, Frame
  <2> QED
    BY <2>2, <2>3, <2>4, <2>5, <2>6 DEF BypassInv
<1>19. CASE TeardownMasquerade(w)
  BY <1>0, <1>19, QuietStep DEF TeardownMasquerade, InStart, StartBody, StopTail,
     HoldsForward, NodeSteps, AfterTeardown
<1>20. CASE TeardownTProxy(w)
  <2>1. /\ UNCHANGED <<fwd, running, tainted>> /\ pc[w] \in {"st_tproxy", "rb_tproxy"}
        /\ pc'[w] = IF pc[w] = "st_tproxy" THEN "st_route" ELSE "rb_xray"
        /\ \A t \in Tunnels \ {tun[w]} : chain'[t] = chain[t]
    BY <1>0, <1>20 DEF TeardownTProxy, AfterTeardown, NetTypeOK
  <2>2. tun[w] \notin tainted => ~fwd[tun[w]]
    BY <1>0, <2>1, Alone DEF BypassInv, ForwardExplained, HoldsForward, StartFresh,
       InStart, StartBody, TeardownClosed, StopTail
  <2>3. NodesOp' /\ OverlapSeen' /\ DrainSeen' /\ OverlapTaints'
    BY <1>0, <2>1, OverlapFrame DEF BypassInv, NodeSteps
  <2>4. TeardownClosed'
    BY <1>0, <2>1 DEF BypassInv, TeardownClosed, StopTail, Frame
  <2>5. StartFresh'
    BY <1>0, <2>1 DEF BypassInv, StartFresh, InStart, StartBody, Frame
  <2>6. StartGuarded'
    BY <1>0, <2>1, Alone DEF BypassInv, StartGuarded, Frame
  <2>7. ForwardExplained'
    BY <1>0, <2>1 DEF BypassInv, ForwardExplained, HoldsForward, PendingDrain, Frame
  <2>8. ForwardGuarded'
    BY <1>0, <2>1, <2>2 DEF BypassInv, ForwardGuarded
  <2> QED
    BY <2>3, <2>4, <2>5, <2>6, <2>7, <2>8 DEF BypassInv
<1>21. CASE TeardownReturnRoute(w)
  BY <1>0, <1>21, QuietStep DEF TeardownReturnRoute, InStart, StartBody, StopTail,
     HoldsForward, NodeSteps, AfterTeardown
<1>22. CASE TeardownDevice(w)
  BY <1>0, <1>22, QuietStep DEF TeardownDevice, InStart, StartBody, StopTail,
     HoldsForward, NodeSteps, AfterTeardown
<1>23. CASE TeardownXray(w)
  BY <1>0, <1>23, QuietStep DEF TeardownXray, InStart, StartBody, StopTail,
     HoldsForward, NodeSteps, AfterTeardown
<1>24. CASE TeardownClear(w)
  <2>1. /\ UNCHANGED <<fwd, chain, tainted>> /\ pc[w] = "st_clear"
        /\ pc'[w] = "st_untrack" /\ running' = running \ {tun[w]}
    BY <1>0, <1>24 DEF TeardownClear, AfterTeardown
  <2>2. tun[w] \notin tainted => ~fwd[tun[w]]
    BY <1>0, <2>1, Alone DEF BypassInv, TeardownClosed, StopTail
  <2>3. NodesOp' /\ OverlapSeen' /\ DrainSeen' /\ OverlapTaints'
    BY <1>0, <2>1, OverlapFrame DEF BypassInv, NodeSteps
  <2>4. TeardownClosed'
    BY <1>0, <2>1 DEF BypassInv, TeardownClosed, StopTail, Frame
  <2>5. StartFresh'
    BY <1>0, <2>1 DEF BypassInv, StartFresh, InStart, StartBody, Frame
  <2>6. StartGuarded' /\ ForwardGuarded'
    BY <1>0, <2>1 DEF BypassInv, StartGuarded, ForwardGuarded, Frame
  <2>7. ForwardExplained'
    BY <1>0, <2>1, <2>2 DEF BypassInv, ForwardExplained, HoldsForward, PendingDrain,
       Frame
  <2> QED
    BY <2>3, <2>4, <2>5, <2>6, <2>7 DEF BypassInv
<1>25. CASE TeardownUntrack(w)
  <2>1. /\ UNCHANGED <<fwd, chain, running>> /\ pc[w] = "st_untrack"
        /\ pc'[w] \in {"stop_update", "idle"}
        /\ tainted' = IF overlap[w] THEN tainted ELSE tainted \ {tun[w]}
    BY <1>0, <1>25 DEF TeardownUntrack
  <2>2. CASE overlap[w]
    BY <1>0, <2>1, <2>2, QuietStep DEF InStart, StartBody, StopTail,
       HoldsForward, NodeSteps
  <2>3. CASE ~overlap[w]
    <3>1. \A v \in Workers \ {w} : pc[v] # "idle" => tun[v] # tun[w]
      BY <1>0, <2>1, <2>3, Alone
    <3>2. ~fwd[tun[w]]
      BY <1>0, <2>1, <2>3 DEF BypassInv, TeardownClosed, StopTail
    <3>3. NodesOp' /\ OverlapSeen' /\ DrainSeen'
      BY <1>0, <2>1 DEF BypassInv, NodesOp, NodeSteps, OverlapSeen, DrainSeen, PendingDrain, Frame
    <3>4. OverlapTaints'
      BY <1>0, <2>1, <2>3, <3>1 DEF BypassInv, OverlapTaints, Frame
    <3>5. TeardownClosed'
      BY <1>0, <2>1 DEF BypassInv, TeardownClosed, StopTail, Frame
    <3>6. StartFresh'
      BY <1>0, <2>1, <2>3, <3>1 DEF BypassInv, StartFresh, InStart, StartBody, Frame
    <3>7. StartGuarded'
      BY <1>0, <2>1, <2>3, <3>1 DEF BypassInv, StartGuarded, Frame
    <3>8. ForwardExplained'
      BY <1>0, <2>1, <2>3, <3>2 DEF BypassInv, ForwardExplained, HoldsForward,
         PendingDrain, Frame
    <3>9. ForwardGuarded'
      BY <1>0, <2>1, <2>3, <3>2 DEF BypassInv, ForwardGuarded
    <3> QED
      BY <3>3, <3>4, <3>5, <3>6, <3>7, <3>8, <3>9 DEF BypassInv
  <2> QED
    BY <2>2, <2>3
<1>26. CASE StopGet(w)
  <2>1. /\ UNCHANGED <<fwd, chain, running>> /\ pc[w] = "stop_get"
        /\ \/ pc'[w] = "st_fwd" /\ tainted' = tainted
           \/ /\ pc'[w] \in {"delete", "idle"}
              /\ op[w] # "shutdown" /\ tainted' = tainted
           \/ /\ pc'[w] \in {"delete", "idle"}
              /\ tainted' = tainted \cup {tun[w]}
    BY <1>0, <1>26 DEF StopGet
  <2>2. CASE tainted' = tainted /\ (pc'[w] = "st_fwd" \/ op[w] # "shutdown")
    BY <1>0, <2>1, <2>2, QuietStep DEF InStart, StartBody, StopTail,
       HoldsForward, NodeSteps
  <2>3. CASE tainted' = tainted \cup {tun[w]} /\ pc'[w] \in {"delete", "idle"}
    <3>1. NodesOp' /\ OverlapSeen' /\ DrainSeen' /\ OverlapTaints'
      BY <1>0, <2>1, OverlapFrame DEF BypassInv, NodeSteps
    <3>2. TeardownClosed' /\ StartGuarded' /\ ForwardGuarded'
      BY <1>0, <2>1, <2>3 DEF BypassInv, TeardownClosed, StopTail, StartGuarded,
         ForwardGuarded, Frame
    <3>3. StartFresh'
      BY <1>0, <2>1, <2>3 DEF BypassInv, StartFresh, InStart, StartBody, Frame
    <3>4. ForwardExplained'
      BY <1>0, <2>1, <2>3 DEF BypassInv, ForwardExplained, HoldsForward, PendingDrain,
         Frame
    <3> QED
      BY <3>1, <3>2, <3>3, <3>4 DEF BypassInv
  <2> QED
    BY <2>1, <2>2, <2>3
<1>27. CASE StopUpdate(w)
  BY <1>0, <1>27, QuietStep DEF StopUpdate, InStart, StartBody, StopTail,
     HoldsForward, NodeSteps
<1>28. CASE StopStatus(w)
  BY <1>0, <1>28, QuietStep DEF StopStatus, InStart, StartBody, StopTail,
     HoldsForward, NodeSteps
<1>29. CASE DeleteRow(w)
  BY <1>0, <1>29, QuietStep DEF DeleteRow, InStart, StartBody, StopTail,
     HoldsForward, NodeSteps
<1>30. CASE NodesSet(w)
  BY <1>0, <1>30, QuietStep DEF NodesSet, InStart, StartBody, StopTail,
     HoldsForward, NodeSteps, BypassInv, NodesOp
<1>31. CASE NodesGet(w)
  BY <1>0, <1>31, QuietStep DEF NodesGet, InStart, StartBody, StopTail,
     HoldsForward, NodeSteps, BypassInv, NodesOp
<1>32. CASE NodesUpdate(w)
  BY <1>0, <1>32, QuietStep DEF NodesUpdate, InStart, StartBody, StopTail,
     HoldsForward, NodeSteps, BypassInv, NodesOp
<1>33. CASE ReloadContains(w)
  BY <1>0, <1>33, QuietStep DEF ReloadContains, InStart, StartBody, StopTail,
     HoldsForward, NodeSteps, BypassInv, NodesOp
<1>34. CASE ReloadList(w)
  BY <1>0, <1>34, QuietStep DEF ReloadList, InStart, StartBody, StopTail,
     HoldsForward, NodeSteps, BypassInv, NodesOp
<1>35. CASE PutGet(w)
  BY <1>0, <1>35, QuietStep DEF PutGet, InStart, StartBody, StopTail,
     HoldsForward, NodeSteps
<1>36. CASE PutPrepare(w)
  BY <1>0, <1>36, QuietStep DEF PutPrepare, InStart, StartBody, StopTail,
     HoldsForward, NodeSteps
<1>37. CASE PutUpdate(w)
  BY <1>0, <1>37, QuietStep DEF PutUpdate, InStart, StartBody, StopTail,
     HoldsForward, NodeSteps
<1>38. CASE CreateInsert(w)
  BY <1>0, <1>38, QuietStep DEF CreateInsert, InStart, StartBody, StopTail,
     HoldsForward, NodeSteps
<1>39. CASE CreateUpdate(w)
  BY <1>0, <1>39, QuietStep DEF CreateUpdate, InStart, StartBody, StopTail,
     HoldsForward, NodeSteps
<1>40. CASE CreateNodes(w)
  BY <1>0, <1>40, QuietStep DEF CreateNodes, InStart, StartBody, StopTail,
     HoldsForward, NodeSteps
<1> QED
  BY
     <1>1, <1>2, <1>3, <1>4, <1>5, <1>6, <1>7, <1>8, <1>9, <1>10, <1>11,
     <1>12, <1>13, <1>14, <1>15, <1>16, <1>17, <1>18, <1>19, <1>20, <1>21,
     <1>22, <1>23, <1>24, <1>25, <1>26, <1>27, <1>28, <1>29, <1>30, <1>31,
     <1>32, <1>33, <1>34, <1>35, <1>36, <1>37, <1>38, <1>39, <1>40
     DEF WorkerStep, StartStep, TeardownStep, StopStep, NodesStep, EditStep

\* Every step of the system keeps the inductive strengthening of NoBypass.
LEMMA BypassNext == TypeOK /\ BypassInv /\ [Next]_vars => BypassInv'
<1> SUFFICES ASSUME TypeOK, BypassInv, [Next]_vars PROVE BypassInv'
  OBVIOUS
<1>0. JobTypeOK /\ MemTypeOK /\ HistTypeOK /\ tun \in [Workers -> Tunnels]
  BY DEF TypeOK, JobTypeOK
<1>1. ASSUME NEW w \in Workers, NEW o \in Ops \ {"none"}, NEW t \in Tunnels,
             BeginJob(w, o, t), UNCHANGED <<phase, fwd, chain, running>>,
             \/ queue' = queue /\ w # Main
             \/ /\ queue' = queue \ {t} /\ w = Main
                /\ phase = "draining" => o = "shutdown"
      PROVE  BypassInv'
  <2>1. /\ pc[w] = "idle" /\ tun'[w] = t /\ op'[w] = o
        /\ pc'[w] \in {"contains", "stop_get", "n_set", "p_get", "c_insert"}
        /\ o = "shutdown" => pc'[w] = "stop_get"
        /\ pc'[w] = "n_set" => o = "nodes"
        /\ \A v \in Workers \ {w} : pc'[v] = pc[v] /\ tun'[v] = tun[v] /\ op'[v] = op[v]
    BY <1>0, <1>1 DEF BeginJob, JobTypeOK, FirstStep, Ops, HandlerOps
  <2>2. /\ overlap'[w] = Busy(w, t)
        /\ \A v \in Workers \ {w} : overlap'[v] <=> overlap[v] \/ Active(v, t)
        /\ tainted' = IF Busy(w, t) THEN tainted \cup {t} ELSE tainted
    BY <1>1 DEF BeginJob
  <2>3. \A v \in Workers \ {w} : pc[v] # "idle" /\ tun[v] = t => Busy(w, t)
    BY DEF Busy, Active
  <2>4. NodesOp' /\ OverlapSeen'
    BY <2>1, <2>2, <2>3 DEF BypassInv, NodesOp, NodeSteps, OverlapSeen, Active
  <2>5. DrainSeen'
    <3>1. \A x \in Tunnels : PendingDrain(x)' => PendingDrain(x)
      BY <1>1 DEF PendingDrain
    <3>2. PendingDrain(t)' => Busy(w, t)
      BY <1>1 DEF PendingDrain, Busy
    <3> QED
      BY <1>0, <2>1, <2>2, <3>1, <3>2 DEF BypassInv, DrainSeen
  <2>6. OverlapTaints'
    BY <2>1, <2>2, <2>3 DEF BypassInv, OverlapTaints, Active
  <2>7. TeardownClosed'
    BY <1>1, <2>1, <2>2 DEF BypassInv, TeardownClosed, StopTail
  <2>8. StartFresh'
    BY <1>1, <2>1, <2>2 DEF BypassInv, StartFresh, InStart, StartBody
  <2>9. StartGuarded' /\ ForwardGuarded'
    BY <1>1, <2>1, <2>2 DEF BypassInv, StartGuarded, ForwardGuarded
  <2>10. ForwardExplained'
    <3> SUFFICES ASSUME NEW x \in Tunnels, x \notin tainted', fwd'[x]
                 PROVE  \/ x \in running'
                        \/ PendingDrain(x)'
                        \/ \E v \in Workers : tun'[v] = x /\ HoldsForward(v)'
      BY DEF ForwardExplained
    <3>1. CASE x \in running
      BY <1>1, <3>1
    <3>2. CASE PendingDrain(x)
      BY <1>1, <2>1, <3>2 DEF PendingDrain, HoldsForward
    <3>3. CASE \E v \in Workers : tun[v] = x /\ HoldsForward(v)
      <4>1. PICK v \in Workers : tun[v] = x /\ HoldsForward(v)
        BY <3>3
      <4>2. v # w
        BY <2>1, <4>1 DEF HoldsForward
      <4> QED
        BY <2>1, <4>1, <4>2 DEF HoldsForward
    <3>4. x \notin tainted /\ fwd[x]
      BY <1>1, <2>2
    <3> QED
      BY <3>1, <3>2, <3>3, <3>4 DEF BypassInv, ForwardExplained
  <2> QED
    BY <2>4, <2>5, <2>6, <2>7, <2>8, <2>9, <2>10 DEF BypassInv
<1>2. ASSUME NEW w \in Handlers, NEW o \in Events \cap HandlerOps,
             NEW t \in Tunnels, Request(w, o, t)
      PROVE  BypassInv'
  <2>1. w \in Workers /\ w # Main /\ o \in Ops \ {"none"}
    BY MainAssumption DEF Workers, Ops, HandlerOps
  <2> QED
    BY <1>1, <1>2, <2>1 DEF Request
<1>3. ASSUME NEW t \in Tunnels, MainNext(t) PROVE BypassInv'
  <2>1. Main \in Workers /\ "start" \in Ops \ {"none"} /\ "shutdown" \in Ops \ {"none"}
    BY DEF Workers, Ops, HandlerOps
  <2>2. CASE phase = "boot" /\ BeginJob(Main, "start", t)
    BY <1>1, <1>3, <2>1, <2>2 DEF MainNext
  <2>3. CASE phase = "draining" /\ BeginJob(Main, "shutdown", t)
    BY <1>1, <1>3, <2>1, <2>3 DEF MainNext
  <2> QED
    BY <1>3, <2>2, <2>3 DEF MainNext
<1>4. ASSUME NEW w \in Workers, Cancel(w) PROVE BypassInv'
  BY <1>4 DEF Cancel, BypassInv, NodesOp, OverlapSeen, DrainSeen, OverlapTaints,
     TeardownClosed, StartFresh, StartGuarded, ForwardExplained, ForwardGuarded,
     PendingDrain, HoldsForward, InStart
<1>5. ASSUME NEW w \in Workers, WorkerStep(w) PROVE BypassInv'
  BY <1>5, BypassWorkerStep
<1>6. CASE MainDone
  <2>1. \A x \in Tunnels : ~PendingDrain(x) /\ ~PendingDrain(x)'
    BY <1>6 DEF MainDone, PendingDrain
  <2>2. UNCHANGED <<pc, op, tun, overlap, tainted, running, fwd, chain>>
    BY <1>6 DEF MainDone
  <2> QED
    BY <1>0, <2>1, <2>2 DEF BypassInv, NodesOp, OverlapSeen, DrainSeen, OverlapTaints,
       TeardownClosed, StartFresh, StartGuarded, ForwardExplained, ForwardGuarded,
       HoldsForward, InStart
<1>7. CASE Drain
  <2>1. /\ phase = "serving" /\ phase' = "draining" /\ queue' = running /\ running' = {}
        /\ UNCHANGED <<fwd, chain, pc, op, tun>>
        /\ tainted' = tainted \cup {t \in running : \E v \in Workers : Active(v, t)}
        /\ \A v \in Workers :
              overlap'[v] <=> overlap[v] \/ (pc[v] # "idle" /\ tun[v] \in running)
    BY <1>7 DEF Drain
  <2>2. NodesOp' /\ OverlapSeen' /\ DrainSeen'
    BY <2>1 DEF BypassInv, NodesOp, OverlapSeen, DrainSeen, PendingDrain
  <2>3. OverlapTaints'
    BY <2>1 DEF BypassInv, OverlapTaints, Active
  <2>4. TeardownClosed' /\ StartFresh' /\ StartGuarded' /\ ForwardGuarded'
    BY <2>1 DEF BypassInv, TeardownClosed, StartFresh, InStart, StartGuarded,
       ForwardGuarded
  <2>5. ForwardExplained'
    BY <2>1 DEF BypassInv, ForwardExplained, PendingDrain, HoldsForward
  <2> QED
    BY <2>2, <2>3, <2>4, <2>5 DEF BypassInv
<1>8. CASE Restart
  <2>1. /\ \A v \in Workers : pc'[v] = "idle"
        /\ \A x \in Tunnels : x \notin tainted' => ~fwd'[x]
    BY <1>8, ConstantsAssumption DEF Restart
  <2> QED
    BY <2>1 DEF BypassInv, NodesOp, NodeSteps, OverlapSeen, DrainSeen,
     OverlapTaints, TeardownClosed,
       StartFresh, StartGuarded, ForwardExplained, ForwardGuarded, InStart,
       StartBody, StopTail
<1>9. CASE UNCHANGED vars
  BY <1>9 DEF vars, BypassInv, NodesOp, OverlapSeen, DrainSeen, OverlapTaints,
     TeardownClosed, StartFresh, StartGuarded, ForwardExplained, ForwardGuarded,
     PendingDrain, HoldsForward, InStart
<1> QED
  BY <1>2, <1>3, <1>4, <1>5, <1>6, <1>7, <1>8, <1>9 DEF Next

\* Overlaps are known to the requests concerned, and forward rules are in place
\* for a reason and behind an attached chain.
THEOREM BypassAlways == Spec => []BypassInv
<1>1. Init => BypassInv
  BY DEF Init, BypassInv, NodesOp, NodeSteps, OverlapSeen, DrainSeen,
     OverlapTaints, TeardownClosed,
     StartFresh, StartGuarded, ForwardExplained, ForwardGuarded, InStart,
     StartBody, StopTail
<1> QED
  BY <1>1, TypeCorrect, BypassNext, PTL DEF Spec

\* The order of the calls in Start and in stopInternal keeps clients' packets
\* from being forwarded while the TPROXY chain is detached: for any number of
\* tunnels and handlers, through every failure, rollback, cancellation and
\* restart, as long as no two requests for the tunnel overlapped and no teardown
\* went by a row whose tun_name a PUT had changed.
THEOREM NoBypassAlways == Spec => []NoBypass
<1>1. BypassInv => NoBypass
  BY DEF BypassInv, ForwardGuarded, NoBypass
<1> QED
  BY <1>1, BypassAlways, PTL
-----------------------------------------------------------------------------
(* No request turns back.  This is the part of RequestsReturn, BootServes   *)
(* and ShutdownEnds that does not speak of time: besides it they only need *)
(* that every call returns, which is the fairness.                          *)

\* How many calls a request may still make, the one it is at included.
CallsLeft ==
    [contains |-> 25, get |-> 24, nodes |-> 23, restore |-> 22, wg |-> 21, reg |-> 20,
     assign |-> 19, route |-> 18, xray |-> 17, xreg |-> 16, tproxy |-> 15, fwd |-> 14,
     nat |-> 13, update |-> 12, mark |-> 2, track |-> 1, rb_fwd |-> 6, rb_tproxy |-> 5,
     rb_xray |-> 4, rb_route |-> 3, rb_wg |-> 2, rb_status |-> 1, stop_get |-> 12,
     st_fwd |-> 11, st_nat |-> 10, st_tproxy |-> 9, st_route |-> 8, st_wg |-> 7,
     st_xray |-> 6, st_clear |-> 5, st_untrack |-> 4, stop_update |-> 3,
     stop_status |-> 2, delete |-> 1, n_set |-> 22, n_get |-> 21, n_update |-> 20,
     n_contains |-> 19, n_list |-> 18, p_get |-> 3, p_prepare |-> 2, p_update |-> 1,
     c_insert |-> 3, c_update |-> 2, c_nodes |-> 1, idle |-> 0]

\* Each call of a request leaves it fewer to make, and nothing that others do
\* gives it more: Start with its rollback, Stop, Delete, SetTunnelNodes, PUT and
\* Create have no loop, whatever fails on the way.
RequestsDescend ==
    [][\A w \in Workers :
         /\ WorkerStep(w) => CallsLeft[pc'[w]] < CallsLeft[pc[w]]
         /\ pc[w] # "idle" => CallsLeft[pc'[w]] <= CallsLeft[pc[w]]]_vars

\* While main() restores or tears down, its list only gets shorter; requests
\* served meanwhile add nothing to it.
MainListShrinks ==
    [][restarts' = restarts /\ phase' = phase => queue' \subseteq queue]_vars

\* Every step has its number.
LEMMA CallsLeftType == CallsLeft \in [Steps -> Nat]
  BY DEF CallsLeft, Steps

\* A call leaves the request fewer calls.
LEMMA WorkerDescends ==
    ASSUME JobTypeOK, NEW w \in Workers, WorkerStep(w)
    PROVE  CallsLeft[pc'[w]] < CallsLeft[pc[w]]
<1> USE ContinueFrame, FinishFrame, GotoFrame DEF CallsLeft
<1>1. CASE StartContains(w)
  BY <1>1 DEF StartContains
<1>2. CASE StartGet(w)
  BY <1>2 DEF StartGet
<1>3. CASE StartNodes(w)
  BY <1>3 DEF StartNodes
<1>4. CASE StartRestoreNode(w)
  BY <1>4 DEF StartRestoreNode
<1>5. CASE StartCreateTUN(w)
  BY <1>5 DEF StartCreateTUN
<1>6. CASE StartRegister(w)
  BY <1>6 DEF StartRegister
<1>7. CASE StartAssignTUN(w)
  BY <1>7 DEF StartAssignTUN
<1>8. CASE StartReturnRoute(w)
  BY <1>8 DEF StartReturnRoute
<1>9. CASE XrayInstance(w)
  BY <1>9 DEF XrayInstance
<1>10. CASE XrayRegister(w)
  BY <1>10 DEF XrayRegister
<1>11. CASE StartTProxy(w)
  BY <1>11 DEF StartTProxy
<1>12. CASE StartForward(w)
  BY <1>12 DEF StartForward
<1>13. CASE StartMasquerade(w)
  BY <1>13 DEF StartMasquerade
<1>14. CASE StartUpdate(w)
  BY <1>14 DEF StartUpdate
<1>15. CASE StartMark(w)
  BY <1>15 DEF StartMark
<1>16. CASE StartTrack(w)
  BY <1>16 DEF StartTrack
<1>17. CASE RollbackStatus(w)
  BY <1>17 DEF RollbackStatus
<1>18. CASE TeardownForward(w)
  BY <1>18 DEF TeardownForward, AfterTeardown
<1>19. CASE TeardownMasquerade(w)
  BY <1>19 DEF TeardownMasquerade, AfterTeardown
<1>20. CASE TeardownTProxy(w)
  BY <1>20 DEF TeardownTProxy, AfterTeardown
<1>21. CASE TeardownReturnRoute(w)
  BY <1>21 DEF TeardownReturnRoute, AfterTeardown
<1>22. CASE TeardownDevice(w)
  BY <1>22 DEF TeardownDevice, AfterTeardown
<1>23. CASE TeardownXray(w)
  BY <1>23 DEF TeardownXray, AfterTeardown
<1>24. CASE TeardownClear(w)
  BY <1>24 DEF TeardownClear, AfterTeardown
<1>25. CASE TeardownUntrack(w)
  BY <1>25 DEF TeardownUntrack
<1>26. CASE StopGet(w)
  BY <1>26 DEF StopGet
<1>27. CASE StopUpdate(w)
  BY <1>27 DEF StopUpdate
<1>28. CASE StopStatus(w)
  BY <1>28 DEF StopStatus
<1>29. CASE DeleteRow(w)
  BY <1>29 DEF DeleteRow
<1>30. CASE NodesSet(w)
  BY <1>30 DEF NodesSet
<1>31. CASE NodesGet(w)
  BY <1>31 DEF NodesGet
<1>32. CASE NodesUpdate(w)
  BY <1>32 DEF NodesUpdate
<1>33. CASE ReloadContains(w)
  BY <1>33 DEF ReloadContains
<1>34. CASE ReloadList(w)
  BY <1>34 DEF ReloadList
<1>35. CASE PutGet(w)
  BY <1>35 DEF PutGet
<1>36. CASE PutPrepare(w)
  BY <1>36 DEF PutPrepare
<1>37. CASE PutUpdate(w)
  BY <1>37 DEF PutUpdate
<1>38. CASE CreateInsert(w)
  BY <1>38 DEF CreateInsert
<1>39. CASE CreateUpdate(w)
  BY <1>39 DEF CreateUpdate
<1>40. CASE CreateNodes(w)
  BY <1>40 DEF CreateNodes
<1> QED
  BY <1>1, <1>2, <1>3, <1>4, <1>5, <1>6, <1>7, <1>8, <1>9, <1>10, <1>11, <1>12, <1>13,
     <1>14, <1>15, <1>16, <1>17, <1>18, <1>19, <1>20, <1>21, <1>22, <1>23, <1>24, <1>25,
     <1>26, <1>27, <1>28, <1>29, <1>30, <1>31, <1>32, <1>33, <1>34, <1>35, <1>36, <1>37,
     <1>38, <1>39, <1>40
     DEF WorkerStep, StartStep, TeardownStep, StopStep, NodesStep, EditStep

\* No request for a tunnel ever turns back: for any number of tunnels and
\* handlers it returns after at most 25 calls of the services and the database,
\* and neither a failure nor another request sends it back to an earlier one.
THEOREM RequestsDescendAlways == Spec => RequestsDescend
<1> DEFINE Step == \A w \in Workers :
         /\ WorkerStep(w) => CallsLeft[pc'[w]] < CallsLeft[pc[w]]
         /\ pc[w] # "idle" => CallsLeft[pc'[w]] <= CallsLeft[pc[w]]
<1>1. ASSUME TypeOK, TypeOK', [Next]_vars PROVE Step
  <2> SUFFICES ASSUME NEW w \in Workers
               PROVE  /\ WorkerStep(w) => CallsLeft[pc'[w]] < CallsLeft[pc[w]]
                      /\ pc[w] # "idle" => CallsLeft[pc'[w]] <= CallsLeft[pc[w]]
    OBVIOUS
  <2>0. CallsLeft[pc[w]] \in Nat /\ CallsLeft[pc'[w]] \in Nat /\ JobTypeOK
    BY <1>1, CallsLeftType DEF TypeOK, JobTypeOK
  <2>1. WorkerStep(w) => CallsLeft[pc'[w]] < CallsLeft[pc[w]]
    BY <2>0, WorkerDescends
  <2>2. ASSUME pc[w] # "idle" PROVE CallsLeft[pc'[w]] <= CallsLeft[pc[w]]
    <3>1. \/ WorkerStep(w) \/ pc'[w] = pc[w] \/ pc'[w] = "idle"
      <4>1. CASE \E v \in Workers : WorkerStep(v)
        BY <1>1, <4>1, WorkerFrame DEF Frame
      <4>2. CASE \E v \in Workers : Cancel(v)
        BY <4>2 DEF Cancel
      <4>3. ASSUME NEW v \in Workers, NEW o, NEW t, BeginJob(v, o, t)
            PROVE  pc'[w] = pc[w]
        BY <2>2, <4>3, <2>0 DEF BeginJob, JobTypeOK
      <4>4. CASE \E v \in Handlers, o \in Events \cap HandlerOps, t \in Tunnels : Request(v, o, t)
        BY <4>3, <4>4 DEF Request, Workers
      <4>5. CASE \E t \in Tunnels : MainNext(t)
        BY <4>3, <4>5 DEF MainNext, Workers
      <4>6. CASE MainDone \/ Drain \/ UNCHANGED vars
        BY <4>6 DEF MainDone, Drain, jobVars, vars
      <4>7. CASE Restart
        BY <4>7 DEF Restart
      <4> QED
        BY <1>1, <4>1, <4>2, <4>4, <4>5, <4>6, <4>7 DEF Next
    <3>2. CallsLeft["idle"] = 0
      BY DEF CallsLeft
    <3> QED
      BY <2>0, <2>1, <3>1, <3>2
  <2> QED
    BY <2>1, <2>2
<1>2. TypeOK /\ TypeOK' /\ [Next]_vars => [Step]_vars
  BY <1>1
<1>3. [][Step]_vars <=> RequestsDescend
  BY DEF RequestsDescend
<1> HIDE DEF Step
<1> QED
  BY <1>2, <1>3, TypeCorrect, PTL DEF Spec

\* ShutdownAll and RestoreRunning get through a list that nothing lengthens,
\* however requests are served next to them.
THEOREM MainListShrinksAlways == Spec => MainListShrinks
<1> DEFINE Step == restarts' = restarts /\ phase' = phase => queue' \subseteq queue
<1>1. ASSUME TypeOK, [Next]_vars PROVE Step
  <2>1. CASE \E v \in Workers : WorkerStep(v)
    BY <1>1, <2>1, WorkerFrame DEF Frame
  <2>2. CASE \E v \in Workers : Cancel(v)
    BY <2>2 DEF Cancel, procVars
  <2>3. CASE \E v \in Handlers, o \in Events \cap HandlerOps, t \in Tunnels : Request(v, o, t)
    BY <2>3 DEF Request, procVars
  <2>4. CASE \E t \in Tunnels : MainNext(t)
    BY <2>4 DEF MainNext
  <2>5. CASE MainDone \/ Drain \/ UNCHANGED vars
    BY <2>5 DEF MainDone, Drain, vars, procVars
  <2>6. CASE Restart
    <3>1. restarts' = restarts + 1 /\ restarts \in Nat
      BY <1>1, <2>6, ConstantsAssumption DEF Restart, TypeOK, ProcTypeOK
    <3> QED
      BY <3>1
  <2> QED
    BY <1>1, <2>1, <2>2, <2>3, <2>4, <2>5, <2>6 DEF Next
<1>2. TypeOK /\ [Next]_vars => [Step]_vars
  BY <1>1
<1>3. [][Step]_vars <=> MainListShrinks
  BY DEF MainListShrinks
<1> HIDE DEF Step
<1> QED
  BY <1>2, <1>3, TypeCorrect, PTL DEF Spec
=============================================================================
