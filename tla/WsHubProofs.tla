---------------------------- MODULE WsHubProofs ----------------------------
(***************************************************************************)
(* Proofs that the hub loses no connection, and that whoever waits for it  *)
(* is released, for any number of connections and any capacities of the    *)
(* channels.                                                               *)
(*                                                                         *)
(* Accounted is inductive together with the types and with two facts: no   *)
(* goroutine serves a connection before it is upgraded, and Close reports  *)
(* success only after the hub's goroutine has ended and left no clients.   *)
(***************************************************************************)
EXTENDS WsHub, TLAPS

\* No goroutine serves a connection that has not been upgraded.
NotYetKnown ==
    \A c \in Conns : conn[c] = "none" => pc[c] = "none"

\* Close waits for the goroutine, which leaves no clients.
EndedIsEmpty == /\ hub = "ended" => clients = {}
                /\ closer = "ok" => hub = "ended"

HubInv == TypeOK /\ NotYetKnown /\ EndedIsEmpty /\ Accounted

\* What a channel holds after a send ...
LEMMA QueuedAppend ==
    ASSUME NEW q \in Seq(Conns), NEW c \in Conns
    PROVE  /\ Append(q, c) \in Seq(Conns)
           /\ Len(Append(q, c)) = Len(q) + 1
           /\ \A i \in 1 .. Len(q) : Append(q, c)[i] = q[i]
           /\ Append(q, c)[Len(q) + 1] = c
  OBVIOUS

\* ... and after a receive.
LEMMA QueuedTail ==
    ASSUME NEW q \in Seq(Conns), q # <<>>
    PROVE  /\ Head(q) \in Conns /\ Head(q) = q[1]
           /\ Tail(q) \in Seq(Conns) /\ Len(Tail(q)) = Len(q) - 1 /\ Len(q) > 0
           /\ \A i \in 1 .. Len(q) - 1 : Tail(q)[i] = q[i + 1]
  OBVIOUS

\* Initially there is no connection.
LEMMA InitHubInv == Init => HubInv
<1> SUFFICES ASSUME Init PROVE HubInv
  OBVIOUS
<1>1. <<>> \in Seq(Conns) /\ Len(<<>>) = 0
  OBVIOUS
<1>2. TypeOK
  <2>1. /\ register \in Seq(Conns) /\ Len(register) = 0
        /\ unregister \in Seq(Conns) /\ Len(unregister) = 0
    BY <1>1, Zenon DEF Init
  <2>2. Len(register) <= CapRegister /\ Len(unregister) <= CapUnregister
    BY <2>1, CapAssumption
  <2>3. broadcast \in 0 .. CapBroadcast
    BY CapAssumption DEF Init
  <2> QED
    BY <2>1, <2>2, <2>3 DEF Init, TypeOK
<1>3. NotYetKnown /\ EndedIsEmpty /\ Accounted
  BY DEF Init, NotYetKnown, EndedIsEmpty, Accounted
<1> QED
  BY <1>2, <1>3 DEF HubInv

\* Every step keeps the types, the order of Register and Close, and the account.
LEMMA HubStepInv == HubInv /\ [Next]_vars => HubInv'
<1> SUFFICES ASSUME HubInv, [Next]_vars
             PROVE  HubInv'
  OBVIOUS
<1> USE CapAssumption
    DEF HubInv, TypeOK, NotYetKnown, EndedIsEmpty, Accounted, Queued, Close, Goto, chanVars
<1>1. ASSUME NEW c \in Conns, Upgrade(c) PROVE HubInv'
  BY <1>1 DEF Upgrade
<1>2. ASSUME NEW c \in Conns, RegisterSend(c) PROVE HubInv'
  <2>1. /\ register' = Append(register, c) /\ Len(register) < CapRegister
        /\ register \in Seq(Conns) /\ Len(register) \in Nat
    BY <1>2 DEF RegisterSend
  <2>2. TypeOK' /\ NotYetKnown' /\ EndedIsEmpty'
    BY <1>2, <2>1, QueuedAppend DEF RegisterSend
  <2>3. \A d \in Conns : Queued(d) \/ d = c => Queued(d)'
    BY <2>1, QueuedAppend
  <2>4. Accounted'
    BY <1>2, <2>3 DEF RegisterSend
  <2> QED
    BY <2>2, <2>4
<1>3. ASSUME NEW c \in Conns, RegisterDone(c) PROVE HubInv'
  BY <1>3 DEF RegisterDone
<1>4. ASSUME NEW c \in Conns, ClientLeaves(c) PROVE HubInv'
  BY <1>4 DEF ClientLeaves
<1>5. ASSUME NEW c \in Conns, ReadFails(c) PROVE HubInv'
  BY <1>5 DEF ReadFails
<1>6. ASSUME NEW c \in Conns, UnregisterSend(c) PROVE HubInv'
  BY <1>6, QueuedAppend DEF UnregisterSend
<1>7. ASSUME NEW c \in Conns, UnregisterDone(c) PROVE HubInv'
  BY <1>7 DEF UnregisterDone
<1>8. CASE Broadcast
  BY <1>8 DEF Broadcast
<1>9. CASE HubRegister
  <2>1. /\ register' = Tail(register) /\ register # <<>> /\ register \in Seq(Conns)
        /\ clients' = clients \cup {Head(register)}
    BY <1>9 DEF HubRegister
  <2>2. TypeOK' /\ NotYetKnown' /\ EndedIsEmpty'
    BY <1>9, <2>1, QueuedTail DEF HubRegister
  <2>3. ASSUME NEW d \in Conns, Queued(d), d # Head(register) PROVE Queued(d)'
    <3>1. PICK i \in 1 .. Len(register) : register[i] = d
      BY <2>3
    <3>2. i # 1 /\ i - 1 \in 1 .. Len(register) - 1
      BY <3>1, <2>3, <2>1, QueuedTail
    <3>3. register'[i - 1] = register[(i - 1) + 1] /\ Len(register') = Len(register) - 1
      BY <3>2, <2>1, QueuedTail
    <3>4. (i - 1) + 1 = i
      BY <3>2
    <3> QED
      BY <3>1, <3>2, <3>3, <3>4
  <2>4. Accounted'
    BY <1>9, <2>1, <2>3 DEF HubRegister
  <2> QED
    BY <2>2, <2>4
<1>10. CASE HubUnregister
  <2>1. Head(unregister) \in Conns /\ TypeOK'
    BY <1>10, QueuedTail DEF HubUnregister
  <2> QED
    BY <1>10, <2>1 DEF HubUnregister
<1>11. CASE HubBroadcast
  BY <1>11 DEF HubBroadcast
<1>12. CASE HubDone
  BY <1>12 DEF HubDone
<1>13. CASE RootCancel \/ CloseCall \/ CloseReturn
  BY <1>13 DEF RootCancel, CloseCall, CloseReturn
<1>14. CASE UNCHANGED vars
  BY <1>14 DEF vars
<1> QED
  BY <1>1, <1>2, <1>3, <1>4, <1>5, <1>6, <1>7, <1>8, <1>9, <1>10, <1>11, <1>12,
     <1>13, <1>14
  DEF Next, ConnStep

\* The invariant holds in every reachable state.
LEMMA HubInvAlways == Spec => []HubInv
  BY InitHubInv, HubStepInv, PTL DEF Spec

\* The hub loses no open connection, for any number of connections.
THEOREM AccountedAlways == Spec => []Accounted
<1>1. HubInv => Accounted
  BY DEF HubInv
<1> QED
  BY <1>1, HubInvAlways, PTL

\* A successful Close has closed every connection the hub ever took.
THEOREM CloseMeansClosedAlways == Spec => []CloseMeansClosed
<1>1. HubInv => CloseMeansClosed
  BY DEF HubInv, EndedIsEmpty, Accounted, CloseMeansClosed
<1> QED
  BY <1>1, HubInvAlways, PTL
-----------------------------------------------------------------------------
(* Why nobody blocks: the part of NobodyBlocks that does not speak of time. *)

\* The hub's goroutine ends, and Close is called, only once the context is
\* cancelled.
EndsWhenCancelled ==
    /\ hub = "ended" => cancelled
    /\ closer # "idle" => cancelled

\* A handler or reader that finds its channel full is released by somebody: by
\* the goroutine, which still runs and has something to take out, or by the
\* cancelled context.  A Close that waits does so for a goroutine that has been
\* told to end.
WaitersReleased ==
    CapRegister > 0 /\ CapUnregister > 0 =>
        /\ \A c \in Conns : pc[c] = "register" =>
              \/ Len(register) < CapRegister \/ cancelled
              \/ hub = "running" /\ register # <<>>
        /\ \A c \in Conns : pc[c] = "unregister" =>
              \/ Len(unregister) < CapUnregister \/ cancelled
              \/ hub = "running" /\ unregister # <<>>
        /\ closer = "waiting" => cancelled

\* Only HubDone ends the goroutine, and only main() calls Close.
LEMMA StepEndsWhenCancelled == EndsWhenCancelled /\ [Next]_vars => EndsWhenCancelled'
<1> SUFFICES ASSUME EndsWhenCancelled, [Next]_vars PROVE EndsWhenCancelled'
  OBVIOUS
<1> USE DEF EndsWhenCancelled
<1>1. ASSUME NEW c \in Conns, Upgrade(c) \/ ClientLeaves(c) \/ ConnStep(c)
      PROVE  EndsWhenCancelled'
  BY <1>1 DEF Upgrade, ClientLeaves, ConnStep, RegisterSend, RegisterDone, ReadFails,
     UnregisterSend, UnregisterDone
<1>2. CASE Broadcast \/ HubRegister \/ HubUnregister \/ HubBroadcast
  BY <1>2 DEF Broadcast, HubRegister, HubUnregister, HubBroadcast
<1>3. CASE HubDone \/ RootCancel \/ CloseCall \/ CloseReturn
  BY <1>3 DEF HubDone, RootCancel, CloseCall, CloseReturn
<1>4. CASE UNCHANGED vars
  BY <1>4 DEF vars
<1> QED
  BY <1>1, <1>2, <1>3, <1>4 DEF Next

\* Register, Unregister and Close never wait for something nobody will do, for
\* any number of connections and channels of any capacity but zero (Hub.run,
\* Register, Unregister and Close in hub.go).
THEOREM WaitersReleasedAlways == Spec => []WaitersReleased
<1>1. Init => EndsWhenCancelled
  BY DEF Init, EndsWhenCancelled
<1>2. ASSUME TypeOK, EndsWhenCancelled PROVE WaitersReleased
  <2>1. hub = "running" \/ cancelled
    BY <1>2 DEF TypeOK, EndsWhenCancelled
  <2>2. register = <<>> => Len(register) = 0
    OBVIOUS
  <2>3. unregister = <<>> => Len(unregister) = 0
    OBVIOUS
  <2>4. closer = "waiting" => cancelled
    BY <1>2 DEF EndsWhenCancelled
  <2> QED
    BY <2>1, <2>2, <2>3, <2>4 DEF WaitersReleased
<1>3. HubInv /\ EndsWhenCancelled => WaitersReleased
  BY <1>2 DEF HubInv
<1> QED
  BY <1>1, <1>3, HubInvAlways, StepEndsWhenCancelled, PTL DEF Spec
-----------------------------------------------------------------------------
(* Why a client that left is forgotten although its unregistration may      *)
(* overtake its registration: the part of LeaversForgotten that does not    *)
(* speak of time.                                                            *)

\* An unregistration that waits in the channel.
Leaving(c) == \E i \in 1 .. Len(unregister) : unregister[i] = c

\* A connection that its client has left is still to be unregistered by its
\* reader or by the hub, unless the hub is cancelled; and one that is a client
\* does not wait to become one again, as its second registration would come
\* after its only unregistration.
LeaversExpected ==
    \A c \in Conns :
        /\ conn[c] = "gone" =>
              pc[c] \in {"register", "reading", "unregister"} \/ Leaving(c) \/ cancelled
        /\ c \in clients => ~Queued(c)

\* A connection that passed Register, is not a client and does not wait to become
\* one stays forgotten; a closed one stays closed, so that the next broadcast
\* drops it, if it is a client.
StayForgotten ==
    [][\A c \in Conns :
         /\ pc[c] \notin {"none", "register"} /\ ~Queued(c) /\ c \notin clients
                => ~Queued(c)' /\ c \notin clients'
         /\ conn[c] = "closed" => conn'[c] = "closed"
         /\ HubBroadcast /\ conn[c] = "closed" => c \notin clients']_vars

\* Registration is once per connection, and only its reader, at its end, sends
\* the unregistration.
OncePerConn ==
    /\ \A c \in Conns :
          /\ pc[c] = "none" => conn[c] = "none"
          /\ pc[c] \in {"none", "register"} => c \notin clients /\ ~Queued(c)
          /\ pc[c] \in {"unregister", "done"} => conn[c] \in {"gone", "closed"}
          /\ Leaving(c) => pc[c] = "done"
    /\ \A i, j \in 1 .. Len(register) : register[i] = register[j] => i = j

LeaverInv == OncePerConn /\ LeaversExpected
\* A message in a channel after a send was there before, or is the one sent ...
LEMMA AppendQueued ==
    ASSUME NEW q \in Seq(Conns), NEW c \in Conns, NEW d
    PROVE  (\E i \in 1 .. Len(Append(q, c)) : Append(q, c)[i] = d)
               <=> d = c \/ \E i \in 1 .. Len(q) : q[i] = d
<1>1. Len(q) \in Nat
  OBVIOUS
<1>2. ASSUME NEW i \in 1 .. Len(q), q[i] = d
      PROVE  \E k \in 1 .. Len(Append(q, c)) : Append(q, c)[k] = d
  BY <1>1, <1>2, QueuedAppend
<1>3. ASSUME d = c PROVE \E k \in 1 .. Len(Append(q, c)) : Append(q, c)[k] = d
  <2>1. Len(q) + 1 \in 1 .. Len(Append(q, c))
    BY <1>1, QueuedAppend
  <2> QED
    BY <1>3, <2>1, QueuedAppend
<1>4. ASSUME NEW k \in 1 .. Len(Append(q, c)), Append(q, c)[k] = d
      PROVE  d = c \/ \E i \in 1 .. Len(q) : q[i] = d
  <2>1. k \in 1 .. Len(q) \/ k = Len(q) + 1
    BY <1>1, QueuedAppend
  <2> QED
    BY <1>4, <2>1, QueuedAppend
<1> QED
  BY <1>2, <1>3, <1>4

\* ... and what is there after a receive was there before.
LEMMA TailQueued ==
    ASSUME NEW q \in Seq(Conns), q # <<>>, NEW d
    PROVE  /\ (\E i \in 1 .. Len(Tail(q)) : Tail(q)[i] = d) => \E i \in 1 .. Len(q) : q[i] = d
           /\ (\E i \in 1 .. Len(q) : q[i] = d)
                  => d = Head(q) \/ \E i \in 1 .. Len(Tail(q)) : Tail(q)[i] = d
           /\ \E i \in 1 .. Len(q) : q[i] = Head(q)
<1>1. Len(q) \in Nat /\ Len(q) > 0 /\ Len(Tail(q)) = Len(q) - 1
  BY QueuedTail
<1>2. ASSUME NEW i \in 1 .. Len(Tail(q)), Tail(q)[i] = d PROVE \E k \in 1 .. Len(q) : q[k] = d
  <2>1. i + 1 \in 1 .. Len(q) /\ q[i + 1] = d
    BY <1>1, <1>2, QueuedTail
  <2> QED
    BY <2>1
<1>3. ASSUME NEW i \in 1 .. Len(q), q[i] = d, d # Head(q)
      PROVE  \E k \in 1 .. Len(Tail(q)) : Tail(q)[k] = d
  <2>1. i # 1
    BY <1>3, QueuedTail
  <2>2. i - 1 \in 1 .. Len(q) - 1 /\ (i - 1) + 1 = i
    BY <2>1, <1>1
  <2>3. Tail(q)[i - 1] = q[(i - 1) + 1]
    BY <2>2, QueuedTail
  <2> QED
    BY <1>1, <1>3, <2>2, <2>3
<1>4. 1 \in 1 .. Len(q) /\ q[1] = Head(q)
  BY <1>1, QueuedTail
<1> QED
  BY <1>2, <1>3, <1>4

\* Initially nobody is registered.
LEMMA InitLeaverInv == Init => LeaverInv
<1> SUFFICES ASSUME Init PROVE LeaverInv
  OBVIOUS
<1>1. register = <<>> /\ unregister = <<>> /\ 1 .. Len(<<>>) = {}
  BY DEF Init
<1> QED
  BY <1>1 DEF Init, LeaverInv, OncePerConn, LeaversExpected, Queued, Leaving

\* Every step keeps the order of registration and unregistration.
LEMMA LeaverStep == TypeOK /\ NotYetKnown /\ LeaverInv /\ [Next]_vars => LeaverInv'
<1> SUFFICES ASSUME TypeOK, NotYetKnown, LeaverInv, [Next]_vars PROVE LeaverInv'
  OBVIOUS
<1> USE DEF TypeOK, Close, Goto, chanVars
<1> DEFINE Once == \A i, j \in 1 .. Len(register) : register[i] = register[j] => i = j
\* Steps that leave both channels alone leave what is queued in them.
<1>q. ASSUME UNCHANGED <<register, unregister>>
      PROVE  /\ \A c \in Conns : Queued(c)' = Queued(c) /\ Leaving(c)' = Leaving(c)
             /\ Once' = Once
  BY <1>q DEF Queued, Leaving
<1> USE DEF LeaverInv, OncePerConn, LeaversExpected
<1>1. ASSUME NEW c \in Conns, Upgrade(c) PROVE LeaverInv'
  BY <1>1, <1>q DEF Upgrade, NotYetKnown
<1>2. ASSUME NEW c \in Conns, RegisterSend(c) PROVE LeaverInv'
  <2>1. /\ register \in Seq(Conns) /\ register' = Append(register, c)
        /\ pc[c] = "register" /\ ~Queued(c) /\ c \notin clients
        /\ UNCHANGED <<conn, unregister, clients, cancelled>>
    BY <1>2 DEF RegisterSend
  <2>2. \A d \in Conns : Queued(d)' <=> d = c \/ Queued(d)
    BY <2>1, AppendQueued DEF Queued
  <2>3. \A d \in Conns : Leaving(d)' = Leaving(d)
    BY <2>1 DEF Leaving
  <2>4. Once'
    <3>1. Len(register) \in Nat /\ \A i \in 1 .. Len(register) : register[i] # c
      BY <2>1 DEF Queued
    <3> QED
      BY <2>1, <3>1, QueuedAppend
  <2> HIDE DEF Once
  <2>5. /\ pc' = [pc EXCEPT ![c] = "reading"] /\ pc \in [Conns -> {"none", "register",
              "reading", "unregister", "done"}]
    BY <1>2 DEF RegisterSend
  <2>6. LeaversExpected'
    BY <2>1, <2>2, <2>3, <2>5
  <2>7. OncePerConn' <=> /\ Once'
                         /\ \A d \in Conns :
                              /\ pc'[d] = "none" => conn'[d] = "none"
                              /\ pc'[d] \in {"none", "register"}
                                    => d \notin clients' /\ ~Queued(d)'
                              /\ pc'[d] \in {"unregister", "done"}
                                    => conn'[d] \in {"gone", "closed"}
                              /\ Leaving(d)' => pc'[d] = "done"
    BY DEF Once
  <2> QED
    BY <2>1, <2>2, <2>3, <2>4, <2>5, <2>6, <2>7
<1>3. ASSUME NEW c \in Conns, RegisterDone(c) PROVE LeaverInv'
  BY <1>3, <1>q DEF RegisterDone
<1>4. ASSUME NEW c \in Conns, ClientLeaves(c) PROVE LeaverInv'
  BY <1>4, <1>q DEF ClientLeaves
<1>5. ASSUME NEW c \in Conns, ReadFails(c) PROVE LeaverInv'
  BY <1>5, <1>q DEF ReadFails
<1>6. ASSUME NEW c \in Conns, UnregisterSend(c) PROVE LeaverInv'
  <2>1. /\ unregister \in Seq(Conns) /\ unregister' = Append(unregister, c)
        /\ pc[c] = "unregister" /\ UNCHANGED <<conn, register, clients, cancelled>>
    BY <1>6 DEF UnregisterSend
  <2>2. \A d \in Conns : Leaving(d)' <=> d = c \/ Leaving(d)
    BY <2>1, AppendQueued DEF Leaving
  <2>3. (\A d \in Conns : Queued(d)' = Queued(d)) /\ Once' = Once
    BY <2>1 DEF Queued
  <2> QED
    BY <1>6, <2>1, <2>2, <2>3 DEF UnregisterSend
<1>7. ASSUME NEW c \in Conns, UnregisterDone(c) PROVE LeaverInv'
  BY <1>7, <1>q DEF UnregisterDone
<1>8. CASE Broadcast
  BY <1>8, <1>q DEF Broadcast
<1>9. CASE HubRegister
  <2>1. /\ register \in Seq(Conns) /\ register # <<>> /\ register' = Tail(register)
        /\ clients' = clients \cup {Head(register)}
        /\ UNCHANGED <<conn, pc, unregister, cancelled>>
    BY <1>9 DEF HubRegister
  <2>2. /\ Head(register) \in Conns /\ Queued(Head(register))
        /\ \A d \in Conns : Queued(d)' => Queued(d)
    BY <2>1, QueuedTail, TailQueued DEF Queued
  <2>3. \A d \in Conns : d = Head(register) => ~Queued(d)'
    <3>1. \A i \in 1 .. Len(register) - 1 : register[i + 1] # register[1]
      BY <2>1, QueuedTail
    <3> QED
      BY <2>1, <3>1, QueuedTail DEF Queued
  <2>4. Once'
    BY <2>1, QueuedTail
  <2>5. \A d \in Conns : Leaving(d)' = Leaving(d)
    BY <2>1 DEF Leaving
  <2> QED
    BY <2>1, <2>2, <2>3, <2>4, <2>5
<1>10. CASE HubUnregister
  <2>1. /\ unregister \in Seq(Conns) /\ unregister # <<>> /\ unregister' = Tail(unregister)
        /\ clients' = clients \ {Head(unregister)}
        /\ UNCHANGED <<pc, register, cancelled>>
    BY <1>10 DEF HubUnregister
  <2>2. /\ Head(unregister) \in Conns /\ Leaving(Head(unregister))
        /\ \A d \in Conns : Leaving(d)' => Leaving(d)
    BY <2>1, QueuedTail, TailQueued DEF Leaving
  <2>4. \A d \in Conns : Leaving(d) => d = Head(unregister) \/ Leaving(d)'
    <3>1. ASSUME NEW d \in Conns
          PROVE  (\E i \in 1 .. Len(unregister) : unregister[i] = d)
                     => d = Head(unregister)
                        \/ \E i \in 1 .. Len(Tail(unregister)) : Tail(unregister)[i] = d
      BY <2>1, TailQueued
    <3>2. \A d \in Conns : Leaving(d)' <=> \E i \in 1 .. Len(Tail(unregister)) :
                                             Tail(unregister)[i] = d
      BY <2>1 DEF Leaving
    <3> QED
      BY <3>1, <3>2 DEF Leaving
  <2>3. (\A d \in Conns : Queued(d)' = Queued(d)) /\ Once' = Once
    BY <2>1 DEF Queued
  <2> QED
    BY <1>10, <2>1, <2>2, <2>3, <2>4 DEF HubUnregister
<1>11. CASE HubBroadcast
  BY <1>11, <1>q DEF HubBroadcast
<1>12. CASE HubDone
  BY <1>12, <1>q DEF HubDone
<1>13. CASE RootCancel \/ CloseCall \/ CloseReturn
  BY <1>13, <1>q DEF RootCancel, CloseCall, CloseReturn
<1>14. CASE UNCHANGED vars
  BY <1>14, <1>q DEF vars
<1> QED
  BY <1>1, <1>2, <1>3, <1>4, <1>5, <1>6, <1>7, <1>8, <1>9, <1>10, <1>11, <1>12,
     <1>13, <1>14
  DEF Next, ConnStep

\* Whatever the order in which the hub sees registration and unregistration, for
\* any number of connections and any capacities, a connection whose client left
\* is still going to be unregistered, and none registers twice (Register,
\* Unregister and the reader's defer).
THEOREM LeaversExpectedAlways == Spec => []LeaversExpected
<1>1. LeaverInv => LeaversExpected
  BY DEF LeaverInv
<1>2. HubInv => TypeOK /\ NotYetKnown
  BY DEF HubInv
<1> QED
  BY <1>1, <1>2, HubInvAlways, InitLeaverInv, LeaverStep, PTL DEF Spec

\* Once the hub has forgotten a connection it never takes it up again, and a
\* broadcast forgets every closed one (the three cases of Hub.run).
THEOREM StayForgottenAlways == Spec => StayForgotten
<1> DEFINE Step == \A c \in Conns :
         /\ pc[c] \notin {"none", "register"} /\ ~Queued(c) /\ c \notin clients
                => ~Queued(c)' /\ c \notin clients'
         /\ conn[c] = "closed" => conn'[c] = "closed"
         /\ HubBroadcast /\ conn[c] = "closed" => c \notin clients'
<1>1. ASSUME TypeOK, [Next]_vars PROVE Step
  <2> SUFFICES ASSUME NEW c \in Conns
               PROVE  /\ pc[c] \notin {"none", "register"} /\ ~Queued(c) /\ c \notin clients
                            => ~Queued(c)' /\ c \notin clients'
                      /\ conn[c] = "closed" => conn'[c] = "closed"
                      /\ HubBroadcast /\ conn[c] = "closed" => c \notin clients'
    OBVIOUS
  <2> USE <1>1 DEF TypeOK, Close, Goto, chanVars
  <2>1. HubBroadcast /\ conn[c] = "closed" => c \notin clients'
    BY DEF HubBroadcast
  <2>2. conn[c] = "closed" => conn'[c] = "closed"
    BY DEF Next, ConnStep, Upgrade, ClientLeaves, RegisterSend, RegisterDone, ReadFails,
       UnregisterSend, UnregisterDone, Broadcast, HubRegister, HubUnregister, HubBroadcast,
       HubDone, RootCancel, CloseCall, CloseReturn, vars
  <2>3. ASSUME pc[c] \notin {"none", "register"}, ~Queued(c), c \notin clients
        PROVE  ~Queued(c)' /\ c \notin clients'
    <3>1. ASSUME NEW d \in Conns, RegisterSend(d) PROVE ~Queued(c)' /\ c \notin clients'
      BY <3>1, <2>3, AppendQueued DEF RegisterSend, Queued
    <3>2. CASE HubRegister
      BY <3>2, <2>3, TailQueued DEF HubRegister, Queued
    <3>3. CASE register' = register /\ clients' \subseteq clients
      BY <3>3, <2>3 DEF Queued
    <3>4. \/ \E d \in Conns : RegisterSend(d)
          \/ HubRegister
          \/ register' = register /\ clients' \subseteq clients
      BY DEF Next, ConnStep, Upgrade, ClientLeaves, RegisterDone, ReadFails,
         UnregisterSend, UnregisterDone, Broadcast, HubUnregister, HubBroadcast,
         HubDone, RootCancel, CloseCall, CloseReturn, vars
    <3> QED
      BY <3>1, <3>2, <3>3, <3>4
  <2> QED
    BY <2>1, <2>2, <2>3
<1>2. [][Step]_vars <=> StayForgotten
  BY DEF StayForgotten
<1>3. HubInv => TypeOK
  BY DEF HubInv
<1> HIDE DEF Step
<1> QED
  BY <1>1, <1>2, <1>3, HubInvAlways, PTL DEF Spec
=============================================================================
