---------------------------- MODULE MqttConnProofs ----------------------------
(***************************************************************************)
(* Proofs about MqttConn for any number of application threads, either     *)
(* API, any settings, calm or not.                                         *)
(***************************************************************************)
EXTENDS MqttConn, TLAPS

(* What a call leaves behind, for TypeOK.                                  *)
LEMMA ReturnsType ==
  ASSUME TypeOK, NEW a \in Apps, app[a].pc # "ensure",
         NEW ok \in BOOLEAN, ConnectReturns(a, ok)
  PROVE  /\ g_ctx_mutex' \in Apps \cup {Nobody}
         /\ app' \in [Apps -> AppStates]
         /\ \A b \in Apps :
              g_ctx_mutex' = b <=> (app'[b].pc = "ensure" \/ app'[b].from = "ensure")
  BY SettingsAssumption DEF TypeOK, ConnectReturns, Idle, AppStates

LEMMA GoType ==
  ASSUME TypeOK, NEW a \in Apps, NEW pc, [app[a] EXCEPT !.pc = pc] \in AppStates,
         app[a].pc # "ensure", pc # "ensure", GoTo(a, pc), UNCHANGED g_ctx_mutex
  PROVE  /\ app' \in [Apps -> AppStates]
         /\ \A b \in Apps :
              g_ctx_mutex' = b <=> (app'[b].pc = "ensure" \/ app'[b].from = "ensure")
  BY DEF TypeOK, GoTo, AppStates

LEMMA InitType == Init => TypeOK
  BY SettingsAssumption DEF Init, TypeOK, Statuses, Links, Callbacks, AppStates, Idle

LEMMA DialType == TypeOK /\ MQTTAsync_connect => link' \in Links
  BY DEF TypeOK, MQTTAsync_connect, Links

LEMMA AppType ==
  ASSUME TypeOK, NEW a \in Apps, AppNext(a)
  PROVE  TypeOK'
<1>1. CASE Enter(a)
  BY <1>1, SettingsAssumption DEF Enter, GoTo, TypeOK, AppStates
<1>2. CASE Ensure(a)
  BY <1>2, SettingsAssumption DEF Ensure, GoTo, TypeOK, AppStates
<1>3. CASE DriverCall(a)
  BY <1>3, GoType DEF DriverCall, TypeOK, AppStates
<1>4. CASE Connect(a)
  <2>1. CASE ConnectReturns(a, TRUE) \/ ConnectReturns(a, FALSE)
    BY <1>4, <2>1, ReturnsType DEF Connect, TypeOK
  <2>2. CASE GoTo(a, "dial") /\ UNCHANGED g_ctx_mutex
    BY <1>4, <2>2, GoType DEF Connect, TypeOK, AppStates
  <2> QED
    BY <1>4, <2>1, <2>2 DEF Connect
<1>5. CASE Dial(a)
  <2>1. CASE MQTTAsync_connect /\ GoTo(a, "mark") /\ UNCHANGED g_ctx_mutex
    BY <1>5, <2>1, GoType, DialType DEF Dial, TypeOK, AppStates
  <2>2. CASE ConnectReturns(a, FALSE) /\ UNCHANGED link
    BY <1>5, <2>2, ReturnsType DEF Dial, TypeOK
  <2> QED
    BY <1>5, <2>1, <2>2 DEF Dial
<1>6. CASE Mark(a)
  BY <1>6, ReturnsType DEF Mark, TypeOK, Statuses
<1>7. CASE Use(a)
  <2>1. app[a].from # "ensure" \/ g_ctx_mutex = a
    BY DEF TypeOK
  <2> QED
    BY <1>7, <2>1 DEF Use, TypeOK, AppStates, Idle
<1>8. CASE Disconnect(a)
  BY <1>8, GoType DEF Disconnect, TypeOK, AppStates
<1>9. CASE HangUp(a)
  BY <1>9, GoType DEF HangUp, TypeOK, AppStates, Links
<1>10. CASE MarkDown(a)
  BY <1>10, GoType DEF MarkDown, TypeOK, AppStates, Statuses
<1> QED
  BY <1>1, <1>2, <1>3, <1>4, <1>5, <1>6, <1>7, <1>8, <1>9, <1>10
  DEF AppNext, ProtoConnect, ProtoDisconnect

LEMMA StepType == TypeOK /\ [Next]_vars => TypeOK'
<1> SUFFICES ASSUME TypeOK, [Next]_vars PROVE TypeOK'
  OBVIOUS
<1>1. ASSUME NEW a \in Apps, AppNext(a) PROVE TypeOK'
  BY <1>1, AppType
<1>2. CASE LinkNext
  BY <1>2 DEF LinkNext, LinkUp, LinkRefused, LinkLost, LinkClosed, Report, TypeOK,
     Links, Callbacks
<1>3. CASE CallbackNext
  <2>1. CASE onConnectSuccess
    BY <2>1 DEF onConnectSuccess, TypeOK, Statuses, Callbacks
  <2>2. CASE onConnectFailure \/ onDisconnectSuccess \/ onDisconnectFailure
    BY <2>2 DEF onConnectFailure, onDisconnectSuccess, onDisconnectFailure, TypeOK,
       Statuses, Callbacks
  <2>3. CASE onConnectionLost
    BY <2>3 DEF onConnectionLost, TypeOK, Callbacks
  <2>4. CASE LostSet
    BY <2>4 DEF LostSet, TypeOK, Statuses, Callbacks
  <2>5. CASE Redial
    <3>1. link' \in Links
      BY <2>5, DialType DEF Redial, TypeOK
    <3> QED
      BY <2>5, <3>1 DEF Redial, TypeOK, Callbacks
  <2> QED
    BY <1>3, <2>1, <2>2, <2>3, <2>4, <2>5 DEF CallbackNext
<1>4. CASE UNCHANGED vars
  BY <1>4 DEF vars, TypeOK
<1> QED
  BY <1>1, <1>2, <1>3, <1>4 DEF Next

(* Type correctness; in particular every path out of                       *)
(* ensure_init_and_connect gives g_ctx_mutex back.                         *)
THEOREM TypeCorrect == Spec => []TypeOK
  BY InitType, StepType, PTL DEF Spec

-----------------------------------------------------------------------------
(***************************************************************************)
(* The inductive invariant: which link each callback finds, that a success *)
(* is reported only to a driver that does not think itself connected, and  *)
(* where the attempts stand.                                               *)
(***************************************************************************)
CallbackFinds ==
  /\ callback = "success" => link \in {"up", "disconnecting"} /\ connect_status # "CON_OK"
  /\ callback \notin {"none", "success"} => link \in {"down", "connecting"}

CountInv ==
  /\ link = "up" /\ callback = "none" => reconnect_attempts = 0
  /\ callback \in {"lost", "lostSet"} => reconnect_attempts = 0

ConnInv == OkMeansUp /\ CallbackFinds /\ CountInv

LEMMA InitConn == Init => ConnInv
  BY DEF Init, ConnInv, OkMeansUp, CallbackFinds, CountInv

(* What the applications do to the variables of ConnInv: they leave the    *)
(* callbacks and the count alone, never claim a connection, and take the   *)
(* link only from down to connecting and from up to disconnecting.         *)
LEMMA AppFrame ==
  ASSUME NEW a \in Apps, AppNext(a)
  PROVE  /\ UNCHANGED <<callback, reconnect_attempts>>
         /\ connect_status' = connect_status \/ connect_status' # "CON_OK"
         /\ \/ link' = link
            \/ link = "down" /\ link' = "connecting"
            \/ link = "up" /\ link' = "disconnecting"
  BY DEF AppNext, Enter, Ensure, DriverCall, ProtoConnect, Connect, Dial, Mark, Use,
     ProtoDisconnect, Disconnect, HangUp, MarkDown, MQTTAsync_connect

LEMMA StepConn == TypeOK /\ ConnInv /\ [Next]_vars => ConnInv'
<1> SUFFICES ASSUME TypeOK, ConnInv, [Next]_vars PROVE ConnInv'
  OBVIOUS
<1> USE DEF ConnInv, OkMeansUp, CallbackFinds, CountInv
<1>1. ASSUME NEW a \in Apps, AppNext(a) PROVE ConnInv'
  <2>1. /\ UNCHANGED <<callback, reconnect_attempts>>
        /\ connect_status' = connect_status \/ connect_status' # "CON_OK"
        /\ \/ link' = link
           \/ link = "down" /\ link' = "connecting"
           \/ link = "up" /\ link' = "disconnecting"
    BY <1>1, AppFrame
  <2> QED
    BY <2>1
<1>2. CASE LinkNext
  BY <1>2 DEF LinkNext, LinkUp, LinkRefused, LinkLost, LinkClosed, Report, Undisturbed
<1>3. CASE onConnectSuccess
  BY <1>3 DEF onConnectSuccess
<1>4. CASE onConnectFailure \/ onDisconnectSuccess \/ onDisconnectFailure
  BY <1>4 DEF onConnectFailure, onDisconnectSuccess, onDisconnectFailure
<1>5. CASE onConnectionLost
  BY <1>5 DEF onConnectionLost
<1>6. CASE LostSet
  BY <1>6 DEF LostSet
<1>7. CASE Redial
  BY <1>7 DEF Redial, MQTTAsync_connect
<1>8. CASE UNCHANGED vars
  BY <1>8 DEF vars
<1> QED
  BY <1>1, <1>2, <1>3, <1>4, <1>5, <1>6, <1>7, <1>8 DEF Next, CallbackNext

(* CON_OK is never stale for longer than the callback that takes it back,  *)
(* whatever race connect_status and the library run.                       *)
THEOREM OkMeansUpHolds == Spec => []OkMeansUp
<1>1. ConnInv => OkMeansUp
  BY DEF ConnInv
<1> QED
  BY <1>1, InitType, StepType, InitConn, StepConn, PTL DEF Spec

(* For every max_reconnect_attempts the branch that gives up is dead.      *)
THEOREM LimitDead == Spec => []LimitNeverReached
<1>1. ConnInv => LimitNeverReached
  BY SettingsAssumption DEF ConnInv, CountInv, LimitNeverReached, MayReconnect
<1> QED
  BY <1>1, InitType, StepType, InitConn, StepConn, PTL DEF Spec
-----------------------------------------------------------------------------
(***************************************************************************)
(* The calm executions.  A thread between its decision and the status it   *)
(* sets keeps the callbacks away, so what it decided on still holds: a     *)
(* thread that dials finds the link down or already dialled, a thread that *)
(* hangs up finds it up or already being closed.                           *)
(***************************************************************************)
ThreadsUndisturbed ==
  \A a \in Apps :
    /\ app[a].pc \in {"dial", "mark", "hangup", "markdown"} => callback = "none"
    /\ app[a].pc \in {"dial", "mark"} =>
         connect_status \in {"CON_IDLE", "DCON_OK", "CON_PENDING"} /\ link \in {"down", "connecting"}
    /\ app[a].pc = "mark" => link = "connecting"
    /\ app[a].pc \in {"hangup", "markdown"} =>
         connect_status \in {"CON_OK", "DCON_PENDING"} /\ link \in {"up", "disconnecting"}
    /\ app[a].pc = "markdown" => link = "disconnecting"

StatusFitsLink ==
  /\ callback = "none" /\ connect_status \in {"CON_IDLE", "DCON_OK"} =>
       link \in {"down", "connecting"}
  /\ callback = "success" => link = "up"
  /\ callback \notin {"none", "success"} => link = "down"
  /\ callback = "redial" => connect_status = "DCON_OK"

CalmInv == mode.calm => ThreadsUndisturbed /\ StatusFitsLink /\ PendingIsUnderWay

LEMMA InitCalm == Init => CalmInv
  BY DEF Init, Idle, CalmInv, ThreadsUndisturbed, StatusFitsLink, PendingIsUnderWay

(* A step that leaves status, link and callback alone and takes no thread  *)
(* into the critical stretch.                                              *)
LEMMA CalmFrame ==
  ASSUME CalmInv, UNCHANGED <<connect_status, link, callback, mode>>,
         \A a \in Apps :
           app'[a].pc \in {"dial", "mark", "hangup", "markdown"} => app'[a].pc = app[a].pc
  PROVE  CalmInv'
  BY DEF CalmInv, ThreadsUndisturbed, StatusFitsLink, PendingIsUnderWay

(* ConnectReturns takes its thread out of the critical stretch.            *)
LEMMA CalmReturns ==
  ASSUME TypeOK, NEW a \in Apps, NEW ok \in BOOLEAN, ConnectReturns(a, ok)
  PROVE  /\ app'[a].pc \in {"idle", "use"}
         /\ \A b \in Apps : b # a => app'[b] = app[b]
  BY DEF TypeOK, ConnectReturns, Idle

LEMMA CalmGoes ==
  ASSUME TypeOK, NEW a \in Apps, NEW pc, GoTo(a, pc)
  PROVE  app'[a].pc = pc /\ \A b \in Apps : b # a => app'[b] = app[b]
  BY DEF TypeOK, GoTo, AppStates

LEMMA AppCalm ==
  ASSUME TypeOK, ConnInv, CalmInv, NEW a \in Apps, AppNext(a)
  PROVE  CalmInv'
<1> DEFINE Inside == {"dial", "mark", "hangup", "markdown"}
<1>1. CASE Enter(a) \/ Ensure(a) \/ DriverCall(a) \/ Use(a)
  <2>1. app'[a].pc \notin Inside /\ \A b \in Apps : b # a => app'[b] = app[b]
    BY <1>1 DEF Enter, Ensure, DriverCall, Use, GoTo, TypeOK, AppStates, Idle
  <2> QED BY <1>1, <2>1, CalmFrame DEF Enter, Ensure, DriverCall, Use
<1>2. CASE Connect(a)
  <2>1. UNCHANGED <<connect_status, link, callback, mode>> /\ Quiet
    BY <1>2 DEF Connect
  <2>2. CASE ConnectReturns(a, TRUE) \/ ConnectReturns(a, FALSE)
    BY <2>1, <2>2, CalmReturns, CalmFrame
  <2>3. CASE connect_status \in {"CON_IDLE", "DCON_OK"} /\ GoTo(a, "dial")
    <3>1. app'[a].pc = "dial" /\ \A b \in Apps : b # a => app'[b] = app[b]
      BY <2>3, CalmGoes
    <3> QED
      BY <2>1, <2>3, <3>1
      DEF Quiet, CalmInv, ThreadsUndisturbed, StatusFitsLink, PendingIsUnderWay
  <2> QED BY <1>2, <2>2, <2>3 DEF Connect
<1>3. CASE Dial(a)
  <2>1. app[a].pc = "dial" /\ UNCHANGED <<connect_status, callback, mode>>
    BY <1>3 DEF Dial
  <2>2. CASE MQTTAsync_connect /\ GoTo(a, "mark")
    <3>1. app'[a].pc = "mark" /\ \A b \in Apps : b # a => app'[b] = app[b]
      BY <2>2, CalmGoes
    <3> QED
      BY <2>1, <2>2, <3>1 DEF MQTTAsync_connect, CalmInv, ThreadsUndisturbed,
         StatusFitsLink, PendingIsUnderWay
  <2>3. CASE ConnectReturns(a, FALSE) /\ UNCHANGED link
    BY <2>1, <2>3, CalmReturns, CalmFrame
  <2> QED BY <1>3, <2>2, <2>3 DEF Dial
<1>4. CASE Mark(a)
  <2>1. /\ app[a].pc = "mark" /\ connect_status' = "CON_PENDING"
        /\ UNCHANGED <<callback, link, mode>>
    BY <1>4 DEF Mark
  <2>2. app'[a].pc \in {"idle", "use"} /\ \A b \in Apps : b # a => app'[b] = app[b]
    BY <1>4, CalmReturns DEF Mark
  <2> QED
    BY <2>1, <2>2 DEF CalmInv, ThreadsUndisturbed, StatusFitsLink, PendingIsUnderWay
<1>5. CASE Disconnect(a)
  <2>1. UNCHANGED <<connect_status, link, callback, mode>> /\ Quiet
    BY <1>5 DEF Disconnect
  <2>2. CASE connect_status = "CON_OK"
    <3>1. app'[a].pc = "hangup" /\ \A b \in Apps : b # a => app'[b] = app[b]
      BY <1>5, <2>2, CalmGoes DEF Disconnect
    <3> QED
      BY <2>1, <2>2, <3>1 DEF Quiet, CalmInv, ThreadsUndisturbed, StatusFitsLink,
         PendingIsUnderWay, ConnInv, OkMeansUp
  <2>3. CASE connect_status # "CON_OK"
    <3>1. app'[a].pc = "idle" /\ \A b \in Apps : b # a => app'[b] = app[b]
      BY <1>5, <2>3, CalmGoes DEF Disconnect
    <3> QED BY <2>1, <3>1, CalmFrame
  <2> QED BY <2>2, <2>3
<1>6. CASE HangUp(a)
  <2>1. app[a].pc = "hangup" /\ UNCHANGED <<connect_status, callback, mode>>
    BY <1>6 DEF HangUp
  <2>2. CASE link = "up" /\ link' = "disconnecting" /\ GoTo(a, "markdown")
    <3>1. app'[a].pc = "markdown" /\ \A b \in Apps : b # a => app'[b] = app[b]
      BY <2>2, CalmGoes
    <3> QED
      BY <2>1, <2>2, <3>1
      DEF CalmInv, ThreadsUndisturbed, StatusFitsLink, PendingIsUnderWay
  <2>3. CASE UNCHANGED link /\ GoTo(a, "idle")
    <3>1. app'[a].pc = "idle" /\ \A b \in Apps : b # a => app'[b] = app[b]
      BY <2>3, CalmGoes
    <3> QED BY <2>1, <2>3, <3>1, CalmFrame
  <2> QED BY <1>6, <2>2, <2>3 DEF HangUp
<1>7. CASE MarkDown(a)
  <2>1. /\ app[a].pc = "markdown" /\ connect_status' = "DCON_PENDING"
        /\ UNCHANGED <<callback, link, mode>>
    BY <1>7 DEF MarkDown
  <2>2. app'[a].pc = "idle" /\ \A b \in Apps : b # a => app'[b] = app[b]
    BY <1>7, CalmGoes DEF MarkDown
  <2> QED
    BY <2>1, <2>2 DEF CalmInv, ThreadsUndisturbed, StatusFitsLink, PendingIsUnderWay
<1> QED
  BY <1>1, <1>2, <1>3, <1>4, <1>5, <1>6, <1>7 DEF AppNext, ProtoConnect, ProtoDisconnect

LEMMA StepCalm == TypeOK /\ ConnInv /\ CalmInv /\ [Next]_vars => CalmInv'
<1> SUFFICES ASSUME TypeOK, ConnInv, CalmInv, [Next]_vars PROVE CalmInv'
  OBVIOUS
<1>1. ASSUME NEW a \in Apps, AppNext(a) PROVE CalmInv'
  BY <1>1, AppCalm
<1>2. CASE UNCHANGED vars
  BY <1>2, CalmFrame DEF vars
<1> USE DEF CalmInv, ThreadsUndisturbed, StatusFitsLink, PendingIsUnderWay
<1>3. CASE LinkNext
  <2>1. link \in Links /\ connect_status \in Statuses
    BY DEF TypeOK
  <2> QED
    BY <1>3, <2>1 DEF LinkNext, LinkUp, LinkRefused, LinkLost, LinkClosed, Report,
       Undisturbed, Links, Statuses
<1>4. CASE onConnectSuccess
  BY <1>4 DEF onConnectSuccess
<1>5. CASE onConnectFailure \/ onDisconnectSuccess \/ onDisconnectFailure
  BY <1>5 DEF onConnectFailure, onDisconnectSuccess, onDisconnectFailure
<1>6. CASE onConnectionLost
  BY <1>6 DEF onConnectionLost
<1>7. CASE LostSet
  BY <1>7 DEF LostSet
<1>8. CASE Redial
  BY <1>8 DEF Redial, MQTTAsync_connect
<1> QED
  BY <1>1, <1>2, <1>3, <1>4, <1>5, <1>6, <1>7, <1>8 DEF Next, CallbackNext

(* As long as no call of the driver overlaps a callback, "pending" always  *)
(* has an outcome of the library to come, for any number of threads.       *)
THEOREM CalmPendingHolds == Spec => []CalmPendingIsUnderWay
<1>1. CalmInv => CalmPendingIsUnderWay
  BY DEF CalmInv, CalmPendingIsUnderWay
<1> QED
  BY <1>1, InitType, StepType, InitConn, StepConn, InitCalm, StepCalm, PTL DEF Spec
=============================================================================
