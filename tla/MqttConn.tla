------------------------------- MODULE MqttConn -------------------------------
(***************************************************************************)
(* The MQTT driver's connection state machine: application threads that    *)
(* connect on demand, the library's callback thread that reports what      *)
(* became of it, and the reconnection after a loss.                        *)
(*                                                                         *)
(* connect_status is read and written under state_mutex, one access at a   *)
(* time: every decision is made on a status that may have changed when the *)
(* decision is carried out, and every status is set after the library call *)
(* it describes.  Each access is a step.  operation_status is left out:    *)
(* nothing in the repository reads it.                                     *)
(***************************************************************************)
EXTENDS Naturals, FiniteSets

CONSTANTS
  Apps,                   (* application threads                           *)
  Nobody,                 (* owner of a free mutex                         *)
  enable_auto_reconnect,  (* the setting of that name                      *)
  max_reconnect_attempts  (* the setting of that name; 0 means no limit    *)

ASSUME SettingsAssumption ==
  /\ Nobody \notin Apps
  /\ enable_auto_reconnect \in BOOLEAN
  /\ max_reconnect_attempts \in Nat

VARIABLES
  connect_status,
  reconnect_attempts,
  g_ctx_mutex,            (* its owner                                     *)
  app,                    (* where each application thread is              *)
  callback,               (* where the library's callback thread is        *)
  link,                   (* the library's connection (external)           *)
  mode                    (* chosen once: the API in use, and whether the  *)
                          (* execution is calm: no call of proto_connect   *)
                          (* or proto_disconnect overlaps a callback       *)

vars == <<connect_status, reconnect_attempts, g_ctx_mutex, app, callback, link, mode>>

Statuses  == {"CON_OK", "CON_IDLE", "CON_PENDING", "DCON_OK", "DCON_PENDING"}
Links     == {"down", "connecting", "up", "disconnecting"}
Callbacks == {"none", "success", "failure", "lost", "lostSet", "redial",
              "closed", "closeFailed"}
AppStates ==
  [pc: {"idle", "ensure", "use", "disconnect", "hangup", "markdown"}, from: {"call"}]
  \cup [pc: {"connect", "dial", "mark"}, from: {"call", "ensure", "use"}]

(* Only proto_connect has a caller to return to; g_ctx_mutex is held by the   *)
(* thread that is in ensure_init_and_connect, and by nobody once it left.  *)
TypeOK ==
  /\ connect_status \in Statuses
  /\ reconnect_attempts \in Nat
  /\ g_ctx_mutex \in Apps \cup {Nobody}
  /\ app \in [Apps -> AppStates]
  /\ callback \in Callbacks
  /\ link \in Links
  /\ mode \in [api: {"entry", "driver"}, calm: BOOLEAN]
  /\ \A a \in Apps :
       g_ctx_mutex = a <=> (app[a].pc = "ensure" \/ app[a].from = "ensure")

Idle == [pc |-> "idle", from |-> "call"]

Init ==
  /\ connect_status = "CON_IDLE"
  /\ reconnect_attempts = 0
  /\ g_ctx_mutex = Nobody
  /\ app = [a \in Apps |-> Idle]
  /\ callback = "none"
  /\ link = "down"
  /\ mode \in [api: {"entry", "driver"}, calm: BOOLEAN]

-----------------------------------------------------------------------------
GoTo(a, pc) == app' = [app EXCEPT ![a].pc = pc]

Quiet == mode.calm => callback = "none"

(* The library takes a connect request unless it declines; a request while *)
(* it is connecting, connected or disconnecting is absorbed unanswered.    *)
MQTTAsync_connect == link' = IF link = "down" THEN "connecting" ELSE link

(* plc_proto_read and plc_proto_write: ensure_init_and_connect under       *)
(* g_ctx_mutex, then mqtt_proto_read or mqtt_proto_write without it.       *)
Enter(a) ==
  /\ mode.api = "entry"
  /\ app[a].pc = "idle"
  /\ g_ctx_mutex = Nobody
  /\ g_ctx_mutex' = a
  /\ GoTo(a, "ensure")
  /\ UNCHANGED <<connect_status, reconnect_attempts, callback, link, mode>>

Ensure(a) ==
  /\ app[a].pc = "ensure"
  /\ IF connect_status = "CON_OK"
       THEN /\ g_ctx_mutex' = Nobody
            /\ GoTo(a, "use")
       ELSE /\ app' = [app EXCEPT ![a] = [pc |-> "connect", from |-> "ensure"]]
            /\ UNCHANGED g_ctx_mutex
  /\ UNCHANGED <<connect_status, reconnect_attempts, callback, link, mode>>

(* A program with a context of its own calls the driver API directly.      *)
DriverCall(a) ==
  /\ mode.api = "driver"
  /\ app[a].pc = "idle"
  /\ \E pc \in {"connect", "use", "disconnect"} : GoTo(a, pc)
  /\ UNCHANGED <<connect_status, reconnect_attempts, g_ctx_mutex, callback, link, mode>>

(* proto_connect returns: to ensure_init_and_connect, which goes on to the *)
(* operation if all went well, or to a caller that returns.                *)
ConnectReturns(a, ok) ==
  /\ app' = [app EXCEPT ![a] =
               IF ok /\ app[a].from = "ensure" THEN [Idle EXCEPT !.pc = "use"] ELSE Idle]
  /\ g_ctx_mutex' = IF app[a].from = "ensure" THEN Nobody ELSE g_ctx_mutex

Connect(a) ==
  /\ app[a].pc = "connect"
  /\ Quiet
  /\ \/ /\ connect_status \in {"CON_OK", "CON_PENDING"}
        /\ ConnectReturns(a, TRUE)
     \/ /\ connect_status = "DCON_PENDING"
        /\ ConnectReturns(a, FALSE)
     \/ /\ connect_status \in {"CON_IDLE", "DCON_OK"}
        /\ GoTo(a, "dial")
        /\ UNCHANGED g_ctx_mutex
  /\ UNCHANGED <<connect_status, reconnect_attempts, callback, link, mode>>

Dial(a) ==
  /\ app[a].pc = "dial"
  /\ \/ /\ MQTTAsync_connect
        /\ GoTo(a, "mark")
        /\ UNCHANGED g_ctx_mutex
     \/ /\ ConnectReturns(a, FALSE)
        /\ UNCHANGED link
  /\ UNCHANGED <<connect_status, reconnect_attempts, callback, mode>>

Mark(a) ==
  /\ app[a].pc = "mark"
  /\ connect_status' = "CON_PENDING"
  /\ ConnectReturns(a, TRUE)
  /\ UNCHANGED <<reconnect_attempts, callback, link, mode>>

(* The operation itself changes nothing here; a dropped connection is      *)
(* dialled again, without g_ctx_mutex, if the setting says so.             *)
Use(a) ==
  /\ app[a].pc = "use"
  /\ app' = [app EXCEPT ![a] =
               IF enable_auto_reconnect /\ connect_status = "DCON_OK"
                 THEN [pc |-> "connect", from |-> "use"] ELSE Idle]
  /\ UNCHANGED <<connect_status, reconnect_attempts, g_ctx_mutex, callback, link, mode>>

(* proto_disconnect.                                                       *)
Disconnect(a) ==
  /\ app[a].pc = "disconnect"
  /\ Quiet
  /\ GoTo(a, IF connect_status = "CON_OK" THEN "hangup" ELSE "idle")
  /\ UNCHANGED <<connect_status, reconnect_attempts, g_ctx_mutex, callback, link, mode>>

HangUp(a) ==
  /\ app[a].pc = "hangup"
  /\ \/ link = "up" /\ link' = "disconnecting" /\ GoTo(a, "markdown")
     \/ UNCHANGED link /\ GoTo(a, "idle")
  /\ UNCHANGED <<connect_status, reconnect_attempts, g_ctx_mutex, callback, mode>>

MarkDown(a) ==
  /\ app[a].pc = "markdown"
  /\ connect_status' = "DCON_PENDING"
  /\ GoTo(a, "idle")
  /\ UNCHANGED <<reconnect_attempts, g_ctx_mutex, callback, link, mode>>

-----------------------------------------------------------------------------
(***************************************************************************)
(* The library (external): it changes the link and runs one callback at a  *)
(* time.                                                                   *)
(***************************************************************************)
Undisturbed ==
  /\ callback = "none"
  /\ mode.calm => \A a \in Apps : app[a].pc \notin {"dial", "mark", "hangup", "markdown"}

Report(from, to, reports) ==
  /\ Undisturbed
  /\ link = from /\ link' = to
  /\ callback' \in reports
  /\ UNCHANGED <<connect_status, reconnect_attempts, g_ctx_mutex, app, mode>>

LinkUp      == Report("connecting", "up", {"success"})
LinkRefused == Report("connecting", "down", {"failure"})
LinkLost    == Report("up", "down", {"lost"})
LinkClosed  == Report("disconnecting", "down", {"closed", "closeFailed"})

(* Mutant: the attempts are not counted from zero again.                   *)
onConnectSuccess_KeepsCount ==
  /\ callback = "success"
  /\ connect_status' = "CON_OK"
  /\ callback' = "none"
  /\ UNCHANGED <<reconnect_attempts, g_ctx_mutex, app, link, mode>>

(* The test and the assignment are one step here: what a thread writes     *)
(* between them is overwritten, as if it had been written before.          *)
onConnectSuccess ==
  /\ callback = "success"
  /\ connect_status' = "CON_OK"
  /\ reconnect_attempts' = IF connect_status # "CON_OK" THEN 0 ELSE reconnect_attempts
  /\ callback' = "none"
  /\ UNCHANGED <<g_ctx_mutex, app, link, mode>>

(* Mutant: the failure is not noted.                                       *)
onConnectFailure_Unnoted ==
  /\ callback = "failure"
  /\ callback' = "none"
  /\ UNCHANGED <<connect_status, reconnect_attempts, g_ctx_mutex, app, link, mode>>

onConnectFailure ==
  /\ callback = "failure"
  /\ connect_status' = "DCON_OK"
  /\ callback' = "none"
  /\ UNCHANGED <<reconnect_attempts, g_ctx_mutex, app, link, mode>>

(* Mutant: only a connection being made can be lost.                       *)
onConnectionLost_OnlyPending ==
  /\ callback = "lost"
  /\ callback' = IF connect_status = "CON_PENDING" THEN "lostSet" ELSE "none"
  /\ UNCHANGED <<connect_status, reconnect_attempts, g_ctx_mutex, app, link, mode>>

onConnectionLost ==
  /\ callback = "lost"
  /\ callback' = IF connect_status \in {"CON_OK", "CON_PENDING"} THEN "lostSet" ELSE "none"
  /\ UNCHANGED <<connect_status, reconnect_attempts, g_ctx_mutex, app, link, mode>>

MayReconnect ==
  max_reconnect_attempts = 0 \/ reconnect_attempts < max_reconnect_attempts

LostSet ==
  /\ callback = "lostSet"
  /\ connect_status' = "DCON_OK"
  /\ IF enable_auto_reconnect /\ MayReconnect
       THEN reconnect_attempts' = reconnect_attempts + 1 /\ callback' = "redial"
       ELSE UNCHANGED reconnect_attempts /\ callback' = "none"
  /\ UNCHANGED <<g_ctx_mutex, app, link, mode>>

Redial ==
  /\ callback = "redial"
  /\ callback' = "none"
  /\ MQTTAsync_connect \/ UNCHANGED link
  /\ UNCHANGED <<connect_status, reconnect_attempts, g_ctx_mutex, app, mode>>

onDisconnectSuccess ==
  /\ callback = "closed"
  /\ connect_status' = IF connect_status \in {"CON_OK", "DCON_PENDING"}
                         THEN "DCON_OK" ELSE connect_status
  /\ callback' = "none"
  /\ UNCHANGED <<reconnect_attempts, g_ctx_mutex, app, link, mode>>

onDisconnectFailure ==
  /\ callback = "closeFailed"
  /\ connect_status' = "DCON_OK"
  /\ callback' = "none"
  /\ UNCHANGED <<reconnect_attempts, g_ctx_mutex, app, link, mode>>

-----------------------------------------------------------------------------
ProtoConnect(a)    == Connect(a) \/ Dial(a) \/ Mark(a)
ProtoDisconnect(a) == Disconnect(a) \/ HangUp(a) \/ MarkDown(a)
AppNext(a) ==
  \/ Enter(a) \/ Ensure(a) \/ DriverCall(a)
  \/ ProtoConnect(a) \/ Use(a) \/ ProtoDisconnect(a)

LinkNext == LinkUp \/ LinkRefused \/ LinkLost \/ LinkClosed

CallbackNext ==
  \/ onConnectSuccess \/ onConnectFailure
  \/ onConnectionLost \/ LostSet \/ Redial
  \/ onDisconnectSuccess \/ onDisconnectFailure

Next == (\E a \in Apps : AppNext(a)) \/ LinkNext \/ CallbackNext

(* A thread inside a call runs on, callbacks end, and the library reports  *)
(* the outcome of every connect and disconnect (both have a timeout).      *)
Fairness ==
  /\ \A a \in Apps : WF_vars(Ensure(a) \/ ProtoConnect(a) \/ Use(a) \/ ProtoDisconnect(a))
  /\ WF_vars(CallbackNext)
  /\ WF_vars(LinkUp \/ LinkRefused) /\ WF_vars(LinkClosed)

Spec     == Init /\ [][Next]_vars
FairSpec == Spec /\ Fairness
-----------------------------------------------------------------------------
(* CON_OK is never an illusion: while it stands the library is connected,  *)
(* or the callback that will take it back is already running.              *)
OkMeansUp ==
  connect_status = "CON_OK" =>
    \/ link \in {"up", "disconnecting"}
    \/ callback \in {"lost", "lostSet", "closed", "closeFailed"}

(* A connection that stands counts its losses from zero, so the branch of  *)
(* onConnectionLost for "maximum reached" is never taken: a loss makes one *)
(* attempt, whatever max_reconnect_attempts allows.                        *)
LimitNeverReached ==
  /\ link = "up" /\ callback = "none" => reconnect_attempts = 0
  /\ callback \in {"lost", "lostSet"} => MayReconnect

(* proto_mqtt.h:32 and 34 describe CON_PENDING and DCON_PENDING as being   *)
(* under way: while one stands, the library will report an outcome.        *)
PendingIsUnderWay ==
  /\ connect_status = "CON_PENDING" =>
       link = "connecting" \/ callback \in {"success", "failure"}
  /\ connect_status = "DCON_PENDING" =>
       link = "disconnecting" \/ callback \in {"closed", "closeFailed"}

(* It holds as long as no call of the driver overlaps a callback.          *)
CalmPendingIsUnderWay == mode.calm => PendingIsUnderWay

(* Then a driver that connects or disconnects is done with it in the end,  *)
(* one way or the other: no application is told "pending" for ever.        *)
CalmPendingEnds ==
  mode.calm /\ connect_status \in {"CON_PENDING", "DCON_PENDING"}
    ~> connect_status \in {"CON_OK", "DCON_OK"}
=============================================================================
