----------------------------- MODULE BacnetReload -----------------------------
(***************************************************************************)
(* The life of the BACnet driver: initialised and connected by the first   *)
(* read or write, watched by a monitor thread that notices changes of the  *)
(* configuration file, released and initialised anew by the first read or  *)
(* write after such a change.                                              *)
(*                                                                         *)
(* A step lies between two lock operations, joins or looks at the file.    *)
(* mutex_ of the driver, plc_mutex of the context and the mutex of         *)
(* g_hot_config are left out: the calls modelled take them only while they *)
(* hold g_plc_mutex.  What a call does after it has connected is in        *)
(* BacnetRead.                                                             *)
(***************************************************************************)
EXTENDS Integers

CONSTANTS
  Apps,               (* application threads                               *)
  Reloaders,          (* those that only ever ask for a reload; a thread   *)
                      (* that does both is like two that take turns        *)
  Nobody,             (* owner of a free mutex                             *)
  hot_config_enabled, (* the setting of that name                          *)
  MaxEdits            (* bound: how often the file is edited               *)

ASSUME ReloadAssumption ==
  /\ Nobody \notin Apps
  /\ Reloaders \subseteq Apps
  /\ hot_config_enabled \in BOOLEAN
  /\ MaxEdits \in Nat

VARIABLES
  initialized,        (* BacnetContext::initialized_                       *)
  connection_state,
  worker,             (* is the worker thread running?                     *)
  worker_stop,
  config,             (* the version of the file in force                  *)
  pending_reload,
  hot_config_mutex,   (* its owner                                         *)
  g_plc_mutex,        (* its owner                                         *)
  running,            (* g_hot_config.running                              *)
  last_mtime,
  monitor,            (* where the monitor thread is                       *)
  file,               (* the configuration file                            *)
  app,                (* where each application thread is                  *)
  calm                (* chosen once: see Calm conditions below            *)

driver  == <<initialized, connection_state, worker, worker_stop, config>>
watcher == <<running, last_mtime, monitor>>
locks   == <<hot_config_mutex, g_plc_mutex>>
vars    == <<driver, watcher, locks, pending_reload, file, app, calm>>

Defaults == -1          \* the configuration in force when there is no file
Versions == 0..MaxEdits
Files    == [exists: BOOLEAN, version: Versions, mtime: Versions]

(* "ended": the thread has returned and is not joined yet.                 *)
MonitorStates == {"none", "check", "flag", "ended"}
Reloading     == {"lock", "release", "join", "reset"}
Connecting    == {"init", "watch", "connect"}
PlcHolders    == {"release", "join", "reset"} \cup Connecting
AppStates     == {"idle", "flag", "recheck", "ensure"} \cup Reloading \cup Connecting

(* Every variable keeps its type; a mutex is held by the caller that is in *)
(* its critical section, and by nobody else: no path forgets to unlock.    *)
TypeOK ==
  /\ initialized \in BOOLEAN
  /\ connection_state \in {"IDLE", "CONNECTED", "DISCONNECTED"}
  /\ worker \in BOOLEAN /\ worker_stop \in BOOLEAN
  /\ config \in Versions \cup {Defaults}
  /\ pending_reload \in BOOLEAN
  /\ hot_config_mutex \in Apps \cup {Nobody}
  /\ g_plc_mutex \in Apps \cup {Nobody}
  /\ running \in BOOLEAN
  /\ last_mtime \in Versions
  /\ monitor \in MonitorStates
  /\ file \in Files
  /\ app \in [Apps -> AppStates]
  /\ calm \in BOOLEAN
  /\ \A a \in Apps :
       /\ hot_config_mutex = a <=> app[a] \in Reloading
       /\ g_plc_mutex = a <=> app[a] \in PlcHolders

Init ==
  /\ initialized = FALSE
  /\ connection_state = "IDLE"
  /\ worker = FALSE /\ worker_stop = FALSE
  /\ config = Defaults
  /\ pending_reload = FALSE
  /\ hot_config_mutex = Nobody /\ g_plc_mutex = Nobody
  /\ running = FALSE /\ last_mtime = 0 /\ monitor = "none"
  /\ file = [exists |-> TRUE, version |-> 0, mtime |-> 0]
  /\ app = [a \in Apps |-> "idle"]
  /\ calm \in BOOLEAN

-----------------------------------------------------------------------------
(***************************************************************************)
(* Calm conditions, under which every edit takes effect.  The file is      *)
(* always there, two edits never share a second, none falls between the    *)
(* moment it is read and the moment it is first watched, and the monitor   *)
(* reports no change while a release is under way.                         *)
(***************************************************************************)
EditIsCalm    == file'.mtime > file.mtime /\ \A a \in Apps : app[a] # "watch"
ReleaseIsCalm == monitor # "flag"
ReportIsCalm  == hot_config_mutex = Nobody

GoTo(a, pc) == app' = [app EXCEPT ![a] = pc]

(***************************************************************************)
(* plc_proto_read and plc_proto_write, up to the point where the driver is *)
(* connected.  pending_reload is first read without a lock.                *)
(***************************************************************************)
Call(a) ==
  /\ a \notin Reloaders
  /\ app[a] = "idle"
  /\ GoTo(a, IF initialized /\ pending_reload THEN "recheck" ELSE "ensure")
  /\ UNCHANGED <<driver, watcher, locks, pending_reload, file, calm>>

Recheck(a) ==
  /\ app[a] = "recheck"
  /\ hot_config_mutex = Nobody
  /\ calm => ReleaseIsCalm
  /\ IF pending_reload
       THEN /\ pending_reload' = FALSE
            /\ hot_config_mutex' = a
            /\ GoTo(a, "lock")
       ELSE /\ GoTo(a, "ensure")
            /\ UNCHANGED <<pending_reload, hot_config_mutex>>
  /\ UNCHANGED <<driver, watcher, g_plc_mutex, file, calm>>

(* Mutant: a caller that finds g_plc_mutex taken does not wait for it.     *)
LockPlc_GivesUp(a) ==
  /\ app[a] = "lock"
  /\ IF g_plc_mutex = Nobody
       THEN g_plc_mutex' = a /\ GoTo(a, "release") /\ UNCHANGED hot_config_mutex
       ELSE hot_config_mutex' = Nobody /\ GoTo(a, "ensure") /\ UNCHANGED g_plc_mutex
  /\ UNCHANGED <<driver, watcher, pending_reload, file, calm>>

LockPlc(a) ==
  /\ app[a] = "lock"
  /\ g_plc_mutex = Nobody
  /\ g_plc_mutex' = a
  /\ GoTo(a, "release")
  /\ UNCHANGED <<driver, watcher, hot_config_mutex, pending_reload, file, calm>>

Unlocked(a) == hot_config_mutex' = Nobody /\ g_plc_mutex' = Nobody /\ GoTo(a, "ensure")

(* Mutant: the monitor is told to stop and not waited for.                 *)
Release_NoJoin(a) ==
  /\ app[a] = "release"
  /\ initialized
  /\ running' = FALSE
  /\ GoTo(a, "reset")
  /\ UNCHANGED <<driver, last_mtime, monitor, locks, pending_reload, file, calm>>

(* BacnetDriver::release, up to the join of hot_config::stop.              *)
Release(a) ==
  /\ app[a] = "release"
  /\ initialized
  /\ running' = FALSE
  /\ GoTo(a, IF running THEN "join" ELSE "reset")
  /\ UNCHANGED <<driver, last_mtime, monitor, locks, pending_reload, file, calm>>

ReleaseNothing(a) ==
  /\ app[a] = "release"
  /\ ~initialized
  /\ Unlocked(a)
  /\ UNCHANGED <<driver, watcher, pending_reload, file, calm>>

Join(a) ==
  /\ app[a] = "join"
  /\ monitor \in {"none", "ended"}
  /\ monitor' = "none"
  /\ GoTo(a, "reset")
  /\ UNCHANGED <<driver, running, last_mtime, locks, pending_reload, file, calm>>

(* BacnetContext::reset stops the worker; connection_state stays.          *)
Reset(a) ==
  /\ app[a] = "reset"
  /\ worker' = FALSE
  /\ worker_stop' = (worker_stop \/ worker)
  /\ initialized' = FALSE
  /\ Unlocked(a)
  /\ UNCHANGED <<connection_state, config, watcher, pending_reload, file, calm>>

-----------------------------------------------------------------------------
(***************************************************************************)
(* ensure_init_and_connect_locked, under g_plc_mutex.                      *)
(***************************************************************************)
Ensure(a) ==
  /\ app[a] = "ensure"
  /\ g_plc_mutex = Nobody
  /\ IF initialized /\ connection_state = "CONNECTED"
       THEN GoTo(a, "idle") /\ UNCHANGED g_plc_mutex
       ELSE /\ g_plc_mutex' = a
            /\ GoTo(a, IF initialized THEN "connect" ELSE "init")
  /\ UNCHANGED <<driver, watcher, hot_config_mutex, pending_reload, file, calm>>

Fails(a) == g_plc_mutex' = Nobody /\ GoTo(a, "idle")

LoadConfig == config' = IF file.exists THEN file.version ELSE Defaults

(* Mutants: the state of the last connection stays; so does its stop flag. *)
Initialize_KeepsState(a) ==
  /\ app[a] = "init"
  /\ LoadConfig
  /\ worker_stop' = FALSE
  /\ initialized' = TRUE
  /\ GoTo(a, IF connection_state = "CONNECTED" THEN "idle" ELSE "watch")
  /\ g_plc_mutex' = IF connection_state = "CONNECTED" THEN Nobody ELSE g_plc_mutex
  /\ UNCHANGED <<connection_state, worker, watcher, hot_config_mutex, pending_reload, file,
                 calm>>

Initialize_KeepsStop(a) ==
  /\ app[a] = "init"
  /\ LoadConfig
  /\ connection_state' = "IDLE"
  /\ initialized' = TRUE
  /\ GoTo(a, "watch")
  /\ UNCHANGED <<worker, worker_stop, watcher, locks, pending_reload, file, calm>>

Initialize(a) ==
  /\ app[a] = "init"
  /\ LoadConfig
  /\ connection_state' = "IDLE"
  /\ worker_stop' = FALSE
  /\ initialized' = TRUE
  /\ GoTo(a, "watch")
  /\ UNCHANGED <<worker, watcher, locks, pending_reload, file, calm>>

(* The datalink does not come up: the next call tries again.               *)
InitializeFails(a) ==
  /\ app[a] = "init"
  /\ LoadConfig
  /\ Fails(a)
  /\ UNCHANGED <<initialized, connection_state, worker, worker_stop, watcher,
                 hot_config_mutex, pending_reload, file, calm>>

(* hot_config::init: the file as it is now is the baseline; without a file *)
(* there is no monitor.                                                    *)
Watch(a) ==
  /\ app[a] = "watch"
  /\ IF hot_config_enabled /\ file.exists
       THEN running' = TRUE /\ last_mtime' = file.mtime /\ monitor' = "check"
       ELSE UNCHANGED watcher
  /\ GoTo(a, "connect")
  /\ UNCHANGED <<driver, locks, pending_reload, file, calm>>

(* connect_device: the discovery ends early if worker_stop is set.         *)
Connect(a) ==
  /\ app[a] = "connect"
  /\ ~worker_stop
  /\ connection_state' = "CONNECTED"
  /\ worker' = TRUE
  /\ g_plc_mutex' = Nobody
  /\ GoTo(a, "idle")
  /\ UNCHANGED <<initialized, worker_stop, config, watcher, hot_config_mutex,
                 pending_reload, file, calm>>

ConnectFails(a) ==
  /\ app[a] = "connect"
  /\ connection_state' = "DISCONNECTED"
  /\ Fails(a)
  /\ UNCHANGED <<initialized, worker, worker_stop, config, watcher, hot_config_mutex,
                 pending_reload, file, calm>>

-----------------------------------------------------------------------------
(***************************************************************************)
(* bacnet_reload_config, called by the application.                        *)
(***************************************************************************)
CallReload(a) ==
  /\ a \in Reloaders
  /\ app[a] = "idle"
  /\ initialized
  /\ GoTo(a, "flag")
  /\ UNCHANGED <<driver, watcher, locks, pending_reload, file, calm>>

Flag(a) ==
  /\ app[a] = "flag"
  /\ hot_config_mutex = Nobody
  /\ pending_reload' = TRUE
  /\ GoTo(a, "idle")
  /\ UNCHANGED <<driver, watcher, locks, file, calm>>

(***************************************************************************)
(* monitor_loop, whose callback is bacnet_reload_config.                   *)
(***************************************************************************)
MonitorEnds ==
  /\ monitor = "check"
  /\ ~running \/ ~file.exists
  /\ monitor' = "ended"
  /\ UNCHANGED <<driver, running, last_mtime, locks, pending_reload, file, app, calm>>

MonitorDetects ==
  /\ monitor = "check"
  /\ running /\ file.exists
  /\ file.mtime # last_mtime
  /\ calm => ReportIsCalm
  /\ last_mtime' = file.mtime
  /\ monitor' = IF initialized THEN "flag" ELSE "check"
  /\ UNCHANGED <<driver, running, locks, pending_reload, file, app, calm>>

MonitorFlags ==
  /\ monitor = "flag"
  /\ hot_config_mutex = Nobody
  /\ pending_reload' = TRUE
  /\ monitor' = "check"
  /\ UNCHANGED <<driver, running, last_mtime, locks, file, app, calm>>

-----------------------------------------------------------------------------
(***************************************************************************)
(* The file: edited, perhaps within the second of the last edit; gone for  *)
(* a while, as when an editor replaces it.                                 *)
(***************************************************************************)
Edit ==
  /\ file.version < MaxEdits
  /\ \E t \in {file.mtime, file.mtime + 1} :
       file' = [exists |-> TRUE, version |-> file.version + 1, mtime |-> t]
  /\ calm => EditIsCalm
  /\ UNCHANGED <<driver, watcher, locks, pending_reload, app, calm>>

Vanish ==
  /\ file.exists
  /\ ~calm
  /\ file' = [file EXCEPT !.exists = FALSE]
  /\ UNCHANGED <<driver, watcher, locks, pending_reload, app, calm>>

-----------------------------------------------------------------------------
Locking(a) == Recheck(a) \/ LockPlc(a) \/ Ensure(a) \/ Flag(a)
Inside(a)  == Release(a) \/ ReleaseNothing(a) \/ Join(a) \/ Reset(a) \/ Watch(a)
Starting(a) == Initialize(a) \/ InitializeFails(a) \/ Connect(a) \/ ConnectFails(a)

AppNext(a)  == Call(a) \/ CallReload(a) \/ Locking(a) \/ Inside(a) \/ Starting(a)
MonitorNext == MonitorEnds \/ MonitorDetects \/ MonitorFlags

Next == (\E a \in Apps : AppNext(a)) \/ MonitorNext \/ Edit \/ Vanish

(***************************************************************************)
(* Applications read again and again, a thread inside a call runs on, a    *)
(* mutex that is free again and again is acquired in the end, the monitor  *)
(* looks again and again; nobody has to ask for a reload.  Of the network: the datalink comes up and the   *)
(* device answers if they are tried again and again.                       *)
(***************************************************************************)
Fairness ==
  /\ \A a \in Apps \ Reloaders :
       /\ SF_vars(Call(a) \/ Locking(a) \/ Inside(a))
       /\ SF_vars(Initialize(a)) /\ SF_vars(Connect(a))
  /\ SF_vars(MonitorNext)

Spec     == Init /\ [][Next]_vars
FairSpec == Spec /\ Fairness
-----------------------------------------------------------------------------
(* A monitor is started only when the last one has been joined: assigning  *)
(* to a std::thread that is still joinable ends the program, and a second  *)
(* monitor would consume the changes the first is to report.               *)
RestartIsClean ==
  \A a \in Apps : app[a] = "watch" => monitor = "none" /\ ~running

(* Release does not reset connection_state, only initialize does: a driver *)
(* in use never takes itself for connected with no worker to receive the   *)
(* replies, and the monitor never outlives the context it flags.           *)
ServedWhileConnected ==
  /\ initialized => (worker <=> connection_state = "CONNECTED")
  /\ monitor \in {"check", "flag"} => initialized

(* An edit that is not in force yet is known to somebody who will see to   *)
(* it: the monitor, the flag, or a caller that has taken the flag.         *)
CalmEditIsKnown ==
  (calm /\ hot_config_enabled /\ initialized /\ config # file.version) =>
    \/ monitor = "check" /\ file.mtime # last_mtime
    \/ monitor = "flag"
    \/ pending_reload
    \/ \E a \in Apps : app[a] \in Reloading

(* impl/bacnet/README.md:2226-2233: every edit takes effect by itself.     *)
CalmEditIsApplied ==
  (calm /\ hot_config_enabled /\ initialized /\ config # file.version)
    ~> config = file.version

(* A driver released for a reload is connected again, worker included.     *)
CalmDriverComesBack ==
  (calm /\ ~initialized) ~> (initialized /\ connection_state = "CONNECTED" /\ worker)

(* impl/bacnet/README.md:842 says the deferred reload keeps the monitor    *)
(* from being blocked.  The caller that reloads would have to wait for the *)
(* monitor while the monitor waits for the caller's mutex.                 *)
NoReloadDeadlock ==
  ~ \E a \in Apps :
      app[a] = "join" /\ hot_config_mutex = a /\ monitor = "flag"
=============================================================================
