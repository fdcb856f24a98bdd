------------------------------- MODULE MqttEntry -------------------------------
(***************************************************************************)
(* The life of the context of the MQTT entry: created by the first call of *)
(* plc_proto_read or plc_proto_write, released and created anew by the     *)
(* monitor thread when the configuration file changes, used by operations  *)
(* that no longer hold the mutex it was created under.                     *)
(*                                                                         *)
(* A step is what a thread does between two looks at something it shares.  *)
(* What becomes of a connection is in MqttConn, of a message in MqttRing;  *)
(* the library's callbacks, whose context may be released as well, are     *)
(* left out.                                                               *)
(***************************************************************************)
EXTENDS Integers

CONSTANTS
  Apps,     (* application threads                                         *)
  Nobody,   (* owner of a free mutex                                       *)
  MaxEdits, (* bound: how often the file is edited                         *)
  MaxStops  (* bound: how often the program calls hot_config_stop          *)

(* A monitor is started only while running is 0, and sets it: its number   *)
(* is how often hot_config_stop was called before.                         *)
Monitors == 0..MaxStops

ASSUME EntryAssumption ==
  /\ MaxEdits \in Nat /\ MaxStops \in Nat
  /\ Apps \cap Monitors = {}
  /\ Nobody \notin Apps \cup Monitors

VARIABLES
  g_inited,
  userdata,    (* does g_mqtt_ctx point to a context?                      *)
  contexts,    (* how many contexts are allocated                          *)
  config,      (* the version of the file the context was created from     *)
  g_ctx_mutex, (* its owner                                                *)
  running,     (* g_hot_config.running                                     *)
  last_mtime,
  monitor,     (* where each monitor thread is                             *)
  stops,       (* calls of hot_config_stop so far                          *)
  file,        (* the configuration file                                   *)
  app,         (* where each application thread is                         *)
  stale,       (* the operations that use a released context               *)
  calm         (* chosen once: see below                                   *)

context == <<g_inited, userdata, contexts, config, stale>>
watcher == <<running, last_mtime, monitor>>
outside == <<stops, file, calm>>
vars    == <<context, g_ctx_mutex, watcher, app, outside>>

(* Time 0 is older than any file: the memset of hot_config_init writes it. *)
Versions == 0..MaxEdits
Times    == 0..(MaxEdits + 1)
Files    == [exists: BOOLEAN, version: Versions, mtime: Times]

Ensuring      == {"init", "watch", "connect"}
AppStates     == {"idle", "fetch", "use"} \cup Ensuring
MonitorStates == {"none", "start", "check", "changed", "reload", "reinit", "ended"}

(* Every variable keeps its type; the mutex is held by the thread inside   *)
(* ensure_init_and_connect or on_config_changed, and by nobody else.       *)
TypeOK ==
  /\ g_inited \in BOOLEAN /\ userdata \in BOOLEAN
  /\ contexts \in Nat
  /\ config \in Versions
  /\ g_ctx_mutex \in Apps \cup Monitors \cup {Nobody}
  /\ running \in BOOLEAN
  /\ last_mtime \in Times
  /\ monitor \in [Monitors -> MonitorStates]
  /\ stops \in Monitors
  /\ file \in Files
  /\ app \in [Apps -> AppStates]
  /\ stale \subseteq {a \in Apps : app[a] = "use"}
  /\ calm \in BOOLEAN
  /\ \A a \in Apps : g_ctx_mutex = a <=> app[a] \in Ensuring
  /\ \A m \in Monitors : g_ctx_mutex = m <=> monitor[m] = "reinit"

Init ==
  /\ g_inited = FALSE /\ userdata = FALSE /\ contexts = 0
  /\ config = 0
  /\ g_ctx_mutex = Nobody
  /\ running = FALSE /\ last_mtime = 0
  /\ monitor = [m \in Monitors |-> "none"]
  /\ stops = 0
  /\ file = [exists |-> TRUE, version |-> 0, mtime |-> 1]
  /\ app = [a \in Apps |-> "idle"]
  /\ stale = {}
  /\ calm \in BOOLEAN

-----------------------------------------------------------------------------
GoTo(a, pc) == app' = [app EXCEPT ![a] = pc]

Unlock == g_ctx_mutex' = Nobody

(* Calm: the file is always there, no two edits share a second, none falls *)
(* between the reading of the file and the first look of the monitor, and  *)
(* the program does not stop the monitor.                                  *)
EditIsCalm ==
  /\ file'.mtime > file.mtime
  /\ \A a \in Apps : app[a] # "watch"
  /\ \A m \in Monitors : monitor[m] # "start"

(* load_mqtt_config_from_yaml reads the whole file anew, over the defaults. *)
LoadConfig == file.exists /\ config' = file.version

(* proto_driver_init: the file is read and a context created, or one of    *)
(* the two fails (the file is missing, does not parse or lacks a field,    *)
(* the client is not created) and g_mqtt_ctx is left without a context.    *)
DriverInit ==
  /\ LoadConfig
  /\ g_inited' = TRUE /\ userdata' = TRUE /\ contexts' = contexts + 1
  /\ UNCHANGED stale

(* proto_driver_release of the context that is there: the operations still *)
(* using it go on with what has been freed.                                *)
DriverRelease ==
  /\ userdata' = FALSE /\ contexts' = contexts - 1
  /\ stale' = stale \cup {a \in Apps : app[a] = "use"}

-----------------------------------------------------------------------------
(***************************************************************************)
(* plc_proto_read and plc_proto_write.                                     *)
(***************************************************************************)
Enter(a) ==
  /\ app[a] = "idle"
  /\ g_ctx_mutex = Nobody
  /\ g_ctx_mutex' = a
  /\ GoTo(a, IF g_inited THEN "connect" ELSE "init")
  /\ UNCHANGED <<context, watcher, outside>>

(* Mutant: every initialisation starts a monitor.                          *)
Initialize_Watches(a) ==
  /\ app[a] = "init"
  /\ DriverInit
  /\ GoTo(a, "watch")
  /\ UNCHANGED <<g_ctx_mutex, watcher, outside>>

Initialize(a) ==
  /\ app[a] = "init"
  /\ DriverInit
  /\ GoTo(a, IF running THEN "connect" ELSE "watch")
  /\ UNCHANGED <<g_ctx_mutex, watcher, outside>>

InitializeFails(a) ==
  /\ app[a] = "init"
  /\ Unlock
  /\ GoTo(a, "idle")
  /\ UNCHANGED <<context, watcher, outside>>

(* hot_config_init sets running before it can fail: without a file there   *)
(* is no monitor, and there never will be one.  It clears the record of a  *)
(* monitor that was stopped and may still run; that this one may then end  *)
(* is MonitorEnds, that it may skip one callback is left out.              *)
Watch(a) ==
  /\ app[a] = "watch"
  /\ running' = TRUE /\ last_mtime' = 0
  /\ monitor' = IF file.exists THEN [monitor EXCEPT ![stops] = "start"] ELSE monitor
  /\ GoTo(a, "connect")
  /\ UNCHANGED <<context, g_ctx_mutex, outside>>

(* The rest of ensure_init_and_connect; proto_connect may fail.            *)
Connect(a) ==
  /\ app[a] = "connect"
  /\ \E ok \in BOOLEAN : GoTo(a, IF ok /\ userdata THEN "fetch" ELSE "idle")
  /\ Unlock
  /\ UNCHANGED <<context, watcher, outside>>

(* mqtt_proto_read and mqtt_proto_write, without the mutex.  A pointer     *)
(* fetched while the release is under way is as one fetched just before.   *)
Fetch(a) ==
  /\ app[a] = "fetch"
  /\ GoTo(a, IF userdata THEN "use" ELSE "idle")
  /\ UNCHANGED <<context, g_ctx_mutex, watcher, outside>>

Use(a) ==
  /\ app[a] = "use"
  /\ stale' = stale \ {a}
  /\ GoTo(a, "idle")
  /\ UNCHANGED <<g_inited, userdata, contexts, config, g_ctx_mutex, watcher, outside>>

-----------------------------------------------------------------------------
(***************************************************************************)
(* hot_config_monitor_thread.                                              *)
(***************************************************************************)
MonitorTo(m, pc) == monitor' = [monitor EXCEPT ![m] = pc]

(* Mutant: the monitor starts from the cleared record.                     *)
Baseline_Forgotten(m) ==
  /\ monitor[m] = "start"
  /\ MonitorTo(m, IF file.exists THEN "check" ELSE "ended")
  /\ UNCHANGED <<context, g_ctx_mutex, running, last_mtime, app, outside>>

Baseline(m) ==
  /\ monitor[m] = "start"
  /\ IF file.exists
       THEN last_mtime' = file.mtime /\ MonitorTo(m, "check")
       ELSE UNCHANGED last_mtime /\ MonitorTo(m, "ended")
  /\ UNCHANGED <<context, g_ctx_mutex, running, app, outside>>

MonitorEnds(m) ==
  /\ \/ monitor[m] = "check" /\ (~running \/ ~file.exists)
     \/ monitor[m] = "changed" /\ ~file.exists
  /\ MonitorTo(m, "ended")
  /\ UNCHANGED <<context, g_ctx_mutex, running, last_mtime, app, outside>>

Detect(m) ==
  /\ monitor[m] = "check"
  /\ running /\ file.exists
  /\ file.mtime # last_mtime
  /\ last_mtime' = file.mtime
  /\ MonitorTo(m, "changed")
  /\ UNCHANGED <<context, g_ctx_mutex, running, app, outside>>

Confirm(m) ==
  /\ monitor[m] = "changed"
  /\ file.exists
  /\ MonitorTo(m, "reload")
  /\ UNCHANGED <<context, g_ctx_mutex, running, last_mtime, app, outside>>

(* Mutant: the context is released and g_inited left as it was.            *)
Release_KeepsFlag(m) ==
  /\ monitor[m] = "reload"
  /\ g_ctx_mutex = Nobody
  /\ g_ctx_mutex' = m
  /\ IF g_inited THEN DriverRelease ELSE UNCHANGED <<userdata, contexts, stale>>
  /\ MonitorTo(m, "reinit")
  /\ UNCHANGED <<g_inited, config, running, last_mtime, app, outside>>

(* Mutant: a monitor that finds the mutex taken does not wait for it.      *)
Release_GivesUp(m) ==
  /\ monitor[m] = "reload"
  /\ IF g_ctx_mutex = Nobody
       THEN /\ g_ctx_mutex' = m
            /\ IF g_inited THEN DriverRelease ELSE UNCHANGED <<userdata, contexts, stale>>
            /\ g_inited' = FALSE
            /\ MonitorTo(m, "reinit")
       ELSE MonitorTo(m, "check") /\ UNCHANGED <<g_ctx_mutex, context>>
  /\ UNCHANGED <<config, running, last_mtime, app, outside>>

(* on_config_changed, in two steps: the file may change in between.        *)
Release(m) ==
  /\ monitor[m] = "reload"
  /\ g_ctx_mutex = Nobody
  /\ g_ctx_mutex' = m
  /\ IF g_inited THEN DriverRelease ELSE UNCHANGED <<userdata, contexts, stale>>
  /\ g_inited' = FALSE
  /\ MonitorTo(m, "reinit")
  /\ UNCHANGED <<config, running, last_mtime, app, outside>>

(* Mutant: a reload that fails ends the monitor.                           *)
Reinitialize_Ends(m) ==
  /\ monitor[m] = "reinit"
  /\ \/ DriverInit /\ MonitorTo(m, "check")
     \/ UNCHANGED context /\ MonitorTo(m, "ended")
  /\ Unlock
  /\ UNCHANGED <<running, last_mtime, app, outside>>

Reinitialize(m) ==
  /\ monitor[m] = "reinit"
  /\ DriverInit \/ UNCHANGED context
  /\ Unlock
  /\ MonitorTo(m, "check")
  /\ UNCHANGED <<running, last_mtime, app, outside>>

-----------------------------------------------------------------------------
(***************************************************************************)
(* The main program may stop the monitor (demo/main.cc:23); the file is    *)
(* edited, perhaps within the second of the last edit, or replaced.        *)
(***************************************************************************)
Stop ==
  /\ ~calm
  /\ stops < MaxStops
  /\ stops' = stops + 1
  /\ running' = FALSE
  /\ UNCHANGED <<context, g_ctx_mutex, last_mtime, monitor, app, file, calm>>

Edit ==
  /\ file.version < MaxEdits
  /\ \E t \in {file.mtime, file.mtime + 1} :
       file' = [exists |-> TRUE, version |-> file.version + 1, mtime |-> t]
  /\ calm => EditIsCalm
  /\ UNCHANGED <<context, g_ctx_mutex, watcher, app, stops, calm>>

Vanish ==
  /\ ~calm
  /\ file.exists
  /\ file' = [file EXCEPT !.exists = FALSE]
  /\ UNCHANGED <<context, g_ctx_mutex, watcher, app, stops, calm>>

-----------------------------------------------------------------------------
Ensure(a)  == Initialize(a) \/ InitializeFails(a) \/ Watch(a) \/ Connect(a)
Operate(a) == Fetch(a) \/ Use(a)
AppNext(a) == Enter(a) \/ Ensure(a) \/ Operate(a)

MonitorNext(m) ==
  Baseline(m) \/ MonitorEnds(m) \/ Detect(m) \/ Confirm(m) \/ Release(m) \/ Reinitialize(m)

Next ==
  \/ \E a \in Apps : AppNext(a)
  \/ \E m \in Monitors : MonitorNext(m)
  \/ Stop \/ Edit \/ Vanish

(* Applications call again and again and run on inside a call, the monitor *)
(* looks again and again, a mutex that is free again and again is acquired *)
(* in the end, and so does the initialisation succeed.                     *)
Fairness ==
  /\ \A a \in Apps : SF_vars(AppNext(a)) /\ SF_vars(Initialize(a))
  /\ \A m \in Monitors : SF_vars(MonitorNext(m))

Spec     == Init /\ [][Next]_vars
FairSpec == Spec /\ Fairness
-----------------------------------------------------------------------------
(* The comment at plc_mqtt_entry.c:73: an initialised entry has a context. *)
(* And it has one only: failed reloads and the retries of later calls      *)
(* leave none behind, with its client and its buffers.                     *)
OneContext ==
  /\ userdata = g_inited
  /\ contexts = IF userdata THEN 1 ELSE 0

(* The comment at plc_mqtt_entry.c:64: monitoring starts with the first    *)
(* initialisation only, although a failed reload leads to others.          *)
StartedOnce ==
  \A a \in Apps :
    stops = 0 /\ app[a] = "watch" => \A m \in Monitors : monitor[m] = "none"

(* While the context was made from an older version of the file, a monitor *)
(* is about to see the newer one or already on its way to reload it.       *)
CalmEditIsKnown ==
  (calm /\ g_inited /\ config # file.version) =>
    \E m \in Monitors :
      \/ monitor[m] = "check" /\ file.mtime # last_mtime
      \/ monitor[m] \in {"changed", "reload"}

(* Every edit takes effect, even if the reload itself fails.               *)
CalmEditIsApplied ==
  (calm /\ g_inited /\ config # file.version) ~> (g_inited /\ config = file.version)

(* plc_mqtt_entry.c:94: operations run without the mutex, so a reload may  *)
(* take the context from one that is using it.  Only an edit of the file   *)
(* costs that: the monitor's first look, its restarts, failed              *)
(* initialisations and a file that vanishes never release a context.       *)
StaleOnlyAfterEdit == stale # {} => file.version > 0
=============================================================================
